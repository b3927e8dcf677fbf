--------------------------- MODULE AsyncQueueProofs ---------------------------
(***************************************************************************)
(* TLAPS proofs about AsyncQueue: its type invariant, which also counts    *)
(* the acts; the step-by-step half of its refinement of ActQueue; and that *)
(* only acts pushed before the start of the thread are lost.               *)
(***************************************************************************)
EXTENDS AsyncQueue, SequenceTheorems, TLAPS

(* A waiting line with its first element in the worker's hands: what the   *)
(* two lists look like as one, before and after the element leaves.        *)
LEMMA FirstInHand ==
    ASSUME NEW S, NEW x \in S, NEW q \in Seq(S)
    PROVE  /\ <<x>> \o q \in Seq(S) /\ <<x>> \o q # <<>>
           /\ Head(<<x>> \o q) = x
           /\ Tail(<<x>> \o q) = q
<1> DEFINE c == <<x>> \o q
<1>1. <<x>> \in Seq(S) /\ Len(<<x>>) = 1 /\ <<x>>[1] = x
  OBVIOUS
<1>2. /\ c \in Seq(S) /\ Len(c) = 1 + Len(q)
      /\ \A i \in 1 .. 1 + Len(q) : c[i] = IF i <= 1 THEN x ELSE q[i - 1]
  BY <1>1, ConcatProperties
<1>3. Len(q) \in Nat
  BY LenProperties
<1> HIDE DEF c
<1>4. c # <<>> /\ Head(c) = x
  BY <1>2, <1>3
<1>5. /\ Tail(c) \in Seq(S) /\ Len(Tail(c)) = Len(q)
      /\ \A i \in 1..Len(Tail(c)) : Tail(c)[i] = c[i + 1]
  BY <1>2, <1>3, <1>4, HeadTailProperties
<1>6. \A i \in 1..Len(Tail(c)) : Tail(c)[i] = q[i]
  BY <1>2, <1>3, <1>5
<1>7. Tail(c) = q
  BY <1>5, <1>6, SeqEqual
<1> QED
  BY <1>2, <1>4, <1>7 DEF c

(* Appending to the queue appends to the line. *)
LEMMA AppendToLine ==
    ASSUME NEW S, NEW s \in Seq(S), NEW q \in Seq(S), NEW a \in S
    PROVE  s \o Append(q, a) = Append(s \o q, a)
<1>1. s \o q \in Seq(S) /\ <<a>> \in Seq(S)
  BY ConcatProperties
<1>2. Append(q, a) = q \o <<a>> /\ Append(s \o q, a) = (s \o q) \o <<a>>
  BY <1>1, AppendIsConcat
<1>3. (s \o q) \o <<a>> = s \o (q \o <<a>>)
  BY <1>1, ConcatAssociative
<1> QED
  BY <1>2, <1>3

(* A popped act followed by the rest of the queue is the queue. *)
LEMMA HeadAndTail ==
    ASSUME NEW S, NEW q \in Seq(S), q # <<>>
    PROVE  /\ Head(q) \in S /\ Tail(q) \in Seq(S) /\ Len(Tail(q)) = Len(q) - 1
           /\ <<Head(q)>> \o Tail(q) = q
<1>1. /\ Head(q) \in S /\ Tail(q) \in Seq(S) /\ Len(Tail(q)) = Len(q) - 1
      /\ \A i \in 1..Len(Tail(q)) : Tail(q)[i] = q[i + 1]
  BY HeadTailProperties
<1>2. Len(q) \in Nat \ {0} /\ q[1] = Head(q)
  BY EmptySeq
<1>3. <<Head(q)>> \in Seq(S) /\ Len(<<Head(q)>>) = 1 /\ <<Head(q)>>[1] = Head(q)
  BY <1>1
<1> DEFINE c == <<Head(q)>> \o Tail(q)
<1>4. /\ c \in Seq(S) /\ Len(c) = 1 + Len(Tail(q))
      /\ \A i \in 1 .. 1 + Len(Tail(q)) : c[i] = IF i <= 1 THEN Head(q) ELSE Tail(q)[i - 1]
  BY <1>1, <1>3, ConcatProperties
<1> HIDE DEF c
<1>5. Len(c) = Len(q) /\ \A i \in 1..Len(c) : c[i] = q[i]
  BY <1>1, <1>2, <1>4
<1>6. c = q
  BY <1>4, <1>5, SeqEqual
<1> QED
  BY <1>1, <1>6 DEF c

(* The worker's hands hold what its program counter says. *)
LEMMA InHand ==
    ASSUME TypeOK
    PROVE  /\ worker = "process" => data[1] \in Act /\ data = <<data[1]>>
           /\ worker # "process" => data = <<>>
<1>1. CASE worker = "process"
  <2>1. data \in Seq(Act) /\ Len(data) = 1
    BY <1>1 DEF TypeOK
  <2>2. data[1] \in Act
    BY <2>1, ElementOfSeq
  <2>3. <<data[1]>> \in Seq(Act) /\ Len(<<data[1]>>) = 1 /\ <<data[1]>>[1] = data[1]
    BY <2>2
  <2>4. \A i \in 1..Len(data) : data[i] = <<data[1]>>[i]
    BY <2>1, <2>3
  <2>5. data = <<data[1]>>
    BY <2>1, <2>3, <2>4, SeqEqual
  <2> QED
    BY <1>1, <2>2, <2>5
<1>2. CASE worker # "process"
  <2>1. data \in Seq(Act) /\ Len(data) = 0
    BY <1>2 DEF TypeOK
  <2> QED
    BY <1>2, <2>1, EmptySeq
<1> QED
  BY <1>1, <1>2

-----------------------------------------------------------------------------
LEMMA TypeInit == Init => TypeOK
<1> SUFFICES ASSUME Init PROVE TypeOK
  OBVIOUS
<1>1. <<>> \in Seq(Act) /\ Len(<<>>) = 0
  BY EmptySeq
<1> QED
  BY <1>1, MaxActsAssumption DEF Init, TypeOK

LEMMA TypeStep == TypeOK /\ [Next]_vars => TypeOK'
<1> SUFFICES ASSUME TypeOK, [Next]_vars PROVE TypeOK'
  OBVIOUS
<1>0. lost \in Nat /\ Len(data_queue) \in Nat /\ Len(data) \in Nat /\ Len(done) \in Nat
  BY LenProperties DEF TypeOK
<1>1. ASSUME NEW p \in Producers, NEW a \in Act, PushData(p, a) PROVE TypeOK'
  <2>1. data_queue' \in Seq(Act) /\ Len(data_queue') = Len(data_queue) + 1
    BY <1>1, AppendProperties DEF PushData, TypeOK
  <2>2. pushed' \in 0..MaxActs
    BY <1>1, MaxActsAssumption DEF PushData, TypeOK
  <2>3. producer' \in [Producers -> {"run", "signal"}]
    BY <1>1 DEF PushData, TypeOK
  <2>4. pushed' = pushed + 1 /\ worker' = worker /\ data' = data /\ done' = done
        /\ responses' = responses /\ lost' = lost
    BY <1>1 DEF PushData
  <2>5. pushed = lost + Len(data_queue) + Len(data) + Len(done)
    BY DEF TypeOK
  <2>6. pushed' = lost' + Len(data_queue') + Len(data') + Len(done')
    BY <1>0, <2>1, <2>4, <2>5
  <2> QED
    BY <2>1, <2>2, <2>3, <2>4, <2>6 DEF TypeOK
<1>2. ASSUME NEW p \in Producers, Wakeup(p) PROVE TypeOK'
  <2>1. producer' \in [Producers -> {"run", "signal"}]
    BY <1>2 DEF Wakeup, TypeOK
  <2>2. /\ worker' \in {"none", "starting", "check", "waiting", "process"}
        /\ worker' = "process" <=> worker = "process"
    BY <1>2 DEF Wakeup, TypeOK
  <2> QED
    BY <1>2, <2>1, <2>2 DEF Wakeup, TypeOK
<1>3. CASE WorkerWaits \/ WaitEnds
  BY <1>3 DEF WorkerWaits, WaitEnds, TypeOK
<1>4. CASE WorkerPops
  <2>1. Head(data_queue) \in Act /\ Tail(data_queue) \in Seq(Act)
        /\ Len(Tail(data_queue)) = Len(data_queue) - 1
    BY <1>4, HeadAndTail DEF WorkerPops, TypeOK
  <2>2. Len(data) = 0
    BY <1>4 DEF WorkerPops, TypeOK
  <2>3. data' \in Seq(Act) /\ Len(data') = 1
    BY <1>4, <2>1 DEF WorkerPops
  <2> QED
    BY <1>0, <1>4, <2>1, <2>2, <2>3 DEF WorkerPops, TypeOK
<1>5. CASE ProcessDevAct
  <2>1. data[1] \in Act /\ Len(data) = 1
    BY <1>5, InHand DEF ProcessDevAct, TypeOK
  <2>2. done' \in Seq(Act) /\ Len(done') = Len(done) + 1
    BY <1>5, <2>1, AppendProperties DEF ProcessDevAct, TypeOK
  <2>3. responses' \in Seq(Act)
    BY <1>5, <2>1, AppendProperties DEF ProcessDevAct, TypeOK
  <2>4. data' \in Seq(Act) /\ Len(data') = 0 /\ worker' = "check"
    BY <1>5, EmptySeq DEF ProcessDevAct, AfterAct
  <2> QED
    BY <1>0, <1>5, <2>1, <2>2, <2>3, <2>4 DEF ProcessDevAct, TypeOK
<1>6. CASE UNCHANGED vars
  BY <1>6 DEF vars, TypeOK
<1>7. CASE ThreadControlInit \/ StartThread
  BY <1>7 DEF ThreadControlInit, StartThread, TypeOK
<1>8. ASSUME NEW p \in Producers, PushNowhere(p) PROVE TypeOK'
  <2>1. producer' \in [Producers -> {"run", "signal"}]
    BY <1>8 DEF PushNowhere, TypeOK
  <2>2. /\ pushed' = pushed + 1 /\ lost' = lost + 1 /\ pushed' \in 0..MaxActs
        /\ UNCHANGED <<data_queue, worker, data, done, responses>>
    BY <1>8, MaxActsAssumption DEF PushNowhere, TypeOK
  <2>3. pushed = lost + Len(data_queue) + Len(data) + Len(done)
    BY DEF TypeOK
  <2>4. pushed' = lost' + Len(data_queue') + Len(data') + Len(done') /\ lost' \in Nat
    BY <1>0, <2>2, <2>3
  <2> QED
    BY <2>1, <2>2, <2>4 DEF TypeOK
<1> QED
  BY <1>1, <1>2, <1>3, <1>4, <1>5, <1>6, <1>7, <1>8 DEF Next

(* The queue and the thread keep their types and lose no act: the acts     *)
(* pushed are those in the queue, in the thread's hands and carried out.   *)
THEOREM TypeCorrect == Spec => []TypeOK
<1>1. TypeOK /\ [Next]_vars => TypeOK'
  BY TypeStep
<1> QED
  BY TypeInit, <1>1, PTL DEF Spec

-----------------------------------------------------------------------------
(* Every step of the queue and its thread is a step of the line, or none:  *)
(* the line is the act in hand followed by the queue.                      *)
LEMMA RefinementStep == TypeOK /\ [Next]_vars => [Line!Next]_(Line!vars)
<1> SUFFICES ASSUME TypeOK, [Next]_vars PROVE [Line!Next]_(Line!vars)
  OBVIOUS
<1> USE DEF line, Line!vars
<1>0. data \in Seq(Act) /\ data_queue \in Seq(Act) /\ done \in Seq(Act)
  BY DEF TypeOK
<1>1. ASSUME NEW p \in Producers, NEW a \in Act, PushData(p, a) PROVE Line!Submit(a)
  <2>1. line' = Append(line, a)
    BY <1>0, <1>1, AppendToLine DEF PushData
  <2>2. lost + Len(line) + Len(done) = pushed /\ lost \in Nat
    <3>1. Len(line) = Len(data) + Len(data_queue)
      BY <1>0, ConcatProperties
    <3>2. Len(data) \in Nat /\ Len(data_queue) \in Nat /\ Len(done) \in Nat
      BY <1>0, LenProperties
    <3>3. pushed = lost + Len(data_queue) + Len(data) + Len(done) /\ lost \in Nat
      BY DEF TypeOK
    <3> HIDE DEF line
    <3> QED
      BY <3>1, <3>2, <3>3
  <2>3. /\ pushed < MaxActs /\ pushed \in Nat /\ MaxActs \in Nat
        /\ done' = done /\ responses' = responses
    BY <1>1, MaxActsAssumption DEF PushData, TypeOK
  <2>4. Len(line) \in Nat /\ Len(done) \in Nat
    BY <1>0, ConcatProperties, LenProperties
  <2> HIDE DEF line
  <2>5. Len(line) + Len(done) < MaxActs
    BY <2>2, <2>3, <2>4
  <2> QED
    BY <2>1, <2>3, <2>5 DEF Line!Submit
<1>2. ASSUME NEW p \in Producers, Wakeup(p) PROVE UNCHANGED Line!vars
  BY <1>2 DEF Wakeup
<1>3. CASE WorkerWaits \/ WaitEnds
  BY <1>3 DEF WorkerWaits, WaitEnds
<1>4. CASE WorkerPops
  <2>1. data = <<>>
    BY <1>4, InHand DEF WorkerPops
  <2>2. line = data_queue
    BY <1>0, <2>1, ConcatEmptySeq
  <2>3. line' = data_queue
    BY <1>0, <1>4, HeadAndTail DEF WorkerPops
  <2> HIDE DEF line
  <2> QED
    BY <1>4, <2>2, <2>3 DEF WorkerPops
<1>5. CASE ProcessDevAct
  <2>1. data[1] \in Act /\ data = <<data[1]>>
    BY <1>5, InHand DEF ProcessDevAct
  <2>2. line # <<>> /\ Head(line) = data[1] /\ Tail(line) = data_queue
    BY <1>0, <2>1, FirstInHand
  <2>3. line' = data_queue
    BY <1>0, <1>5, ConcatEmptySeq DEF ProcessDevAct
  <2>4. done' = Append(done, data[1])
    BY <1>5 DEF ProcessDevAct
  <2>5. Responds(data[1]) <=> data[1].reply # "NULL"
    BY <2>1 DEF Responds, Act
  <2>6. responses' = IF data[1].reply = "NULL" THEN responses ELSE Append(responses, data[1])
    BY <1>5, <2>5 DEF ProcessDevAct
  <2> HIDE DEF line
  <2>7. Line!Serve
    BY <2>2, <2>3, <2>4, <2>6 DEF Line!Serve
  <2> QED
    BY <2>7 DEF Line!Next
<1>6. CASE UNCHANGED vars
  BY <1>6 DEF vars
<1>7. CASE ThreadControlInit \/ StartThread
  BY <1>7 DEF ThreadControlInit, StartThread
<1>8. ASSUME NEW p \in Producers, PushNowhere(p) PROVE UNCHANGED Line!vars
  BY <1>8 DEF PushNowhere
<1> QED
  BY <1>1, <1>2, <1>3, <1>4, <1>5, <1>6, <1>7, <1>8 DEF Next, Line!Next

LEMMA RefinementInit == Init => Line!Init
  BY EmptySeq, ConcatEmptySeq DEF Init, Line!Init, line

(* Whatever the number of producers, contexts and acts, the asynchronous   *)
(* thread carries every pushed act out at most once and in the order of    *)
(* the pushes: AsyncQueue implements ActQueue, liveness apart.             *)
THEOREM Refinement == Spec => ImplementsActQueue
<1>1. TypeOK /\ [Next]_vars => [Line!Next]_(Line!vars)
  BY RefinementStep
<1>2. Init => Line!Init
  BY RefinementInit
<1> QED
  BY <1>1, <1>2, TypeCorrect, PTL DEF Spec, ImplementsActQueue, Line!Spec

-----------------------------------------------------------------------------
(* Before there is a queue nothing is in line and nothing is done.         *)
NothingYet == worker = "none" => data_queue = <<>> /\ data = <<>> /\ done = <<>>

EarlyInv == TypeOK /\ NothingYet /\ OnlyEarlyActsLost

(* The acts done and the acts in line, as one sequence. *)
Rest == done \o line

LEMMA RestProperties ==
    ASSUME TypeOK
    PROVE  Rest \in Seq(Act) /\ line \in Seq(Act) /\ Len(Rest) \in Nat /\ pushed = lost + Len(Rest)
<1>1. /\ data \in Seq(Act) /\ data_queue \in Seq(Act) /\ done \in Seq(Act)
      /\ lost \in Nat /\ pushed = lost + Len(data_queue) + Len(data) + Len(done)
  BY DEF TypeOK
<1>2. Len(data) \in Nat /\ Len(data_queue) \in Nat /\ Len(done) \in Nat
  BY <1>1, LenProperties
<1>3. line \in Seq(Act) /\ Len(line) = Len(data) + Len(data_queue)
  BY <1>1, ConcatProperties DEF line
<1>4. Rest \in Seq(Act) /\ Len(Rest) = Len(done) + Len(line)
  BY <1>1, <1>3, ConcatProperties DEF Rest
<1> QED
  BY <1>1, <1>2, <1>3, <1>4

LEMMA EarlyInit == Init => EarlyInv
<1> SUFFICES ASSUME Init PROVE NothingYet /\ OnlyEarlyActsLost
  BY TypeInit DEF EarlyInv
<1>1. Rest = <<>>
  BY EmptySeq, ConcatEmptySeq DEF Init, Rest, line
<1>2. Len(Rest) = 0
  BY <1>1, EmptySeq
<1>3. \A i \in 1..Len(Rest) : Rest[i].n = lost + i
  BY <1>2
<1> QED
  BY <1>3 DEF Init, NothingYet, OnlyEarlyActsLost, Rest

LEMMA EarlyStep == EarlyInv /\ [Next]_vars => EarlyInv'
<1> SUFFICES ASSUME EarlyInv, [Next]_vars PROVE NothingYet' /\ OnlyEarlyActsLost'
  BY TypeStep DEF EarlyInv
<1>0. /\ TypeOK /\ NothingYet /\ OnlyEarlyActsLost
      /\ data \in Seq(Act) /\ data_queue \in Seq(Act) /\ done \in Seq(Act)
  BY DEF EarlyInv, TypeOK
<1>1. \A i \in 1..Len(Rest) : Rest[i].n = lost + i
  BY <1>0 DEF OnlyEarlyActsLost, Rest
<1>2. SUFFICES NothingYet' /\ \A i \in 1..Len(Rest') : Rest'[i].n = lost' + i
  BY DEF OnlyEarlyActsLost, Rest
<1>3. ASSUME Rest' = Rest, lost' = lost PROVE \A i \in 1..Len(Rest') : Rest'[i].n = lost' + i
  BY <1>1, <1>3
<1>4. ASSUME NEW p \in Producers, NEW a \in Act, PushData(p, a)
      PROVE  NothingYet' /\ \A i \in 1..Len(Rest') : Rest'[i].n = lost' + i
  <2>1. line' = Append(line, a)
    BY <1>0, <1>4, AppendToLine DEF PushData, line
  <2>2. line \in Seq(Act) /\ Rest \in Seq(Act) /\ Len(Rest) \in Nat /\ pushed = lost + Len(Rest)
    BY <1>0, RestProperties
  <2>3. Rest' = Append(Rest, a)
    BY <1>0, <1>4, <2>1, <2>2, AppendToLine DEF PushData, Rest
  <2>4. /\ Len(Rest') = Len(Rest) + 1 /\ Rest'[Len(Rest) + 1] = a
        /\ \A i \in 1..Len(Rest) : Rest'[i] = Rest[i]
    BY <2>2, <2>3, AppendProperties
  <2>5. a.n = lost + (Len(Rest) + 1) /\ lost' = lost
    <3>1. a.n = pushed + 1 /\ lost' = lost
      BY <1>4 DEF PushData
    <3>2. lost \in Nat
      BY <1>0 DEF TypeOK
    <3> QED
      BY <2>2, <3>1, <3>2
  <2>6. NothingYet'
    BY <1>4 DEF PushData, NothingYet
  <2> QED
    BY <1>1, <2>2, <2>4, <2>5, <2>6
<1>5. ASSUME NEW p \in Producers, PushNowhere(p)
      PROVE  NothingYet' /\ \A i \in 1..Len(Rest') : Rest'[i].n = lost' + i
  <2>1. data_queue' = <<>> /\ data' = <<>> /\ done' = <<>>
    BY <1>0, <1>5 DEF PushNowhere, NothingYet
  <2>2. Rest' = <<>>
    BY <2>1, EmptySeq, ConcatEmptySeq DEF Rest, line
  <2>3. Len(Rest') = 0
    BY <2>2, EmptySeq
  <2> QED
    BY <2>1, <2>3 DEF NothingYet
<1>6. ASSUME NEW p \in Producers, Wakeup(p) PROVE NothingYet' /\ Rest' = Rest /\ lost' = lost
  BY <1>0, <1>6 DEF Wakeup, NothingYet, Rest, line
<1>7. CASE ThreadControlInit \/ StartThread \/ WorkerWaits \/ WaitEnds \/ UNCHANGED vars
  <2>1. NothingYet' /\ Rest' = Rest /\ lost' = lost
    BY <1>0, <1>7 DEF ThreadControlInit, StartThread, WorkerWaits, WaitEnds, vars, NothingYet, Rest, line
  <2> QED
    BY <1>3, <2>1
<1>8. CASE WorkerPops
  <2>1. data = <<>>
    BY <1>0, <1>8, InHand DEF WorkerPops
  <2>2. line' = line
    BY <1>0, <1>8, <2>1, HeadAndTail, ConcatEmptySeq DEF WorkerPops, line
  <2>3. NothingYet' /\ Rest' = Rest /\ lost' = lost
    BY <1>8, <2>2 DEF WorkerPops, NothingYet, Rest
  <2> QED
    BY <1>3, <2>3
<1>9. CASE ProcessDevAct
  <2>1. data[1] \in Act /\ data = <<data[1]>>
    BY <1>0, <1>9, InHand DEF ProcessDevAct
  <2>2. line' = data_queue /\ line = <<data[1]>> \o data_queue
    BY <1>0, <1>9, <2>1, ConcatEmptySeq DEF ProcessDevAct, line
  <2>3. done' = done \o <<data[1]>>
    BY <1>0, <1>9, <2>1, AppendIsConcat DEF ProcessDevAct
  <2>4. <<data[1]>> \in Seq(Act)
    BY <2>1
  <2>5. (done \o <<data[1]>>) \o data_queue = done \o (<<data[1]>> \o data_queue)
    BY <1>0, <2>4, ConcatAssociative
  <2>6. Rest' = Rest
    BY <2>2, <2>3, <2>5 DEF Rest
  <2>7. NothingYet' /\ lost' = lost
    BY <1>9 DEF ProcessDevAct, AfterAct, NothingYet
  <2> QED
    BY <1>3, <2>6, <2>7
<1> QED
  BY <1>3, <1>4, <1>5, <1>6, <1>7, <1>8, <1>9 DEF Next

(* Pads are served before the asynchronous thread is set up, but whatever  *)
(* the timing, only requests from before thread_control_init are lost; all *)
(* later ones are carried out or in line, in the order they were pushed.   *)
THEOREM StartUpCorrect == Spec => []OnlyEarlyActsLost
<1>1. EarlyInv /\ [Next]_vars => EarlyInv'
  BY EarlyStep
<1>2. EarlyInv => OnlyEarlyActsLost
  BY DEF EarlyInv
<1> QED
  BY EarlyInit, <1>1, <1>2, PTL DEF Spec
=============================================================================
