------------------------------ MODULE AsyncQueue ------------------------------
(***************************************************************************)
(* The asynchronous thread of core_daemon/device.c and the queue it reads, *)
(* lib/thread_utils.c: a GQueue, a mutex and a condition variable.         *)
(*                                                                         *)
(* probe_dev_async, set_dev_status_async, get_dev_status_async and         *)
(* set_dev_action_async push an act and then signal, outside the mutex;    *)
(* the thread waits at most a second at a time and carries one act out at  *)
(* a time, outside the mutex.  Each stretch under the mutex is one step.   *)
(*                                                                         *)
(* main opens the box to pads before it sets this thread up, so pads may   *)
(* push before there is a queue, and then before there is a thread.        *)
(***************************************************************************)
EXTENDS Integers, Sequences

CONSTANTS
    Producers,   \* client handlers, driver monitors and the main loop
    Contexts,    \* reply addresses of client contexts
    MaxActs      \* bound: acts ever pushed

ASSUME ContextsAssumption == "NULL" \notin Contexts
ASSUME MaxActsAssumption == MaxActs \in Nat

Types == {"PROBE", "SET_STATUS", "GET_STATUS", "DO_ACTION"}

(* Timers, delays and linkages push SET_STATUS and DO_ACTION acts with no  *)
(* reply address; a probe or a status query always comes from a pad.       *)
Act == { a \in [type : Types, reply : Contexts \cup {"NULL"}, n : 1..MaxActs] :
            a.type \in {"PROBE", "GET_STATUS"} => a.reply # "NULL" }

VARIABLES
    data_queue,  \* thread_data_control.data_queue
    producer,    \* where each producer is: "run", or "signal" after its push
    worker,      \* the asynchronous thread; "none" while data_queue is NULL
    data,        \* the act it has popped, as a sequence of at most one
    pushed,      \* how many acts have been pushed
    lost,        \* how many of them met no queue
    done,        \* the acts carried out, in order
    responses    \* the acts notify_resp was called for, in order

vars == <<data_queue, producer, worker, data, pushed, lost, done, responses>>

Init ==
    /\ data_queue = <<>>
    /\ producer = [p \in Producers |-> "run"]
    /\ worker = "none"
    /\ data = <<>>
    /\ pushed = 0
    /\ lost = 0
    /\ done = <<>>
    /\ responses = <<>>

(* Mutant: the queue is made only when the thread is about to run. *)
StartThreadInits ==
    /\ worker = "starting"
    /\ worker' = "check"
    /\ data_queue' = <<>>
    /\ UNCHANGED <<producer, data, pushed, lost, done, responses>>

(* thread_control_init, in the main thread. *)
ThreadControlInit ==
    /\ worker = "none"
    /\ worker' = "starting"
    /\ UNCHANGED <<data_queue, producer, data, pushed, lost, done, responses>>

(* thread_control_activate and pthread_create. *)
StartThread ==
    /\ worker = "starting"
    /\ worker' = "check"
    /\ UNCHANGED <<data_queue, producer, data, pushed, lost, done, responses>>

(* thread_control_push_data before thread_control_init: the mutex, all     *)
(* zeros, can be locked, and g_queue_push_tail on NULL does nothing.       *)
PushNowhere(p) ==
    /\ worker = "none"
    /\ producer[p] = "run"
    /\ pushed < MaxActs
    /\ pushed' = pushed + 1
    /\ lost' = lost + 1
    /\ producer' = [producer EXCEPT ![p] = "signal"]
    /\ UNCHANGED <<data_queue, worker, data, done, responses>>

(* thread_control_push_data: the critical section. *)
PushData(p, a) ==
    /\ worker # "none"
    /\ producer[p] = "run"
    /\ pushed < MaxActs
    /\ a.n = pushed + 1
    /\ data_queue' = Append(data_queue, a)
    /\ pushed' = pushed + 1
    /\ producer' = [producer EXCEPT ![p] = "signal"]
    /\ UNCHANGED <<worker, data, lost, done, responses>>

(* thread_control_wakeup: the signal is lost on a thread that is not       *)
(* waiting.                                                                *)
Wakeup(p) ==
    /\ producer[p] = "signal"
    /\ producer' = [producer EXCEPT ![p] = "run"]
    /\ worker' = IF worker = "waiting" THEN "check" ELSE worker
    /\ UNCHANGED <<data_queue, data, pushed, lost, done, responses>>

(* The loop finds the queue empty and waits. *)
WorkerWaits ==
    /\ worker = "check"
    /\ data_queue = <<>>
    /\ worker' = "waiting"
    /\ UNCHANGED <<data_queue, producer, data, pushed, lost, done, responses>>

(* The second is over, or the wait ends without a reason. *)
WaitEnds ==
    /\ worker = "waiting"
    /\ worker' = "check"
    /\ UNCHANGED <<data_queue, producer, data, pushed, lost, done, responses>>

(* Mutant: g_queue_pop_tail. *)
WorkerPopsTail ==
    /\ worker = "check"
    /\ data_queue # <<>>
    /\ data' = <<data_queue[Len(data_queue)]>>
    /\ data_queue' = SubSeq(data_queue, 1, Len(data_queue) - 1)
    /\ worker' = "process"
    /\ UNCHANGED <<producer, pushed, lost, done, responses>>

(* Mutant: g_queue_peek_head. *)
WorkerPeeks ==
    /\ worker = "check"
    /\ data_queue # <<>>
    /\ data' = <<Head(data_queue)>>
    /\ worker' = "process"
    /\ UNCHANGED <<data_queue, producer, pushed, lost, done, responses>>

(* The loop pops the oldest act and releases the mutex. *)
WorkerPops ==
    /\ worker = "check"
    /\ data_queue # <<>>
    /\ data' = <<Head(data_queue)>>
    /\ data_queue' = Tail(data_queue)
    /\ worker' = "process"
    /\ UNCHANGED <<producer, pushed, lost, done, responses>>

(* _process_dev_act: an act without a reply address gets no response, but  *)
(* for a status query, whose response then matches no context.             *)
Responds(a) == a.type = "GET_STATUS" \/ a.reply # "NULL"

(* Mutant: the early return for acts without a reply leaves the thread. *)
AfterActStops(a) == IF Responds(a) THEN "check" ELSE "stopped"

(* The thread takes the mutex again and loops. *)
AfterAct(a) == "check"

(* _process_dev_act has called the driver and returned. *)
ProcessDevAct ==
    /\ worker = "process"
    /\ done' = Append(done, data[1])
    /\ responses' = IF Responds(data[1]) THEN Append(responses, data[1]) ELSE responses
    /\ data' = <<>>
    /\ worker' = AfterAct(data[1])
    /\ UNCHANGED <<data_queue, producer, pushed, lost>>

Next ==
    \/ ThreadControlInit \/ StartThread
    \/ \E p \in Producers : (\E a \in Act : PushData(p, a)) \/ PushNowhere(p) \/ Wakeup(p)
    \/ WorkerWaits \/ WaitEnds \/ WorkerPops \/ ProcessDevAct

Spec == Init /\ [][Next]_vars

(* A thread that is being set up starts, the thread is scheduled, and a    *)
(* driver operation returns: a zigbee call within CZ_TIMEOUT, a            *)
(* virtual-switch transfer within three seconds.                           *)
Fairness == WF_vars(StartThread) /\ WF_vars(WorkerPops) /\ WF_vars(WaitEnds) /\ WF_vars(ProcessDevAct)

FairSpec == Spec /\ Fairness

-----------------------------------------------------------------------------
(* Every variable has its type. *)
TypeOK ==
    /\ data_queue \in Seq(Act)
    /\ producer \in [Producers -> {"run", "signal"}]
    /\ worker \in {"none", "starting", "check", "waiting", "process"}
    /\ data \in Seq(Act) /\ Len(data) = IF worker = "process" THEN 1 ELSE 0
    /\ pushed = lost + Len(data_queue) + Len(data) + Len(done)
    /\ pushed \in 0..MaxActs
    /\ lost \in Nat
    /\ done \in Seq(Act)
    /\ responses \in Seq(Act)

line == data \o data_queue
Line == INSTANCE ActQueue WITH served <- done, answered <- responses

(* The thread and its queue implement the line of ActQueue, the act in     *)
(* hand being its head: exactly once and in order, whichever threads push  *)
(* at the same time, with responses to the acts a pad waits for and to no  *)
(* others.                                                                 *)
ImplementsActQueue == Line!Spec

(* The line moves as ActQueue promises: every act is carried out in the    *)
(* end, although the wake-up of a thread that is not waiting is lost.      *)
LineMoves == Line!Progress

(* The acts that met no queue are the first ones, from before the start of *)
(* the thread; every later one is carried out or in line, in its place.    *)
OnlyEarlyActsLost ==
    LET rest == done \o line
    IN  \A i \in 1..Len(rest) : rest[i].n = lost + i
=============================================================================
