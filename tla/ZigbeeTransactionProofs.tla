----------------------- MODULE ZigbeeTransactionProofs -----------------------
(* Theorems about ZigbeeTransaction, for every set of devices, every width *)
(* of trans_id and every number of calls and probes.                       *)
EXTENDS ZigbeeTransaction, TLAPS

(* trans_id stays within its width, and counts up by one below the top. *)
LEMMA NextTransIdFact ==
    ASSUME trans_id \in 0..(TransMod - 1)
    PROVE  /\ NextTransId \in 0..(TransMod - 1)
           /\ trans_id + 1 < TransMod => NextTransId = trans_id + 1
           /\ trans_id + 1 = TransMod => NextTransId = 0
  BY TransModAssumption DEF NextTransId

(* Mixing two frames gives a frame. *)
LEMMA TornFact ==
    ASSUME NEW old \in Frame, NEW new \in Frame
    PROVE  Torn(old, new) \subseteq Frame
  BY DEF Torn, Frame

(* Part way through a copy the body is the old one or the new one. *)
LEMMA TornReq ==
    ASSUME NEW old \in Frame, NEW new \in Frame, NEW f \in Torn(old, new)
    PROVE  f.req \in {old.req, new.req}
  BY DEF Torn, Frame

(* The constant frames are frames. *)
LEMMA FrameFact == NoFrame \in Frame /\ DiscoverFrame \in Frame
  BY TransModAssumption, BoundsAssumption DEF NoFrame, DiscoverFrame, Frame, AllCmds

(* The initial state is well typed. *)
LEMMA TypeInit == Init => TypeOK
<1> SUFFICES ASSUME Init PROVE TypeOK
  OBVIOUS
<1>1. worker \in WorkerType /\ monitor \in MonitorType
  BY BoundsAssumption DEF Init, WorkerType, MonitorType
<1>2. answer \in [Reqs -> [out : Outcomes, by : 0..MaxReq]]
  BY BoundsAssumption DEF Init, Outcomes
<1>3. transmitted \in [0..MaxReq -> Nat]
  BY DEF Init
<1>4. trans_id \in 0..(TransMod - 1) /\ nreq \in 0..MaxReq /\ nprobe \in 0..MaxProbe
  BY TransModAssumption, BoundsAssumption DEF Init
<1>5. /\ queue \subseteq Devs /\ air \subseteq Transmission /\ replies \subseteq Reply
      /\ hazard \subseteq Hazards
  BY DEF Init
<1>6. /\ send_buf \in Frame /\ copying \in Frame /\ recv_buf \in Reply \cup {NoReply}
      /\ main \in {"todo", "copying", "done"} /\ notifies \in Nat /\ is_waiting \in BOOLEAN
  BY FrameFact DEF Init
<1> QED BY <1>1, <1>2, <1>3, <1>4, <1>5, <1>6 DEF TypeOK

(* Every step keeps the types. *)
LEMMA TypeStep == TypeOK /\ [Next]_vars => TypeOK'
<1> SUFFICES ASSUME TypeOK, [Next]_vars PROVE TypeOK'
  OBVIOUS
<1> USE BoundsAssumption, TransModAssumption, FrameFact DEF TypeOK, Reqs
<1>1. ASSUME NEW d \in Devs, NEW c \in Cmds, SampleBegin(d, c) PROVE TypeOK'
  <2>1. UcFrame(d, c) \in Frame
    BY <1>1, CmdsAssumption DEF SampleBegin, UcFrame, Frame, AllCmds
  <2>2. copying' \in Frame /\ send_buf' \in Frame
    BY <1>1, <2>1, TornFact DEF SampleBegin, CopyBegins
  <2>3. worker' \in WorkerType
    BY <1>1, CmdsAssumption DEF SampleBegin, WorkerType, AllCmds
  <2>4. hazard' \subseteq Hazards /\ nreq' \in 0..MaxReq
    BY <1>1 DEF SampleBegin, Overrun, Hazards
  <2> QED BY <1>1, <2>2, <2>3, <2>4 DEF SampleBegin, radio
<1>2. CASE SampleWait
  <2>1. worker' \in WorkerType
    BY <1>2 DEF SampleWait, WorkerType
  <2> QED BY <1>2, <2>1 DEF SampleWait, CopyEnds, radio, history
<1>3. CASE WaitTimeout
  BY <1>3 DEF WaitTimeout, WorkerType, protocol, radio, history
<1>4. CASE WaitSpurious
  <2>1. hazard' \subseteq Hazards /\ worker' \in WorkerType
    BY <1>4 DEF WaitSpurious, WorkerType, Hazards
  <2> QED BY <1>4, <2>1 DEF WaitSpurious, protocol, radio
<1>5. CASE SampleReturn
  <2>1. trans_id' \in 0..(TransMod - 1)
    BY <1>5, NextTransIdFact DEF SampleReturn
  <2>2. answer' \in [Reqs -> [out : Outcomes, by : 0..MaxReq]]
    <3>1. Verdict \in Outcomes
      BY DEF Verdict, Outcomes
    <3>2. recv_buf.req \in 0..MaxReq
      BY DEF Reply, NoReply
    <3>3. worker.pc = "timedout" =>
             answer' = [answer EXCEPT ![worker.req] = [out |-> "HSB_E_OTHERS", by |-> 0]]
      BY <1>5 DEF SampleReturn
    <3>4. worker.pc # "timedout" =>
             answer' = [answer EXCEPT ![worker.req] = [out |-> Verdict, by |-> recv_buf.req]]
      BY <1>5 DEF SampleReturn
    <3>5. "HSB_E_OTHERS" \in Outcomes
      BY DEF Outcomes
    <3>6. [out |-> "HSB_E_OTHERS", by |-> 0] \in [out : Outcomes, by : 0..MaxReq]
      BY <3>5
    <3>7. [out |-> Verdict, by |-> recv_buf.req] \in [out : Outcomes, by : 0..MaxReq]
      BY <3>1, <3>2
    <3> HIDE DEF Verdict
    <3> QED BY <3>3, <3>4, <3>6, <3>7
  <2>3. worker' \in WorkerType
    BY <1>5 DEF SampleReturn, WorkerType
  <2> QED BY <1>5, <2>1, <2>2, <2>3 DEF SampleReturn, radio
<1>6. ASSUME ProbeBegin PROVE copying' \in Frame /\ send_buf' \in Frame
  BY <1>6, TornFact DEF ProbeBegin, CopyBegins
<1>7. CASE WorkerProbeBegin
  <2>1. worker' \in WorkerType
    BY <1>7 DEF WorkerProbeBegin, WorkerType
  <2>2. hazard' \subseteq Hazards
    BY <1>7 DEF WorkerProbeBegin, ProbeBegin, Overrun, Hazards
  <2>3. nprobe' \in 0..MaxProbe
    BY <1>7 DEF WorkerProbeBegin
  <2>4. UNCHANGED <<trans_id, recv_buf, notifies, monitor, main, radio, nreq, answer>>
    BY <1>7 DEF WorkerProbeBegin, ProbeBegin
  <2>5. is_waiting' \in BOOLEAN /\ copying' \in Frame /\ send_buf' \in Frame
    BY <1>7, <1>6 DEF WorkerProbeBegin, ProbeBegin
  <2> QED BY <2>1, <2>2, <2>3, <2>4, <2>5 DEF radio
<1>8. CASE WorkerProbeEnd
  BY <1>8 DEF WorkerProbeEnd, ProbeEnd, CopyEnds, WorkerType, radio, history
<1>9. CASE MainProbeBegin
  BY <1>9, <1>6 DEF MainProbeBegin, ProbeBegin, Overrun, Hazards, radio
<1>10. CASE MainProbeEnd
  BY <1>10 DEF MainProbeEnd, ProbeEnd, CopyEnds, radio, history
<1>11. CASE MonitorNotified
  <2>1. notifies' \in Nat
    BY <1>11 DEF MonitorNotified
  <2>2. monitor' \in MonitorType
    BY <1>11 DEF MonitorNotified, MonitorType
  <2> QED BY <1>11, <2>1, <2>2 DEF MonitorNotified, radio, history
<1>12. CASE MonitorSends
  <2>1. send_buf.req \in 0..MaxReq
    BY DEF Frame
  <2>2. transmitted' \in [0..MaxReq -> Nat] /\ transmitted[send_buf.req] \in Nat
    BY <1>12, <2>1 DEF MonitorSends
  <2>3. air' \subseteq Transmission
    <3> SUFFICES ASSUME NEW t \in air', t \notin air PROVE t \in Transmission
      OBVIOUS
    <3>1. PICK d \in Devs : t = [n |-> transmitted[send_buf.req], dev |-> d, frame |-> send_buf]
      BY <1>12 DEF MonitorSends
    <3> QED BY <3>1, <2>2 DEF Transmission
  <2> QED BY <1>12, <2>2, <2>3 DEF MonitorSends, MonitorType, protocol, history
<1>13. ASSUME NEW f \in replies, MonitorUnsolicited(f) PROVE TypeOK'
  <2>1. queue' \subseteq Devs
    BY <1>13 DEF MonitorUnsolicited, Reply
  <2> QED BY <1>13, <2>1 DEF MonitorUnsolicited, protocol, threads, history
<1>14. ASSUME NEW f \in replies, MonitorChecks(f) PROVE TypeOK'
  BY <1>14 DEF MonitorChecks, MonitorType, protocol, history
<1>15. ASSUME NEW f \in replies, MonitorDiscards(f) PROVE TypeOK'
  BY <1>15 DEF MonitorDiscards, protocol, threads, history
<1>16. CASE MonitorDrops
  BY <1>16 DEF MonitorDrops, MonitorType, protocol, radio, history
<1>17. CASE MonitorSignals
  BY <1>17 DEF MonitorSignals, MonitorType, WorkerType, radio, history
<1>18. ASSUME NEW t \in air, NEW ok \in BOOLEAN, DeviceAnswers(t, ok) PROVE TypeOK'
  <2>1. replies' \subseteq Reply
    <3>1. t.n \in Nat /\ t.dev \in Devs /\ t.frame \in Frame
      BY DEF Transmission
    <3>2. t.frame.trans \in 0..(TransMod - 1) /\ t.frame.req \in 0..MaxReq
      BY <3>1 DEF Frame
    <3>3. ReplyCmd(t.frame.cmd) \in ReplyCmds
      BY DEF ReplyCmd, ReplyCmds
    <3> QED BY <1>18, <3>1, <3>2, <3>3 DEF DeviceAnswers, Reply
  <2> QED BY <1>18, <2>1 DEF DeviceAnswers, protocol, threads, history
<1>19. CASE UNCHANGED vars
  BY <1>19 DEF vars, protocol, threads, radio, history
<1> QED BY <1>1, <1>2, <1>3, <1>4, <1>5, <1>7, <1>8, <1>9, <1>10, <1>11, <1>12, <1>13,
          <1>14, <1>15, <1>16, <1>17, <1>18, <1>19 DEF Next, Worker, Monitor, Device

(* Every variable of the driver keeps its type: in particular trans_id its *)
(* width, and the answer array its bounds.                                 *)
THEOREM TypeCorrect == Spec => []TypeOK
  BY TypeInit, TypeStep, PTL DEF Spec

-----------------------------------------------------------------------------
(* Why the driver does not mistake one answer for another.  The invariant  *)
(* says who holds the mutex (LockInv), that calls, their numbers and       *)
(* trans_id go together (CallInv), that the send buffer still holds the    *)
(* frame the monitor owes the UART (BufferInv), that every frame on its    *)
(* way carries the id of the call it was built for (FramesInv), and that   *)
(* what the monitor is about to hand over, and what a signalled worker is  *)
(* about to read, belongs to the call in progress (HandOverInv).           *)

LockInv ==
    /\ copying # NoFrame <=> (worker.pc = "copying" \/ main = "copying")
    /\ ~(worker.pc = "copying" /\ main = "copying")
    /\ main = "copying" => copying = DiscoverFrame
    /\ worker.pc = "copying" /\ worker.req = 0 => copying = DiscoverFrame
    /\ worker.pc = "copying" /\ worker.req # 0 =>
          copying.req = worker.req /\ copying.trans = trans_id

CallInv ==
    /\ worker.req # 0 => worker.req = nreq
    /\ worker.pc = "idle" => worker.req = 0
    /\ worker.pc \in {"waiting", "signalled", "timedout"} => worker.req # 0
    /\ is_waiting => worker.req # 0
    /\ "wrapped" \notin hazard =>
          /\ nreq < TransMod
          /\ trans_id = IF worker.req # 0 THEN nreq
                        ELSE IF nreq + 1 = TransMod THEN 0 ELSE nreq + 1

BufferInv ==
    "overrun" \notin hazard =>
        /\ notifies <= 1
        /\ ~(notifies = 1 /\ monitor.pc = "sending")
        /\ copying # NoFrame => ~Owed
        /\ Owed /\ send_buf.req # 0 => transmitted[send_buf.req] = 0
        /\ worker.pc = "copying" /\ worker.req # 0 => transmitted[worker.req] = 0
        /\ send_buf.req <= nreq
        /\ \A r \in Reqs : transmitted[r] <= 1 /\ (r > nreq => transmitted[r] = 0)

(* A frame or reply that carries the id of the call it belongs to. *)
Own(f) == f.trans = f.req /\ f.req <= nreq

FramesInv ==
    hazard \cap {"overrun", "wrapped"} = {} =>
        /\ Owed => Own(send_buf)
        /\ \A t \in air : Own(t.frame)
        /\ \A f \in replies : Own(f)

HandOverInv ==
    hazard = {} =>
        /\ monitor.pc = "checked" /\ worker.req # 0 => monitor.frame.req = worker.req
        /\ worker.pc = "signalled" => recv_buf.req = worker.req

IInv == TypeOK /\ LockInv /\ CallInv /\ BufferInv /\ FramesInv /\ HandOverInv
        /\ AnswersOwnRequest

(* The initial state satisfies the invariant. *)
LEMMA IInit == Init => IInv
<1> SUFFICES ASSUME Init PROVE IInv
  OBVIOUS
<1>1. TypeOK
  BY TypeInit
<1>2. LockInv
  BY DEF Init, LockInv, NoFrame
<1>3. CallInv
  BY TransModAssumption DEF Init, CallInv
<1>4. BufferInv /\ FramesInv /\ HandOverInv
  BY DEF Init, BufferInv, FramesInv, HandOverInv, Owed, NoFrame, Reqs
<1>5. AnswersOwnRequest
  BY DEF Init, AnswersOwnRequest
<1> QED BY <1>1, <1>2, <1>3, <1>4, <1>5 DEF IInv

(* The invariant is inductive. *)
LEMMA IStep == IInv /\ [Next]_vars => IInv'
<1> SUFFICES ASSUME IInv, [Next]_vars PROVE IInv'
  OBVIOUS
<1>t. TypeOK'
  BY TypeStep DEF IInv
<1> DEFINE Rest == LockInv /\ CallInv /\ BufferInv /\ FramesInv /\ HandOverInv /\ AnswersOwnRequest
<1> SUFFICES Rest'
  BY <1>t DEF IInv
<1> USE TransModAssumption, BoundsAssumption DEF IInv, Reqs, TypeOK
<1>1. ASSUME NEW d \in Devs, NEW c \in Cmds, SampleBegin(d, c) PROVE Rest'
  <2>1. hazard \subseteq hazard' /\ nreq' = nreq + 1
    BY <1>1 DEF SampleBegin
  <2>2. LockInv'
    BY <1>1, DevsAssumption DEF SampleBegin, CopyBegins, MutexFree, UcFrame, NoFrame, LockInv
  <2>3. CallInv'
    BY <1>1 DEF SampleBegin, CallInv
  <2>4. BufferInv'
    <3> SUFFICES ASSUME "overrun" \notin hazard' PROVE BufferInv'
      BY DEF BufferInv
    <3>1. ~Owed /\ ~Owed'
      BY <1>1 DEF SampleBegin, Overrun, Owed
    <3>2. send_buf'.req <= nreq'
      <4>1. UcFrame(d, c) \in Frame /\ UcFrame(d, c).req = nreq + 1
        BY <1>1, CmdsAssumption DEF SampleBegin, UcFrame, Frame, AllCmds
      <4>2. send_buf'.req \in {send_buf.req, UcFrame(d, c).req}
        BY <1>1, <4>1, TornReq DEF SampleBegin, CopyBegins
      <4>3. send_buf.req <= nreq
        BY <2>1 DEF BufferInv
      <4>4. nreq \in Int /\ send_buf.req \in Int
        BY DEF Frame
      <4> QED BY <2>1, <4>1, <4>2, <4>3, <4>4
    <3> QED BY <1>1, <2>1, <3>1, <3>2 DEF SampleBegin, BufferInv, Owed, radio
  <2>5. FramesInv'
    <3> SUFFICES ASSUME hazard' \cap {"overrun", "wrapped"} = {} PROVE FramesInv'
      BY DEF FramesInv
    <3>1. hazard \cap {"overrun", "wrapped"} = {} /\ ~Owed'
      BY <1>1, <2>1 DEF SampleBegin, Overrun, Owed
    <3>2. ASSUME NEW t \in air PROVE Own(t.frame)'
      <4>1. t.frame.req \in Int /\ Own(t.frame)
        BY <3>1 DEF FramesInv, Transmission, Frame
      <4> QED BY <2>1, <4>1 DEF Own
    <3>3. ASSUME NEW f \in replies PROVE Own(f)'
      <4>1. f.req \in Int /\ Own(f)
        BY <3>1 DEF FramesInv, Reply
      <4> QED BY <2>1, <4>1 DEF Own
    <3> QED BY <1>1, <3>1, <3>2, <3>3 DEF SampleBegin, FramesInv, radio
  <2>6. HandOverInv'
    BY <1>1, <2>1 DEF SampleBegin, HandOverInv
  <2>7. AnswersOwnRequest'
    BY <1>1, <2>1 DEF SampleBegin, AnswersOwnRequest
  <2> QED BY <2>2, <2>3, <2>4, <2>5, <2>6, <2>7
<1>2. CASE SampleWait
  <2>1. LockInv'
    BY <1>2 DEF SampleWait, CopyEnds, LockInv, WorkerType
  <2>2. CallInv'
    BY <1>2 DEF SampleWait, CallInv, WorkerType, history
  <2>3. copying # NoFrame /\ copying.req = worker.req /\ copying.trans = trans_id
    BY <1>2 DEF SampleWait, LockInv
  <2>4. BufferInv'
    BY <1>2, <2>3 DEF SampleWait, CopyEnds, BufferInv, CallInv, Owed, WorkerType, radio, history
  <2>5. FramesInv'
    BY <1>2, <2>3 DEF SampleWait, CopyEnds, FramesInv, CallInv, Own, radio, history
  <2>6. HandOverInv' /\ AnswersOwnRequest'
    BY <1>2 DEF SampleWait, HandOverInv, AnswersOwnRequest, WorkerType, history
  <2> QED BY <2>1, <2>2, <2>4, <2>5, <2>6
<1>3. CASE WaitTimeout
  BY <1>3
     DEF WaitTimeout, WorkerType, protocol, radio, history,
         TypeOK, LockInv, CallInv, BufferInv, FramesInv, HandOverInv, Owed, Own, AnswersOwnRequest
<1>4. CASE WaitSpurious
  BY <1>4
     DEF WaitSpurious, WorkerType, protocol, radio,
         TypeOK, LockInv, CallInv, BufferInv, FramesInv, HandOverInv, Owed, Own, AnswersOwnRequest
<1>5. CASE SampleReturn
  <2>1. LockInv'
    BY <1>5 DEF SampleReturn, MutexFree, LockInv
  <2>2. CallInv'
    BY <1>5, NextTransIdFact DEF SampleReturn, CallInv
  <2>3. BufferInv' /\ FramesInv' /\ HandOverInv'
    BY <1>5 DEF SampleReturn, BufferInv, FramesInv, HandOverInv, Owed, Own, radio
  <2>4. AnswersOwnRequest'
    <3> SUFFICES ASSUME hazard = {}, NEW r \in Reqs PROVE answer'[r].by \in {0, r}
      BY <1>5 DEF SampleReturn, AnswersOwnRequest
    <3>1. CASE r # worker.req
      BY <1>5, <3>1 DEF SampleReturn, AnswersOwnRequest
    <3>2. CASE r = worker.req /\ worker.pc = "timedout"
      BY <1>5, <3>2 DEF SampleReturn
    <3>3. CASE r = worker.req /\ worker.pc = "signalled"
      BY <1>5, <3>3 DEF SampleReturn, HandOverInv
    <3> QED BY <1>5, <3>1, <3>2, <3>3 DEF SampleReturn
  <2> QED BY <2>1, <2>2, <2>3, <2>4
<1>6. ASSUME ProbeBegin,
             \/ main' = "copying" /\ worker' = worker
             \/ worker' = [worker EXCEPT !.pc = "copying"] /\ worker.pc = "idle" /\ main' = main
      PROVE Rest'
  <2>1. LockInv' /\ CallInv'
    BY <1>6, DevsAssumption
       DEF ProbeBegin, CopyBegins, MutexFree, DiscoverFrame, NoFrame, LockInv, CallInv, WorkerType
  <2>2. BufferInv'
    <3> SUFFICES ASSUME "overrun" \notin hazard' PROVE BufferInv'
      BY DEF BufferInv
    <3>1. "overrun" \notin hazard /\ ~Owed /\ ~Owed'
      BY <1>6 DEF ProbeBegin, Overrun, Owed
    <3>2. send_buf'.req <= nreq'
      <4>1. send_buf'.req \in {send_buf.req, DiscoverFrame.req}
        BY <1>6, TornReq, FrameFact DEF ProbeBegin, CopyBegins
      <4> QED BY <1>6, <3>1, <4>1 DEF ProbeBegin, BufferInv, DiscoverFrame
    <3> QED BY <1>6, <3>1, <3>2 DEF ProbeBegin, BufferInv, LockInv, CallInv, CopyBegins, MutexFree, WorkerType, radio
  <2>3. FramesInv'
    BY <1>6 DEF ProbeBegin, FramesInv, Own, Owed, Overrun, radio
  <2>4. HandOverInv' /\ AnswersOwnRequest'
    BY <1>6 DEF ProbeBegin, HandOverInv, AnswersOwnRequest, CallInv, WorkerType
  <2> QED BY <2>1, <2>2, <2>3, <2>4
<1>7. CASE WorkerProbeBegin
  BY <1>7, <1>6 DEF WorkerProbeBegin
<1>8. CASE MainProbeBegin
  <2>1. ProbeBegin /\ main' = "copying" /\ worker' = worker
    BY <1>8 DEF MainProbeBegin
  <2> QED BY <2>1, <1>6
<1>9. ASSUME ProbeEnd, copying = DiscoverFrame,
             \/ main = "copying" /\ main' = "done" /\ UNCHANGED worker
             \/ worker.pc = "copying" /\ worker.req = 0
                /\ worker' = [worker EXCEPT !.pc = "idle"] /\ UNCHANGED main
      PROVE Rest'
  <2>1. LockInv' /\ CallInv'
    BY <1>9 DEF ProbeEnd, CopyEnds, LockInv, CallInv, WorkerType, history
  <2>2. BufferInv' /\ FramesInv'
    BY <1>9, DevsAssumption
       DEF ProbeEnd, CopyEnds, BufferInv, FramesInv, LockInv, Own, Owed, DiscoverFrame, NoFrame, WorkerType, radio, history
  <2>3. HandOverInv' /\ AnswersOwnRequest'
    BY <1>9 DEF ProbeEnd, HandOverInv, AnswersOwnRequest, CallInv, WorkerType, history
  <2> QED BY <2>1, <2>2, <2>3
<1>10. CASE WorkerProbeEnd
  BY <1>10, <1>9 DEF WorkerProbeEnd, LockInv
<1>11. CASE MainProbeEnd
  BY <1>11, <1>9 DEF MainProbeEnd, LockInv
<1>12. CASE MonitorNotified
  BY <1>12 DEF MonitorNotified, MonitorType, radio, history, LockInv, CallInv, BufferInv,
               FramesInv, HandOverInv, Owed, Own, AnswersOwnRequest
<1>13. CASE MonitorSends
  <2>1. LockInv' /\ CallInv' /\ HandOverInv' /\ AnswersOwnRequest'
    BY <1>13 DEF MonitorSends, MonitorType, protocol, history, LockInv, CallInv, HandOverInv, AnswersOwnRequest
  <2>2. BufferInv'
    <3> SUFFICES ASSUME "overrun" \notin hazard PROVE BufferInv'
      BY <1>13 DEF MonitorSends, history, BufferInv
    <3>1. ~Owed' /\ copying = NoFrame /\ notifies = 0
      BY <1>13 DEF MonitorSends, MonitorType, protocol, BufferInv, Owed
    <3>2. worker.pc # "copying"
      BY <3>1 DEF LockInv
    <3>3. ASSUME NEW r \in Reqs
          PROVE  transmitted'[r] <= 1 /\ (r > nreq => transmitted'[r] = 0)
      <4>1. CASE r # send_buf.req
        BY <1>13, <4>1 DEF MonitorSends, BufferInv
      <4>2. CASE r = send_buf.req
        <5>1. transmitted[r] = 0 /\ r <= nreq
          BY <1>13, <4>2 DEF MonitorSends, BufferInv, Owed
        <5> QED BY <1>13, <4>2, <5>1 DEF MonitorSends
      <4> QED BY <4>1, <4>2
    <3> QED BY <1>13, <3>1, <3>2, <3>3 DEF MonitorSends, protocol, history, BufferInv
  <2>3. FramesInv'
    BY <1>13 DEF MonitorSends, MonitorType, protocol, history, BufferInv, FramesInv, Owed, Own
  <2> QED BY <2>1, <2>2, <2>3
<1>14. ASSUME NEW f \in replies, MonitorUnsolicited(f) PROVE Rest'
  BY <1>14 DEF MonitorUnsolicited, protocol, threads, history, LockInv, CallInv, BufferInv,
               FramesInv, HandOverInv, Owed, Own, AnswersOwnRequest
<1>15. ASSUME NEW f \in replies, MonitorChecks(f) PROVE Rest'
  <2>1. LockInv' /\ CallInv' /\ BufferInv' /\ FramesInv' /\ AnswersOwnRequest'
    BY <1>15 DEF MonitorChecks, MonitorType, protocol, history, LockInv, CallInv, BufferInv,
                 FramesInv, Owed, Own, AnswersOwnRequest
  <2>2. HandOverInv'
    BY <1>15 DEF MonitorChecks, TransIdMatches, protocol, history, CallInv, FramesInv, HandOverInv, Own
  <2> QED BY <2>1, <2>2
<1>16. ASSUME NEW f \in replies, MonitorDiscards(f) PROVE Rest'
  BY <1>16 DEF MonitorDiscards, protocol, threads, history, LockInv, CallInv, BufferInv,
               FramesInv, HandOverInv, Owed, Own, AnswersOwnRequest
<1>17. CASE MonitorDrops
  BY <1>17
     DEF MonitorDrops, MonitorType, protocol, radio, history,
         TypeOK, LockInv, CallInv, BufferInv, FramesInv, HandOverInv, Owed, Own, AnswersOwnRequest
<1>18. CASE MonitorSignals
  <2>1. LockInv' /\ CallInv'
    BY <1>18 DEF MonitorSignals, WorkerType, radio, history, LockInv, CallInv
  <2>2. BufferInv' /\ FramesInv' /\ AnswersOwnRequest'
    BY <1>18 DEF MonitorSignals, MonitorType, WorkerType, radio, history, BufferInv,
                 FramesInv, Owed, Own, AnswersOwnRequest
  <2>3. HandOverInv'
    BY <1>18 DEF MonitorSignals, MonitorType, WorkerType, history, CallInv, HandOverInv
  <2> QED BY <2>1, <2>2, <2>3
<1>19. ASSUME NEW t \in air, NEW ok \in BOOLEAN, DeviceAnswers(t, ok) PROVE Rest'
  <2>1. LockInv' /\ CallInv' /\ BufferInv' /\ HandOverInv' /\ AnswersOwnRequest'
    BY <1>19 DEF DeviceAnswers, protocol, threads, history, LockInv, CallInv, BufferInv,
                 HandOverInv, Owed, AnswersOwnRequest
  <2>2. FramesInv'
    <3> SUFFICES ASSUME hazard \cap {"overrun", "wrapped"} = {} PROVE FramesInv'
      BY <1>19 DEF DeviceAnswers, history, FramesInv
    <3>1. ASSUME NEW f \in replies' PROVE Own(f)
      <4>1. Own(t.frame)
        BY DEF FramesInv
      <4>2. f \in replies \/ (f.trans = t.frame.trans /\ f.req = t.frame.req)
        <5>1. replies' = replies \cup
                { [n |-> t.n, dev |-> t.dev, trans |-> t.frame.trans,
                   cmd |-> ReplyCmd(t.frame.cmd), req |-> t.frame.req, ok |-> ok] }
          BY <1>19 DEF DeviceAnswers
        <5> QED BY <5>1
      <4> QED BY <4>1, <4>2 DEF FramesInv, Own
    <3> QED BY <1>19, <3>1 DEF DeviceAnswers, protocol, threads, history, FramesInv, Owed, Own
  <2> QED BY <2>1, <2>2
<1>20. CASE UNCHANGED vars
  BY <1>20 DEF vars, protocol, threads, radio, history, LockInv, CallInv, BufferInv,
               FramesInv, HandOverInv, Owed, Own, AnswersOwnRequest
<1> QED BY <1>1, <1>2, <1>3, <1>4, <1>5, <1>7, <1>8, <1>10, <1>11, <1>12, <1>13, <1>14,
           <1>15, <1>16, <1>17, <1>18, <1>19, <1>20 DEF Next, Worker, Monitor, Device

(* A call never reports what was done for another call unless one of the   *)
(* four races has happened, for any number of devices, calls and probes    *)
(* and any width of trans_id.                                              *)
THEOREM AnswersCorrect == Spec => []AnswersOwnRequest
<1>1. IInv => AnswersOwnRequest
  BY DEF IInv
<1> QED BY <1>1, IInit, IStep, PTL DEF Spec

(* No request goes on the air twice while the send buffer is never         *)
(* overwritten early.                                                      *)
THEOREM TransmissionCorrect == Spec => []TransmittedOnce
<1>1. IInv => TransmittedOnce
  BY DEF IInv, BufferInv, TransmittedOnce
<1> QED BY <1>1, IInit, IStep, PTL DEF Spec

-----------------------------------------------------------------------------
(* Why call number TransMod can only time out.  It runs with trans_id 0    *)
(* (NumberInv), under which the monitor takes no frame for an answer, and  *)
(* it began with no frame in the monitor's hands unless it raced, so that  *)
(* nothing but a spurious wake-up could have signalled it (ZeroInv).       *)

NumberInv ==
    /\ worker.req # 0 =>
          /\ nreq < TransMod => trans_id = nreq
          /\ nreq = TransMod => trans_id = 0
    /\ worker.req = 0 =>
          /\ nreq + 1 < TransMod => trans_id = nreq + 1
          /\ nreq + 1 = TransMod => trans_id = 0

ZeroInv ==
    (hazard \subseteq {"wrapped"} /\ worker.req # 0 /\ trans_id = 0) =>
        monitor.pc # "checked" /\ worker.pc # "signalled"

ZInv == NumberInv /\ ZeroInv /\ IdZeroUnanswered

(* The initial state satisfies it. *)
LEMMA ZInit == Init => ZInv
  BY BoundsAssumption, TransModAssumption
     DEF Init, ZInv, NumberInv, ZeroInv, IdZeroUnanswered, Reqs

(* Every step from a state with the invariant above keeps it. *)
LEMMA ZStep == IInv /\ ZInv /\ [Next]_vars => ZInv'
<1> SUFFICES ASSUME IInv, ZInv, [Next]_vars PROVE ZInv'
  OBVIOUS
<1> USE TransModAssumption, BoundsAssumption DEF IInv, TypeOK, CallInv, ZInv
<1>1. ASSUME NEW d \in Devs, NEW c \in Cmds, SampleBegin(d, c) PROVE ZInv'
  <2>1. NumberInv'
    BY <1>1 DEF SampleBegin, NumberInv
  <2>2. ZeroInv'
    BY <1>1 DEF SampleBegin, ZeroInv
  <2>3. IdZeroUnanswered'
    BY <1>1 DEF SampleBegin, IdZeroUnanswered
  <2> QED BY <2>1, <2>2, <2>3
<1>2. CASE SampleReturn
  <2>1. NumberInv'
    BY <1>2, NextTransIdFact DEF SampleReturn, NumberInv
  <2>2. ZeroInv'
    BY <1>2 DEF SampleReturn, ZeroInv
  <2>3. IdZeroUnanswered'
    <3> SUFFICES ASSUME hazard \subseteq {"wrapped"}, MaxReq >= TransMod
                 PROVE  answer'[TransMod].out \in {"none", "HSB_E_OTHERS"}
      BY <1>2 DEF SampleReturn, IdZeroUnanswered
    <3>1. CASE worker.req = TransMod
      <4>1. trans_id = 0 /\ worker.req # 0
        BY <3>1 DEF NumberInv
      <4>2. worker.pc = "timedout"
        BY <1>2, <4>1 DEF SampleReturn, ZeroInv
      <4> QED BY <1>2, <3>1, <4>2 DEF SampleReturn, Reqs
    <3>2. CASE worker.req # TransMod
      BY <1>2, <3>2 DEF SampleReturn, IdZeroUnanswered, Reqs
    <3> QED BY <3>1, <3>2
  <2> QED BY <2>1, <2>2, <2>3
<1>3. ASSUME SampleWait \/ WaitTimeout \/ WorkerProbeBegin \/ WorkerProbeEnd
      PROVE  ZInv'
  <2>1. /\ worker'.req = worker.req /\ worker'.pc # "signalled"
        /\ UNCHANGED <<trans_id, nreq, answer, monitor>> /\ hazard \subseteq hazard'
    BY <1>3 DEF SampleWait, WaitTimeout, WorkerProbeBegin, WorkerProbeEnd, ProbeBegin, ProbeEnd,
                protocol, history, WorkerType
  <2> QED BY <2>1 DEF NumberInv, ZeroInv, IdZeroUnanswered
<1>4. CASE WaitSpurious
  BY <1>4 DEF WaitSpurious, protocol, WorkerType, NumberInv, ZeroInv, IdZeroUnanswered
<1>5. ASSUME MainProbeBegin \/ MainProbeEnd \/ MonitorNotified \/ MonitorSends \/ MonitorDrops
      PROVE  ZInv'
  <2>1. /\ UNCHANGED <<worker, trans_id, nreq, answer>> /\ hazard \subseteq hazard'
        /\ monitor'.pc = "checked" => monitor.pc = "checked"
    BY <1>5 DEF MainProbeBegin, MainProbeEnd, ProbeBegin, ProbeEnd, MonitorNotified, MonitorSends,
                MonitorDrops, protocol, radio, history, MonitorType
  <2> QED BY <2>1 DEF NumberInv, ZeroInv, IdZeroUnanswered
<1>6. ASSUME NEW f \in replies, MonitorChecks(f) PROVE ZInv'
  BY <1>6 DEF MonitorChecks, TransIdMatches, protocol, history, NumberInv, ZeroInv, IdZeroUnanswered
<1>7. CASE MonitorSignals
  BY <1>7 DEF MonitorSignals, history, WorkerType, NumberInv, ZeroInv, IdZeroUnanswered
<1>8. ASSUME UNCHANGED <<protocol, threads, history>> PROVE ZInv'
  BY <1>8 DEF protocol, threads, history, NumberInv, ZeroInv, IdZeroUnanswered
<1>9. ASSUME NEW f \in replies, MonitorUnsolicited(f) \/ MonitorDiscards(f) PROVE ZInv'
  BY <1>8, <1>9 DEF MonitorUnsolicited, MonitorDiscards
<1>10. ASSUME NEW t \in air, NEW ok \in BOOLEAN, DeviceAnswers(t, ok) PROVE ZInv'
  BY <1>8, <1>10 DEF DeviceAnswers
<1>11. CASE UNCHANGED vars
  BY <1>8, <1>11 DEF vars
<1> QED BY <1>1, <1>2, <1>3, <1>4, <1>5, <1>6, <1>7, <1>9, <1>10, <1>11
        DEF Next, Worker, Monitor, Device

(* The call that gets transaction id 0 when the counter has come round can *)
(* only time out, for any width of trans_id: the test that sets id 0 apart *)
(* keeps its answer from it.                                               *)
THEOREM IdZeroCorrect == Spec => []IdZeroUnanswered
<1>1. ZInv => IdZeroUnanswered
  BY DEF ZInv
<1> QED BY <1>1, IInit, IStep, ZInit, ZStep, PTL DEF Spec
=============================================================================
