-------------------------- MODULE ZigbeeTransaction --------------------------
(***************************************************************************)
(* The request/response protocol of the "cg zigbee" driver                 *)
(* (core_daemon/driver_cg_zigbee.c).                                       *)
(*                                                                         *)
(* One worker, the asynchronous thread of device.c, calls the blocking     *)
(* operations sample_set_status, sample_get_status and sample_set_action.  *)
(* A call fills the one send buffer, pokes the monitor thread with a       *)
(* datagram and waits on a condition variable for at most CZ_TIMEOUT.  The *)
(* monitor thread writes the send buffer to the UART and hands the answers *)
(* it reads back to the worker.  cz_probe uses the same buffer, from the   *)
(* worker and once from the main thread while the daemon starts.           *)
(*                                                                         *)
(* cond_mutex is held from COND_LOCK to the wait, and in short sections    *)
(* that touch nothing another thread reads without it; those sections are  *)
(* single steps.  The copy into send_buf is two steps, because the monitor *)
(* writes send_buf to the UART without the mutex.  The devices and the     *)
(* radio are external: they may answer late, in any order, or never.       *)
(***************************************************************************)
EXTENDS Integers, FiniteSets

CONSTANTS
    Devs,       \* zigbee end devices
    Cmds,       \* the blocking operations callers may issue
    TransMod,   \* number of values of the uint16_t trans_id (65536 in the code)
    SockCap,    \* datagrams the monitor's unix socket holds before senders block
    MaxReq,     \* bound: blocking calls that start a transaction
    MaxProbe    \* bound: probe requests served by the worker

AllCmds == {"SET_STATUS", "GET_STATUS", "DO_ACTION"}

ASSUME DevsAssumption == "all" \notin Devs /\ "none" \notin Devs
ASSUME CmdsAssumption == Cmds \subseteq AllCmds
ASSUME TransModAssumption == TransMod \in Nat /\ TransMod > 1
ASSUME SockCapAssumption == SockCap \in Nat \ {0}
ASSUME BoundsAssumption == MaxReq \in Nat /\ MaxProbe \in Nat

VARIABLES
    queue,       \* gl_ctx.queue: the devices the driver has registered
    trans_id,    \* gl_ctx.trans_id
    is_waiting,  \* gl_ctx.is_waiting
    send_buf,    \* gl_ctx.send_buf
    recv_buf,    \* gl_ctx.recv_buf
    copying,     \* the frame being copied into send_buf under cond_mutex
    worker,      \* the asynchronous thread inside the driver
    monitor,     \* the driver's monitor thread
    main,        \* the main thread's probe at start-up: "todo", "copying", "done"
    notifies,    \* datagrams waiting on the monitor's unix socket
    air,         \* transmissions no device has acted on yet
    replies,     \* answers on their way back to the UART
    nreq,        \* calls started so far; call n is request n
    nprobe,      \* probes the worker has served
    transmitted, \* how often each request (0: a probe) was put on the air
    answer,      \* what each call returned and whose execution it reports
    hazard       \* which of the races below have happened so far

protocol == <<trans_id, is_waiting, send_buf, recv_buf, copying, notifies>>
threads == <<worker, monitor, main>>
radio == <<queue, air, replies, transmitted>>
history == <<nreq, nprobe, answer, hazard>>
vars == <<protocol, threads, radio, history>>

Reqs == 1..MaxReq

(* A frame: the header fields dev and trans, the body cmd, and in req the  *)
(* call whose parameters the body carries (0: no call).                    *)
Frame == [dev : Devs \cup {"all", "none"}, trans : 0..(TransMod - 1),
          cmd : AllCmds \cup {"NONE", "DISCOVER"}, req : 0..MaxReq]
NoFrame == [dev |-> "none", trans |-> 0, cmd |-> "NONE", req |-> 0]
DiscoverFrame == [dev |-> "all", trans |-> 0, cmd |-> "DISCOVER", req |-> 0]

Transmission == [n : Nat, dev : Devs, frame : Frame]

ReplyCmds == {"NONE", "DISCOVER_RESP", "RESULT", "GET_STATUS_RESP"}
Reply == [n : Nat, dev : Devs, trans : 0..(TransMod - 1),
          cmd : ReplyCmds, req : 0..MaxReq, ok : BOOLEAN]
NoReply == [n |-> 0, dev |-> "none", trans |-> 0, cmd |-> "NONE", req |-> 0, ok |-> FALSE]

Outcomes == {"none", "HSB_E_OK", "HSB_E_OTHERS", "HSB_E_INVALID_MSG", "HSB_E_ACT_FAILED"}

(* overrun: a frame was put into send_buf while the monitor still owed the *)
(*   UART the previous one.                                                *)
(* raced: a call began between the monitor's check of trans_id and its     *)
(*   COND_LOCK.                                                            *)
(* wrapped: trans_id has come round.                                       *)
(* spurious: pthread_cond_timedwait returned without a signal.             *)
Hazards == {"overrun", "raced", "wrapped", "spurious"}

Init ==
    /\ queue = {}
    /\ trans_id = 1
    /\ is_waiting = FALSE
    /\ send_buf = NoFrame
    /\ recv_buf = NoReply
    /\ copying = NoFrame
    /\ worker = [pc |-> "idle", req |-> 0, cmd |-> "NONE"]
    /\ monitor = [pc |-> "select", frame |-> NoReply]
    /\ main = "todo"
    /\ notifies = 0
    /\ air = {} /\ replies = {}
    /\ transmitted = [r \in 0..MaxReq |-> 0]
    /\ nreq = 0 /\ nprobe = 0
    /\ answer = [r \in Reqs |-> [out |-> "none", by |-> 0]]
    /\ hazard = {}

MutexFree == copying = NoFrame

(* The monitor has a frame to write that it has not written yet. *)
Owed == notifies > 0 \/ monitor.pc = "sending"

(* send_buf part way through the copy of new over old. *)
Torn(old, new) ==
    { [new EXCEPT !.cmd = old.cmd, !.req = old.req],
      [old EXCEPT !.cmd = new.cmd, !.req = new.req] }

(* COND_LOCK and the first half of the memcpy into send_buf. *)
CopyBegins(frame) ==
    /\ MutexFree
    /\ copying' = frame
    /\ send_buf' \in Torn(send_buf, frame)

(* Mutant: the datagram is repeated, in case the first is lost. *)
CopyEndsTwice ==
    /\ notifies < SockCap
    /\ send_buf' = copying
    /\ copying' = NoFrame
    /\ notifies' = notifies + 2

(* The second half of the memcpy, and notify_process, which blocks with    *)
(* the mutex held while the monitor's socket is full.                      *)
CopyEnds ==
    /\ notifies < SockCap
    /\ send_buf' = copying
    /\ copying' = NoFrame
    /\ notifies' = notifies + 1

Overrun == IF Owed THEN {"overrun"} ELSE {}

(* The unicast frame a call builds. *)
UcFrame(d, c) ==
    [dev |-> d, trans |-> trans_id, cmd |-> c, req |-> nreq + 1]

(* sample_set_status, sample_get_status, sample_set_action up to the       *)
(* memcpy.  A device that is not registered returns HSB_E_ENTRY_NOT_FOUND  *)
(* before anything is touched.                                             *)
SampleBegin(d, c) ==
    /\ worker.pc = "idle"
    /\ d \in queue
    /\ nreq < MaxReq
    /\ CopyBegins(UcFrame(d, c))
    /\ is_waiting' = TRUE
    /\ nreq' = nreq + 1
    /\ worker' = [pc |-> "copying", req |-> nreq + 1, cmd |-> c]
    /\ hazard' = hazard \cup Overrun
                   \cup (IF monitor.pc = "checked" THEN {"raced"} ELSE {})
                   \cup (IF nreq + 1 >= TransMod THEN {"wrapped"} ELSE {})
    /\ UNCHANGED <<trans_id, recv_buf, notifies, monitor, main, radio, nprobe, answer>>

(* The rest of the copy, notify_process, and the start of the timed wait,  *)
(* which releases the mutex.                                               *)
SampleWait ==
    /\ worker.pc = "copying" /\ worker.req # 0
    /\ CopyEnds
    /\ worker' = [worker EXCEPT !.pc = "waiting"]
    /\ UNCHANGED <<trans_id, is_waiting, recv_buf, monitor, main, radio, history>>

(* Mutant: pthread_cond_wait in place of pthread_cond_timedwait. *)
WaitWithoutDeadline ==
    /\ worker.pc = "waiting"
    /\ FALSE
    /\ UNCHANGED vars

(* The deadline passes: the worker leaves the condition's queue. *)
WaitTimeout ==
    /\ worker.pc = "waiting"
    /\ worker' = [worker EXCEPT !.pc = "timedout"]
    /\ UNCHANGED <<protocol, monitor, main, radio, history>>

(* pthread_cond_timedwait may return 0 without a signal; the code does not *)
(* look at a predicate afterwards.                                         *)
WaitSpurious ==
    /\ worker.pc = "waiting"
    /\ worker' = [worker EXCEPT !.pc = "signalled"]
    /\ hazard' = hazard \cup {"spurious"}
    /\ UNCHANGED <<protocol, monitor, main, radio, nreq, nprobe, answer>>

ExpectedCmd(c) == IF c = "GET_STATUS" THEN "GET_STATUS_RESP" ELSE "RESULT"

(* The result of a call that woke up with a frame in recv_buf. *)
Verdict ==
    CASE recv_buf.cmd # ExpectedCmd(worker.cmd) -> "HSB_E_INVALID_MSG"
      [] recv_buf.cmd = "RESULT" /\ ~recv_buf.ok -> "HSB_E_ACT_FAILED"
      [] OTHER -> "HSB_E_OK"

(* Mutant: the failure path forgets trans_id++. *)
NextTransIdOnlyOnSuccess ==
    IF worker.pc = "timedout" THEN trans_id ELSE (trans_id + 1) % TransMod

(* Mutant: trans_id is wider than the field of the frame. *)
NextTransIdUnbounded == trans_id + 1

(* trans_id++ on both paths out of a call. *)
NextTransId == (trans_id + 1) % TransMod

(* The worker has the mutex back and leaves the call. *)
SampleReturn ==
    /\ worker.pc \in {"signalled", "timedout"}
    /\ MutexFree
    /\ answer' = [answer EXCEPT ![worker.req] =
                    IF worker.pc = "timedout"
                    THEN [out |-> "HSB_E_OTHERS", by |-> 0]
                    ELSE [out |-> Verdict, by |-> recv_buf.req]]
    /\ is_waiting' = FALSE
    /\ trans_id' = NextTransId
    /\ worker' = [pc |-> "idle", req |-> 0, cmd |-> "NONE"]
    /\ UNCHANGED <<send_buf, recv_buf, copying, notifies, monitor, main, radio,
                   nreq, nprobe, hazard>>

(* cz_probe, first half: is_waiting is cleared whoever is waiting. *)
ProbeBegin ==
    /\ CopyBegins(DiscoverFrame)
    /\ is_waiting' = FALSE
    /\ hazard' = hazard \cup Overrun
    /\ UNCHANGED <<trans_id, recv_buf, notifies, monitor, radio, nreq, answer>>

ProbeEnd ==
    /\ CopyEnds
    /\ UNCHANGED <<trans_id, is_waiting, recv_buf, monitor, radio, history>>

WorkerProbeBegin ==
    /\ worker.pc = "idle"
    /\ nprobe < MaxProbe
    /\ nprobe' = nprobe + 1
    /\ worker' = [worker EXCEPT !.pc = "copying"]
    /\ ProbeBegin
    /\ UNCHANGED main

WorkerProbeEnd ==
    /\ worker.pc = "copying" /\ worker.req = 0
    /\ worker' = [worker EXCEPT !.pc = "idle"]
    /\ ProbeEnd
    /\ UNCHANGED main

MainProbeBegin ==
    /\ main = "todo"
    /\ main' = "copying"
    /\ ProbeBegin
    /\ UNCHANGED <<worker, nprobe>>

MainProbeEnd ==
    /\ main = "copying"
    /\ main' = "done"
    /\ ProbeEnd
    /\ UNCHANGED worker

(* _monitor_thread takes a datagram off the unix socket ... *)
MonitorNotified ==
    /\ monitor.pc = "select"
    /\ notifies > 0
    /\ notifies' = notifies - 1
    /\ monitor' = [monitor EXCEPT !.pc = "sending"]
    /\ UNCHANGED <<trans_id, is_waiting, send_buf, recv_buf, copying, worker, main, radio, history>>

(* ... and writes whatever send_buf holds by then to the UART, without the *)
(* mutex.                                                                  *)
MonitorSends ==
    /\ monitor.pc = "sending"
    /\ monitor' = [monitor EXCEPT !.pc = "select"]
    /\ transmitted' = [transmitted EXCEPT ![send_buf.req] = @ + 1]
    /\ air' = air \cup { [n |-> transmitted[send_buf.req], dev |-> d, frame |-> send_buf] :
                         d \in IF send_buf.dev = "all" THEN Devs ELSE {send_buf.dev} \cap Devs }
    /\ UNCHANGED <<protocol, worker, main, queue, replies, history>>

ReplyCmd(c) ==
    CASE c = "DISCOVER" -> "DISCOVER_RESP"
      [] c = "GET_STATUS" -> "GET_STATUS_RESP"
      [] c \in {"SET_STATUS", "DO_ACTION"} -> "RESULT"
      [] OTHER -> "NONE"

(* A device acts on a transmission and answers it; only a RESULT says      *)
(* whether the command succeeded.                                          *)
DeviceAnswers(t, ok) ==
    /\ t \in air
    /\ air' = air \ {t}
    /\ ok => ReplyCmd(t.frame.cmd) = "RESULT"
    /\ replies' = replies \cup
         { [n |-> t.n, dev |-> t.dev, trans |-> t.frame.trans,
            cmd |-> ReplyCmd(t.frame.cmd), req |-> t.frame.req, ok |-> ok] }
    /\ UNCHANGED <<protocol, threads, queue, transmitted, history>>

(* deal_recv_buf on a frame with transaction id 0: DISCOVER_RESP registers *)
(* the device, every other command changes nothing here.                   *)
MonitorUnsolicited(f) ==
    /\ monitor.pc = "select"
    /\ f \in replies
    /\ replies' = replies \ {f}
    /\ f.trans = 0
    /\ queue' = IF f.cmd = "DISCOVER_RESP" THEN queue \cup {f.dev} ELSE queue
    /\ UNCHANGED <<protocol, threads, air, transmitted, history>>

(* Mutant: trans_id 0 is not set apart. *)
TransIdMatchesAny(f) == f.trans = trans_id

(* The tests of deal_recv_buf that read trans_id without the mutex. *)
TransIdMatches(f) == f.trans # 0 /\ f.trans = trans_id

MonitorChecks(f) ==
    /\ monitor.pc = "select"
    /\ f \in replies
    /\ replies' = replies \ {f}
    /\ TransIdMatches(f)
    /\ monitor' = [pc |-> "checked", frame |-> f]
    /\ UNCHANGED <<protocol, worker, main, queue, air, transmitted, history>>

MonitorDiscards(f) ==
    /\ monitor.pc = "select"
    /\ f \in replies
    /\ replies' = replies \ {f}
    /\ f.trans # 0 /\ ~TransIdMatches(f)
    /\ UNCHANGED <<protocol, threads, queue, air, transmitted, history>>

(* deal_recv_buf under the mutex: nobody waits, the frame is dropped. *)
MonitorDrops ==
    /\ monitor.pc = "checked"
    /\ MutexFree
    /\ ~is_waiting
    /\ monitor' = [pc |-> "select", frame |-> NoReply]
    /\ UNCHANGED <<protocol, worker, main, radio, history>>

(* deal_recv_buf under the mutex: copy the frame and signal.  The signal   *)
(* only reaches a worker that is still on the condition's queue.           *)
MonitorSignals ==
    /\ monitor.pc = "checked"
    /\ MutexFree
    /\ is_waiting
    /\ recv_buf' = monitor.frame
    /\ monitor' = [pc |-> "select", frame |-> NoReply]
    /\ worker' = IF worker.pc = "waiting" THEN [worker EXCEPT !.pc = "signalled"] ELSE worker
    /\ UNCHANGED <<trans_id, is_waiting, send_buf, copying, notifies, main, radio, history>>

Worker ==
    \/ \E d \in Devs, c \in Cmds : SampleBegin(d, c)
    \/ SampleWait \/ WaitTimeout \/ WaitSpurious \/ SampleReturn
    \/ WorkerProbeBegin \/ WorkerProbeEnd

Monitor ==
    \/ MonitorNotified \/ MonitorSends
    \/ \E f \in replies : MonitorUnsolicited(f) \/ MonitorChecks(f) \/ MonitorDiscards(f)
    \/ MonitorDrops \/ MonitorSignals

Device == \E t \in air, ok \in BOOLEAN : DeviceAnswers(t, ok)

Next == Worker \/ MainProbeBegin \/ MainProbeEnd \/ Monitor \/ Device

Spec == Init /\ [][Next]_vars

(* The deadline of the timed wait passes, and a thread that can run does.  *)
(* Nothing is assumed of the devices, nor that calls keep coming.          *)
Fairness ==
    /\ WF_vars(SampleWait) /\ WF_vars(WaitTimeout) /\ WF_vars(SampleReturn)
    /\ WF_vars(WorkerProbeEnd) /\ WF_vars(MainProbeEnd)
    /\ WF_vars(MonitorNotified) /\ WF_vars(MonitorSends)
    /\ WF_vars(MonitorDrops \/ MonitorSignals)

FairSpec == Spec /\ Fairness

-----------------------------------------------------------------------------

WorkerType == [pc : {"idle", "copying", "waiting", "signalled", "timedout"},
               req : 0..MaxReq, cmd : AllCmds \cup {"NONE"}]
MonitorType == [pc : {"select", "sending", "checked"}, frame : Reply \cup {NoReply}]

(* Every variable has its type. *)
TypeOK ==
    /\ queue \subseteq Devs
    /\ trans_id \in 0..(TransMod - 1)
    /\ is_waiting \in BOOLEAN
    /\ send_buf \in Frame /\ copying \in Frame
    /\ recv_buf \in Reply \cup {NoReply}
    /\ worker \in WorkerType
    /\ monitor \in MonitorType
    /\ main \in {"todo", "copying", "done"}
    /\ notifies \in Nat
    /\ air \subseteq Transmission
    /\ replies \subseteq Reply
    /\ nreq \in 0..MaxReq /\ nprobe \in 0..MaxProbe
    /\ transmitted \in [0..MaxReq -> Nat]
    /\ answer \in [Reqs -> [out : Outcomes, by : 0..MaxReq]]
    /\ hazard \subseteq Hazards

(* A call that reports something a device did reports what a device did    *)
(* for that very call, however late earlier answers come in, as long as    *)
(* none of the four races has happened.  With TransIdMatches and trans_id++ *)
(* this is what keeps a late answer from being taken for the next one.     *)
AnswersOwnRequest ==
    hazard = {} => \A r \in Reqs : answer[r].by \in {0, r}

(* While the send buffer is never overwritten early, no request is put on  *)
(* the air twice, so no device carries a command out twice.                *)
TransmittedOnce ==
    "overrun" \notin hazard => \A r \in Reqs : transmitted[r] <= 1

(* A call whose transaction id is 0 after the counter came round can only  *)
(* time out: its answer is taken for an unsolicited frame.                 *)
IdZeroUnanswered ==
    (hazard \subseteq {"wrapped"} /\ MaxReq >= TransMod) =>
        answer[TransMod].out \in {"none", "HSB_E_OTHERS"}

(* The protocol document says of the Result message that the box answers   *)
(* the pad's request with the outcome of executing it.  At this level: what *)
(* a call reports was done for that call, races or not.                    *)
ResultOfThisCall ==
    \A r \in Reqs : answer[r].by \in {0, r}

(* The monitor waits for the mutex with an answer in its hands, and the    *)
(* thread that holds it waits for room in the monitor's socket.            *)
MutualWait == monitor.pc = "checked" /\ ~MutexFree /\ notifies = SockCap

(* Every blocking call returns, whatever the devices do and whichever of   *)
(* the races happen: the worker comes out of the driver again and again,   *)
(* unless it and the monitor wait for each other, with the socket full.    *)
CallReturns == []<>(worker.pc = "idle") \/ <>[]MutualWait
=============================================================================
