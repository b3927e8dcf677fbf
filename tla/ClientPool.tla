------------------------------ MODULE ClientPool ------------------------------
(***************************************************************************)
(* How pads are served: the TCP client pool of core_daemon/network.c and   *)
(* the way back from a request to its answer.                              *)
(*                                                                         *)
(* The listening thread takes a free context for a new connection; a pool  *)
(* thread runs tcp_client_handler on it.  Requests that touch a device are *)
(* queued for the asynchronous thread together with the address of the     *)
(* context, and answered later through notify_resp, which puts the message *)
(* on the queue of the context and sends a datagram to the handler.        *)
(* Events reach every context in use, from whatever thread raises them.    *)
(* Other requests the handler answers itself, at once.                     *)
(*                                                                         *)
(* notify_resp takes the mutex of a context only to push, the pool's mutex *)
(* never; _process_notify pops without any mutex.  overlap records that a  *)
(* pop came while a push to the same queue was under way, which GQueue     *)
(* does not allow.  A pad that does not read stalls the handler's write,   *)
(* and a handler that does not read its socket stalls notify_resp.         *)
(***************************************************************************)
EXTENDS Integers, Sequences, FiniteSets

CONSTANTS
    NCtx,      \* MAX_TCP_CLIENT_NUM (5 in the code)
    Conns,     \* TCP connections pads open in the course of a behaviour
    Askers,    \* the connections whose pads ask and may stall; others listen
    SockCap,   \* datagrams a unix socket holds before senders block
    MaxReq,    \* bound: requests of the pads
    MaxEvt     \* bound: events raised

ASSUME NCtxAssumption == NCtx \in Nat \ {0}
ASSUME ConnsAssumption == "none" \notin Conns /\ Askers \subseteq Conns
ASSUME SockCapAssumption == SockCap \in Nat \ {0}
ASSUME BoundsAssumption == MaxReq \in Nat /\ MaxEvt \in Nat

Ctxs == 1..NCtx
Notifiers == {"async", "monitor"}

VARIABLES
    using,      \* context[c].using
    sock,       \* context[c].tcp_sockfd: the connection
    bound,      \* the unix socket at context[c].listen_path exists
    dgrams,     \* datagrams waiting on it
    queue,      \* context[c].queue
    handler,    \* where the pool thread serving context c is
    listener,   \* the context the listening thread is setting up, or 0
    conn,       \* each connection: "new", "open", "stalled", "closed"
    acts,       \* the asynchronous thread's queue of requests
    notifier,   \* notify_resp in each thread that calls it
    received,   \* what each pad has read
    audience,   \* pads being served when each event was raised
    nreq, nevt, \* requests and events so far
    deaf,       \* contexts with a message no datagram announces
    overlap     \* an unlocked pop has met a push

pool == <<using, sock, bound, handler, listener>>
mail == <<dgrams, queue, deaf>>
clients == <<conn, received>>
work == <<acts, nreq, nevt, audience>>
vars == <<pool, mail, clients, work, notifier, overlap>>

(* A message: the answer to a request, for a context, with the connection  *)
(* that asked for it, from the asynchronous thread or from the handler     *)
(* itself; or an event.                                                    *)
Reply(r, c, k) == [kind |-> "reply", n |-> r, ctx |-> c, from |-> k]
Direct(r, c, k) == [kind |-> "direct", n |-> r, ctx |-> c, from |-> k]
Event(e) == [kind |-> "event", n |-> e, ctx |-> 0, from |-> "none"]
NoMsg == [kind |-> "none", n |-> 0, ctx |-> 0, from |-> "none"]
Returned == [pc |-> "idle", msg |-> NoMsg, cnt |-> 0]
Msg == [kind : {"none", "reply", "direct", "event"}, n : Nat, ctx : 0..NCtx, from : Conns \cup {"none"}]

Init ==
    /\ using = [c \in Ctxs |-> FALSE]
    /\ sock = [c \in Ctxs |-> "none"]
    /\ bound = [c \in Ctxs |-> FALSE]
    /\ dgrams = [c \in Ctxs |-> 0]
    /\ queue = [c \in Ctxs |-> <<>>]
    /\ handler = [c \in Ctxs |-> "none"]
    /\ listener = 0
    /\ conn = [k \in Conns |-> "new"]
    /\ acts = <<>>
    /\ notifier = [n \in Notifiers |-> Returned]
    /\ received = [k \in Conns |-> <<>>]
    /\ audience = [e \in 1..MaxEvt |-> {}]
    /\ nreq = 0 /\ nevt = 0
    /\ deaf = {}
    /\ overlap = FALSE

-----------------------------------------------------------------------------
(* tcp_listen_thread and get_client_context.                               *)

FirstFree(c) == ~using[c] /\ \A d \in 1..(c - 1) : using[d]

(* accept, and the first half of get_client_context, which holds the pool  *)
(* mutex until the unix socket is bound.  notify_resp already sees using.  *)
Accept(k) ==
    /\ listener = 0
    /\ conn[k] = "new"
    /\ \E c \in Ctxs :
         /\ FirstFree(c)
         /\ using' = [using EXCEPT ![c] = TRUE]
         /\ sock' = [sock EXCEPT ![c] = k]
         /\ listener' = c
    /\ conn' = [conn EXCEPT ![k] = "open"]
    /\ UNCHANGED <<bound, handler, mail, received, work, notifier, overlap>>

(* No context is free: the connection is closed at once. *)
Refuse(k) ==
    /\ listener = 0
    /\ conn[k] = "new"
    /\ \A c \in Ctxs : using[c]
    /\ conn' = [conn EXCEPT ![k] = "closed"]
    /\ UNCHANGED <<pool, mail, received, work, notifier, overlap>>

(* unix_socket_new_listen, and the handler starts on a pool thread. *)
BindAndStart ==
    /\ listener # 0
    /\ bound' = [bound EXCEPT ![listener] = TRUE]
    /\ dgrams' = [dgrams EXCEPT ![listener] = 0]
    /\ handler' = [handler EXCEPT ![listener] = "select"]
    /\ listener' = 0
    /\ UNCHANGED <<using, sock, queue, deaf, clients, work, notifier, overlap>>

-----------------------------------------------------------------------------
(* tcp_client_handler.                                                     *)

(* The pad stops reading and its receive window is full, or reads again. *)
ClientStalls(k) ==
    /\ conn[k] \in {"open", "stalled"}
    /\ conn' = [conn EXCEPT ![k] = IF @ = "open" THEN "stalled" ELSE "open"]
    /\ UNCHANGED <<pool, mail, received, work, notifier, overlap>>

ClientCloses(k) ==
    /\ conn[k] \in {"open", "stalled"}
    /\ conn' = [conn EXCEPT ![k] = "closed"]
    /\ UNCHANGED <<pool, mail, received, work, notifier, overlap>>

(* A packet that asks for a device operation: it is queued with the        *)
(* context as its reply address.  What a pad sent before it closed is      *)
(* still read.                                                             *)
HandlerRequest(c) ==
    /\ handler[c] = "select"
    /\ sock[c] \in Askers
    /\ nreq < MaxReq
    /\ nreq' = nreq + 1
    /\ acts' = Append(acts, Reply(nreq + 1, c, sock[c]))
    /\ UNCHANGED <<pool, mail, clients, nevt, audience, notifier, overlap>>

(* A packet the handler answers itself.  It tries to write for a second;   *)
(* the answer to a pad that is gone or does not read by then is lost.      *)
HandlerAnswers(c) ==
    /\ handler[c] = "select"
    /\ sock[c] \in Askers
    /\ nreq < MaxReq
    /\ nreq' = nreq + 1
    /\ received' = IF conn[sock[c]] = "open"
                   THEN [received EXCEPT ![sock[c]] = Append(@, Direct(nreq + 1, c, sock[c]))]
                   ELSE received
    /\ UNCHANGED <<pool, mail, conn, acts, nevt, audience, notifier, overlap>>

(* read returns 0: the handler leaves its loop and closes the socket. *)
HandlerEof(c) ==
    /\ handler[c] = "select"
    /\ conn[sock[c]] = "closed"
    /\ handler' = [handler EXCEPT ![c] = "closing"]
    /\ UNCHANGED <<using, sock, bound, listener, mail, clients, work, notifier, overlap>>

(* Mutant: the context is not marked free. *)
PutUsingKept(c) == using

(* pctx->using = 0 *)
PutUsing(c) == [using EXCEPT ![c] = FALSE]

(* put_client_context.  The queue is not cleaned. *)
PutContext(c) ==
    /\ handler[c] = "closing"
    /\ listener = 0
    /\ using' = PutUsing(c)
    /\ bound' = [bound EXCEPT ![c] = FALSE]
    /\ dgrams' = [dgrams EXCEPT ![c] = 0]
    /\ deaf' = IF queue[c] # <<>> THEN deaf \cup {c} ELSE deaf
    /\ handler' = [handler EXCEPT ![c] = "none"]
    /\ UNCHANGED <<sock, listener, queue, clients, work, notifier, overlap>>

HandlerNotified(c) ==
    /\ handler[c] = "select"
    /\ dgrams[c] > 0
    /\ dgrams' = [dgrams EXCEPT ![c] = @ - 1]
    /\ handler' = [handler EXCEPT ![c] = "drain"]
    /\ UNCHANGED <<using, sock, bound, listener, queue, deaf, clients, work, notifier, overlap>>

PushUnderWay(c) == \E n \in Notifiers : notifier[n].pc = "push" /\ notifier[n].cnt = c

(* Mutant: the newest message is sent first. *)
NextOutLast(q) == q[Len(q)]

(* g_queue_pop_head *)
NextOut(q) == Head(q)

(* _process_notify: pop one message without a mutex and write it.  Once    *)
(* the pad is gone the message is lost, and the write may fail, which ends *)
(* the loop.  While the pad does not read, write blocks.                   *)
HandlerWrites(c) ==
    /\ handler[c] = "drain"
    /\ queue[c] # <<>>
    /\ conn[sock[c]] # "stalled"
    /\ queue' = [queue EXCEPT ![c] = Tail(@)]
    /\ IF conn[sock[c]] = "open"
       THEN /\ received' = [received EXCEPT ![sock[c]] = Append(@, NextOut(queue[c]))]
            /\ UNCHANGED handler
       ELSE /\ handler' \in { handler, [handler EXCEPT ![c] = "select"] }
            /\ UNCHANGED received
    /\ overlap' = (overlap \/ PushUnderWay(c))
    /\ UNCHANGED <<using, sock, bound, listener, dgrams, deaf, conn, work, notifier>>

HandlerDrained(c) ==
    /\ handler[c] = "drain"
    /\ queue[c] = <<>>
    /\ handler' = [handler EXCEPT ![c] = "select"]
    /\ deaf' = deaf \ {c}
    /\ overlap' = (overlap \/ PushUnderWay(c))
    /\ UNCHANGED <<using, sock, bound, listener, dgrams, queue, clients, work, notifier>>

-----------------------------------------------------------------------------
(* notify_resp, in the asynchronous thread and in a driver's monitor.      *)

(* The asynchronous thread has carried out the oldest request. *)
AnswerRequest ==
    /\ notifier["async"].pc = "idle"
    /\ acts # <<>>
    /\ acts' = Tail(acts)
    /\ notifier' = [notifier EXCEPT !["async"] = [pc |-> "scan", msg |-> Head(acts), cnt |-> 1]]
    /\ UNCHANGED <<pool, mail, clients, nreq, nevt, audience, overlap>>

(* A driver's monitor raises an event. *)
RaiseEvent ==
    /\ notifier["monitor"].pc = "idle"
    /\ nevt < MaxEvt
    /\ nevt' = nevt + 1
    /\ audience' = [audience EXCEPT ![nevt + 1] =
                      { sock[c] : c \in { d \in Ctxs : handler[d] \in {"select", "drain"} } }]
    /\ notifier' = [notifier EXCEPT !["monitor"] = [pc |-> "scan", msg |-> Event(nevt + 1), cnt |-> 1]]
    /\ UNCHANGED <<pool, mail, clients, acts, nreq, overlap>>

(* Mutant: results go to every pad, as events do. *)
WantedAlways(m, c) == using[c]

(* The tests at the top of the loop. *)
Wanted(m, c) == using[c] /\ (m.kind = "event" \/ m.ctx = c)

(* Mutant: an unused context ends the loop. *)
AdvanceBreaks(me) ==
    IF me.cnt < NCtx /\ using[me.cnt] THEN [me EXCEPT !.pc = "scan", !.cnt = @ + 1] ELSE Returned

(* The next round of the loop, or the end of notify_resp. *)
Advance(me) == IF me.cnt < NCtx THEN [me EXCEPT !.pc = "scan", !.cnt = @ + 1] ELSE Returned

NotifyScan(n) ==
    LET me == notifier[n] IN
    /\ me.pc = "scan"
    /\ notifier' = [notifier EXCEPT ![n] =
         IF Wanted(me.msg, me.cnt) THEN [me EXCEPT !.pc = "push"] ELSE Advance(me)]
    /\ UNCHANGED <<pool, mail, clients, work, overlap>>

NotifyPush(n) ==
    LET me == notifier[n] IN
    /\ me.pc = "push"
    /\ queue' = [queue EXCEPT ![me.cnt] = Append(@, me.msg)]
    /\ notifier' = [notifier EXCEPT ![n].pc = "send"]
    /\ UNCHANGED <<pool, dgrams, deaf, clients, work, overlap>>

(* Mutant: only events are followed by a datagram. *)
SendsDatagramForEvents(n, c) == bound[c] /\ notifier[n].msg.kind = "event"

(* The datagram arrives only if the socket is bound. *)
SendsDatagram(n, c) == bound[c]

(* Mutant: unix_socket_send does not block. *)
RoomAlways(c) == TRUE

(* Mutant: the sender waits for room in a socket that nobody has bound. *)
RoomUnbound(c) == dgrams[c] < SockCap /\ bound[c]

(* unix_socket_send blocks while the socket is full; with no socket there  *)
(* it fails at once.                                                       *)
Room(c) == bound[c] => dgrams[c] < SockCap

NotifySend(n) ==
    LET me == notifier[n] IN
    /\ me.pc = "send"
    /\ Room(me.cnt)
    /\ dgrams' = IF SendsDatagram(n, me.cnt) THEN [dgrams EXCEPT ![me.cnt] = @ + 1] ELSE dgrams
    /\ deaf' = IF bound[me.cnt] THEN deaf ELSE deaf \cup {me.cnt}
    /\ notifier' = [notifier EXCEPT ![n] = Advance(me)]
    /\ UNCHANGED <<pool, queue, clients, work, overlap>>

-----------------------------------------------------------------------------
(* What the handler does without being asked by its pad. *)
HandlerRuns(c) ==
    \/ HandlerEof(c) \/ PutContext(c)
    \/ HandlerNotified(c) \/ HandlerWrites(c) \/ HandlerDrained(c)

Handler(c) == HandlerRequest(c) \/ HandlerAnswers(c) \/ HandlerRuns(c)

Notify(n) == NotifyScan(n) \/ NotifyPush(n) \/ NotifySend(n)

Next ==
    \/ \E k \in Conns : Accept(k) \/ Refuse(k) \/ ClientCloses(k)
    \/ \E k \in Askers : ClientStalls(k)
    \/ BindAndStart
    \/ \E c \in Ctxs : Handler(c)
    \/ AnswerRequest \/ RaiseEvent
    \/ \E n \in Notifiers : Notify(n)

Spec == Init /\ [][Next]_vars

(* Threads that can run do; pads connect, ask, stall and leave as they     *)
(* please.                                                                 *)
Fairness ==
    /\ WF_vars(BindAndStart)
    /\ WF_vars(AnswerRequest)
    /\ \A c \in Ctxs : WF_vars(HandlerRuns(c))
    /\ \A n \in Notifiers : WF_vars(Notify(n))

FairSpec == Spec /\ Fairness

-----------------------------------------------------------------------------
(* Every variable has its type. *)
TypeOK ==
    /\ using \in [Ctxs -> BOOLEAN] /\ bound \in [Ctxs -> BOOLEAN]
    /\ sock \in [Ctxs -> Conns \cup {"none"}]
    /\ dgrams \in [Ctxs -> 0..SockCap]
    /\ queue \in [Ctxs -> Seq(Msg)]
    /\ handler \in [Ctxs -> {"none", "select", "drain", "closing"}]
    /\ listener \in 0..NCtx
    /\ conn \in [Conns -> {"new", "open", "stalled", "closed"}]
    /\ acts \in Seq(Msg)
    /\ notifier \in [Notifiers -> [pc : {"idle", "scan", "push", "send"}, msg : Msg, cnt : 0..NCtx]]
    /\ received \in [Conns -> Seq(Msg)]
    /\ audience \in [1..MaxEvt -> SUBSET (Conns \cup {"none"})]
    /\ nreq \in 0..MaxReq /\ nevt \in 0..MaxEvt
    /\ deaf \subseteq Ctxs
    /\ overlap \in BOOLEAN

Got(k) == { received[k][i] : i \in DOMAIN received[k] }

(* The answer to a pad that is still connected goes to that pad and to     *)
(* nobody else, however contexts are handed from connection to connection. *)
AnswersGoHome ==
    ~overlap => \A k \in Conns : \A m \in Got(k) :
        m.kind = "reply" => m.from = k \/ conn[m.from] = "closed"

(* A pad gets the answers to its own requests in the order it asked, each  *)
(* at most once, except that what the handler answers itself may come      *)
(* before what the asynchronous thread still owes.                         *)
AnswersInOrder ==
    ~overlap => \A k \in Conns : \A i, j \in DOMAIN received[k] :
        (i < j /\ received[k][i].from = k /\ received[k][j].from = k) =>
            \/ received[k][i].n < received[k][j].n
            \/ /\ received[k][i].kind = "direct" /\ received[k][j].kind = "reply"
               /\ received[k][i].n # received[k][j].n

InFlight(m) == \E n \in Notifiers : notifier[n].msg = m

(* An event whose notify_resp has returned has been put in the mailbox of  *)
(* every pad that was being served when it was raised and still is.        *)
EventsReachAll ==
    ~overlap => \A e \in 1..nevt : \A k \in audience[e] :
        (~InFlight(Event(e)) /\ conn[k] # "closed") =>
            \/ Event(e) \in Got(k)
            \/ \E c \in Ctxs : sock[c] = k /\ \E i \in DOMAIN queue[c] : queue[c][i] = Event(e)

(* A handler never sleeps on a message: with one in its queue there is a   *)
(* datagram for it, or one is about to be sent, unless the message came    *)
(* before the socket was bound or is left over from the pad before.        *)
NoMessageUnannounced ==
    ~overlap => \A c \in Ctxs \ deaf :
        (handler[c] = "select" /\ queue[c] # <<>> /\ conn[sock[c]] # "closed") =>
            \/ dgrams[c] > 0
            \/ \E n \in Notifiers : notifier[n].pc = "send" /\ notifier[n].cnt = c

(* Pads that have left give their contexts back, even if they had stalled  *)
(* before.                                                                 *)
ContextComesFree == []<>(\A c \in Ctxs : using[c] => conn[sock[c]] # "closed")

(* A pad does not read, its handler hangs in write, and the handler's      *)
(* socket is full.                                                         *)
Clogged == \E c \in Ctxs : /\ handler[c] = "drain" /\ queue[c] # <<>>
                           /\ conn[sock[c]] = "stalled"
                           /\ dgrams[c] = SockCap

(* The asynchronous thread and the monitors get out of notify_resp again   *)
(* and again, whatever becomes of pads and contexts in the meantime.  Only *)
(* a pad that stays connected and reads no more can hold one of them up,   *)
(* and with it every other pad.                                            *)
NotifyReturns == \A n \in Notifiers : []<>(notifier[n].pc = "idle") \/ []<>Clogged

(* The protocol document: the box answers the message of a pad with the    *)
(* result of executing it.  A pad gets answers to its own requests only.   *)
OnlyOwnAnswers ==
    \A k \in Conns : \A m \in Got(k) : m.kind = "reply" => m.from = k
=============================================================================
