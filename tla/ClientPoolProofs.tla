--------------------------- MODULE ClientPoolProofs ---------------------------
(* Theorems about ClientPool, for any number of contexts, connections,     *)
(* requests and events.                                                    *)
EXTENDS ClientPool, TLAPS

NotifierType == [pc : {"idle", "scan", "push", "send"}, msg : Msg, cnt : 0..NCtx]

(* A context has a connection while it is in use; it is freed after the    *)
(* connection has closed, and no connection ever has two.                  *)
ServeInv ==
    /\ \A c \in Ctxs :
         /\ using[c] <=> listener = c \/ handler[c] # "none"
         /\ bound[c] <=> handler[c] # "none"
         /\ listener = c => handler[c] = "none"
         /\ using[c] => sock[c] \in Conns
         /\ sock[c] \in Conns => conn[sock[c]] # "new"
         /\ (~using[c] \/ handler[c] = "closing") => sock[c] = "none" \/ conn[sock[c]] = "closed"
    /\ \A c, d \in Ctxs : sock[c] = sock[d] /\ sock[c] \in Conns => c = d

(* The answer is for the context of the connection that asked, as long as  *)
(* that connection is there.                                               *)
Home(m) == conn[m.from] = "closed" \/ sock[m.ctx] = m.from

Asked(m) == m.kind = "reply" /\ m.n \in 1..nreq /\ m.ctx \in Ctxs /\ m.from \in Conns /\ Home(m)

EventMsg(m) == m.kind = "event" /\ m.from = "none"

async == notifier["async"]
monitor == notifier["monitor"]

ThreadsInv ==
    /\ async.pc # "idle" => Asked(async.msg) /\ async.cnt \in Ctxs
    /\ async.pc \in {"push", "send"} => async.cnt = async.msg.ctx
    /\ async.pc = "idle" => async.msg = NoMsg
    /\ monitor.pc # "idle" => monitor.msg = Event(nevt) /\ monitor.cnt \in Ctxs
    /\ monitor.pc = "idle" => monitor.msg = NoMsg

(* What is where. *)
MailInv ==
    /\ \A i \in DOMAIN acts : Asked(acts[i])
    /\ \A c \in Ctxs : \A i \in DOMAIN queue[c] :
          EventMsg(queue[c][i]) \/ (Asked(queue[c][i]) /\ queue[c][i].ctx = c)
    /\ \A k \in Conns : \A i \in DOMAIN received[k] :
          \/ EventMsg(received[k][i])
          \/ Asked(received[k][i])
          \/ received[k][i].kind = "direct" /\ received[k][i].from = k /\ received[k][i].n \in 1..nreq

(* The answer of the asynchronous thread is not in its mailbox yet. *)
Unsent == async.pc \in {"scan", "push"} /\ async.cnt <= async.msg.ctx

(* Requests after the n-th are still to be answered, and the n-th at most  *)
(* on the way out of notify_resp.                                          *)
Before(n) ==
    /\ \A i \in DOMAIN acts : n < acts[i].n
    /\ async.pc # "idle" => n <= async.msg.n
    /\ Unsent => n < async.msg.n

(* No answer of the asynchronous thread is to the n-th request. *)
NotOwed(n) ==
    /\ \A i \in DOMAIN acts : n # acts[i].n
    /\ async.pc # "idle" => n # async.msg.n
    /\ \A c \in Ctxs : \A i \in DOMAIN queue[c] : queue[c][i].kind = "reply" => n # queue[c][i].n

PipeInv ==
    /\ \A i, j \in DOMAIN acts : i < j => acts[i].n < acts[j].n
    /\ async.pc # "idle" => \A i \in DOMAIN acts : async.msg.n < acts[i].n

QueueInv ==
    \A c \in Ctxs : \A i \in DOMAIN queue[c] : queue[c][i].kind = "reply" =>
        /\ Before(queue[c][i].n)
        /\ \A j \in DOMAIN queue[c] : i < j /\ queue[c][j].kind = "reply" => queue[c][i].n < queue[c][j].n

GotInv ==
    \A k \in Conns : \A i \in DOMAIN received[k] :
        /\ received[k][i].kind = "reply" =>
              /\ Before(received[k][i].n)
              /\ \A j \in DOMAIN queue[received[k][i].ctx] :
                    queue[received[k][i].ctx][j].kind = "reply" =>
                        received[k][i].n < queue[received[k][i].ctx][j].n
        /\ received[k][i].kind = "direct" => NotOwed(received[k][i].n)

InOrder ==
    \A k \in Conns : \A i, j \in DOMAIN received[k] :
        (i < j /\ received[k][i].from = k /\ received[k][j].from = k) =>
            \/ received[k][i].n < received[k][j].n
            \/ /\ received[k][i].kind = "direct" /\ received[k][j].kind = "reply"
               /\ received[k][i].n # received[k][j].n

(* The event has not come to the context in the loop of notify_resp. *)
ToCome(e, c) ==
    /\ monitor.msg = Event(e)
    /\ monitor.cnt < c \/ (monitor.cnt = c /\ monitor.pc \in {"scan", "push"})

Has(k, c, e) ==
    \/ \E i \in DOMAIN received[k] : received[k][i] = Event(e)
    \/ \E i \in DOMAIN queue[c] : queue[c][i] = Event(e)

AudienceInv ==
    \A e \in 1..nevt : \A k \in audience[e] : k \in Conns /\
        (conn[k] # "closed" => \E c \in Ctxs : sock[c] = k /\ (ToCome(e, c) \/ Has(k, c, e)))

AboutToSend(c) == \E n \in Notifiers : notifier[n].pc = "send" /\ notifier[n].cnt = c

NoticeInv ==
    \A c \in Ctxs \ deaf : queue[c] # <<>> =>
        /\ handler[c] = "none" => AboutToSend(c)
        /\ handler[c] = "select" /\ conn[sock[c]] # "closed" => dgrams[c] > 0 \/ AboutToSend(c)

IInv == TypeOK /\ ServeInv /\ ThreadsInv /\ MailInv /\ PipeInv /\ QueueInv /\ GotInv /\ InOrder
        /\ AudienceInv /\ NoticeInv

-----------------------------------------------------------------------------
(* Queues, and messages. *)
LEMMA QueueFact ==
    ASSUME NEW S, NEW q \in Seq(S), q # <<>>
    PROVE  /\ Head(q) \in S /\ Tail(q) \in Seq(S) /\ 1 \in DOMAIN q /\ Head(q) = q[1]
           /\ \A i \in DOMAIN Tail(q) : i \in Nat /\ 1 < i + 1 /\ i + 1 \in DOMAIN q /\ Tail(q)[i] = q[i + 1]
           /\ \A i \in DOMAIN q : i = 1 \/ (i - 1 \in DOMAIN Tail(q) /\ Tail(q)[i - 1] = q[i])
  OBVIOUS

LEMMA AppendFact ==
    ASSUME NEW S, NEW q \in Seq(S), NEW x \in S
    PROVE  /\ Append(q, x) \in Seq(S) /\ Append(q, x) # <<>>
           /\ DOMAIN q = 1..Len(q) /\ Len(q) \in Nat
           /\ DOMAIN Append(q, x) = 1..(Len(q) + 1) /\ Append(q, x)[Len(q) + 1] = x
           /\ \A i \in DOMAIN q : i \in DOMAIN Append(q, x) /\ Append(q, x)[i] = q[i]
           /\ \A i \in DOMAIN Append(q, x) : i = Len(q) + 1 \/ (i \in DOMAIN q /\ i < Len(q) + 1)
  OBVIOUS

LEMMA MsgFacts ==
    /\ \A r \in Nat, c \in Ctxs, k \in Conns : Reply(r, c, k) \in Msg /\ Direct(r, c, k) \in Msg
    /\ \A e \in Nat : Event(e) \in Msg /\ EventMsg(Event(e)) /\ Event(e) # NoMsg
    /\ \A e, f \in Nat : Event(e) = Event(f) => e = f
    /\ NoMsg \in Msg /\ Returned \in NotifierType
    /\ Returned.pc = "idle" /\ Returned.msg = NoMsg
<1>1. 0 \in 0..NCtx /\ Ctxs \subseteq 0..NCtx
  BY NCtxAssumption DEF Ctxs
<1>2. NoMsg \in Msg
  BY <1>1 DEF NoMsg, Msg
<1>3. \A e \in Nat : Event(e) \in Msg
  BY <1>1 DEF Event, Msg
<1>4. \A r \in Nat, c \in Ctxs, k \in Conns : Reply(r, c, k) \in Msg /\ Direct(r, c, k) \in Msg
  BY <1>1 DEF Reply, Direct, Msg
<1>5. Returned \in NotifierType /\ Returned.pc = "idle" /\ Returned.msg = NoMsg
  BY <1>1, <1>2 DEF Returned, NotifierType
<1>6. \A e, f \in Nat : Event(e) = Event(f) => e = f
  BY DEF Event
<1>7. \A e \in Nat : EventMsg(Event(e)) /\ Event(e) # NoMsg
  BY DEF Event, EventMsg, NoMsg
<1> QED BY <1>2, <1>3, <1>4, <1>5, <1>6, <1>7

(* The next round of notify_resp. *)
LEMMA AdvanceFact ==
    ASSUME NEW me \in NotifierType, me.cnt \in Ctxs
    PROVE  /\ Advance(me) \in NotifierType
           /\ \/ /\ me.cnt < NCtx /\ Advance(me).pc = "scan" /\ Advance(me).msg = me.msg
                 /\ Advance(me).cnt = me.cnt + 1 /\ Advance(me).cnt \in Ctxs
              \/ me.cnt = NCtx /\ Advance(me) = Returned
<1>1. CASE me.cnt < NCtx
  <2>1. me.cnt + 1 \in Ctxs /\ me.cnt + 1 \in 0..NCtx
    BY <1>1, NCtxAssumption DEF Ctxs
  <2>2. Advance(me) = [me EXCEPT !.pc = "scan", !.cnt = me.cnt + 1]
    BY <1>1 DEF Advance
  <2> QED BY <1>1, <2>1, <2>2 DEF NotifierType
<1>2. CASE me.cnt = NCtx
  BY <1>2, NCtxAssumption, MsgFacts DEF Advance
<1> QED BY <1>1, <1>2, NCtxAssumption DEF Ctxs

(* The initial state satisfies the invariant. *)
LEMMA IInit == Init => IInv
<1> SUFFICES ASSUME Init PROVE IInv
  OBVIOUS
<1> USE NCtxAssumption, ConnsAssumption, SockCapAssumption, BoundsAssumption
<1>1. TypeOK
  <2>1. queue \in [Ctxs -> Seq(Msg)] /\ received \in [Conns -> Seq(Msg)] /\ acts \in Seq(Msg)
    BY DEF Init
  <2>2. notifier \in [Notifiers -> NotifierType]
    BY MsgFacts DEF Init
  <2>3. /\ using \in [Ctxs -> BOOLEAN] /\ bound \in [Ctxs -> BOOLEAN]
        /\ sock \in [Ctxs -> Conns \cup {"none"}]
    BY DEF Init
  <2>4. dgrams \in [Ctxs -> 0..SockCap] /\ listener \in 0..NCtx
    BY DEF Init
  <2>5. /\ handler \in [Ctxs -> {"none", "select", "drain", "closing"}]
        /\ conn \in [Conns -> {"new", "open", "stalled", "closed"}]
    BY DEF Init
  <2>6. nreq \in 0..MaxReq /\ nevt \in 0..MaxEvt /\ deaf \subseteq Ctxs
    BY DEF Init
  <2>7. overlap \in BOOLEAN
    BY DEF Init
  <2>8. audience \in [1..MaxEvt -> SUBSET (Conns \cup {"none"})]
    <3>1. audience = [e \in 1..MaxEvt |-> {}]
      BY DEF Init
    <3> QED BY <3>1
  <2> QED BY <2>1, <2>2, <2>3, <2>4, <2>5, <2>6, <2>7, <2>8 DEF TypeOK, NotifierType
<1>2. ServeInv
  BY DEF Init, ServeInv, Ctxs
<1>3. ThreadsInv
  <2>1. async = Returned /\ monitor = Returned
    BY DEF Init, async, monitor, Notifiers
  <2> QED BY <2>1, MsgFacts DEF ThreadsInv
<1>4. MailInv /\ PipeInv /\ QueueInv /\ GotInv /\ InOrder
  <2>1. acts = <<>> /\ async = Returned
    BY DEF Init, async, Notifiers
  <2>2. \A c \in Ctxs : queue[c] = <<>>
    BY DEF Init
  <2>3. \A k \in Conns : received[k] = <<>>
    BY DEF Init
  <2> QED BY <2>1, <2>2, <2>3, MsgFacts DEF MailInv, PipeInv, QueueInv, GotInv, InOrder
<1>5. AudienceInv /\ NoticeInv
  BY DEF Init, AudienceInv, NoticeInv
<1> QED BY <1>1, <1>2, <1>3, <1>4, <1>5 DEF IInv

-----------------------------------------------------------------------------
(* What the threads and mailboxes hold. *)
LEMMA TypeFacts ==
    ASSUME TypeOK
    PROVE  /\ acts \in Seq(Msg)
           /\ queue \in [Ctxs -> Seq(Msg)] /\ \A c \in Ctxs : queue[c] \in Seq(Msg)
           /\ received \in [Conns -> Seq(Msg)] /\ \A k \in Conns : received[k] \in Seq(Msg)
           /\ notifier \in [Notifiers -> NotifierType]
           /\ async \in NotifierType /\ monitor \in NotifierType
           /\ nreq \in Nat /\ nevt \in Nat
<1>1. notifier \in [Notifiers -> NotifierType]
  BY DEF TypeOK, NotifierType
<1>2. async \in NotifierType /\ monitor \in NotifierType
  BY <1>1 DEF async, monitor, Notifiers
<1> QED BY <1>1, <1>2, BoundsAssumption DEF TypeOK

(* The types of the pool, and of what is sent through it. *)
TypePool ==
    /\ using \in [Ctxs -> BOOLEAN] /\ bound \in [Ctxs -> BOOLEAN]
    /\ sock \in [Ctxs -> Conns \cup {"none"}]
    /\ dgrams \in [Ctxs -> 0..SockCap]
    /\ handler \in [Ctxs -> {"none", "select", "drain", "closing"}]
    /\ listener \in 0..NCtx
    /\ conn \in [Conns -> {"new", "open", "stalled", "closed"}]
    /\ deaf \subseteq Ctxs
    /\ overlap \in BOOLEAN

TypeMail ==
    /\ queue \in [Ctxs -> Seq(Msg)]
    /\ acts \in Seq(Msg)
    /\ notifier \in [Notifiers -> NotifierType]
    /\ received \in [Conns -> Seq(Msg)]
    /\ audience \in [1..MaxEvt -> SUBSET (Conns \cup {"none"})]
    /\ nreq \in 0..MaxReq /\ nevt \in 0..MaxEvt

LEMMA TypeParts == /\ TypeOK <=> TypePool /\ TypeMail
                   /\ TypeOK' <=> TypePool' /\ TypeMail'
  BY DEF TypeOK, TypePool, TypeMail, NotifierType

-----------------------------------------------------------------------------
(* Steps of the pool.  Messages stay where they are, a closed connection   *)
(* stays closed, and a context stays with its connection until then.       *)
Stable ==
    /\ \A k \in Conns : conn[k] = "closed" => conn'[k] = "closed"
    /\ \A c \in Ctxs : sock[c] \in Conns /\ conn[sock[c]] # "closed" => sock'[c] = sock[c]

MailRest == TypeMail /\ ThreadsInv /\ MailInv /\ PipeInv /\ QueueInv /\ GotInv /\ InOrder /\ AudienceInv

LEMMA PoolFrame ==
    ASSUME IInv, Stable, UNCHANGED <<queue, acts, notifier, received, audience, nreq, nevt>>
    PROVE  MailRest'
<1>1. async' = async /\ monitor' = monitor
  BY DEF async, monitor
<1>2. \A m : Asked(m) => Asked(m)'
  BY DEF Asked, Home, Stable
<1>3. TypeMail'
  BY TypeParts DEF IInv, TypeMail
<1>4. ThreadsInv'
  BY <1>1, <1>2 DEF IInv, ThreadsInv
<1>5. MailInv'
  BY <1>2 DEF IInv, MailInv
<1>6. \A n : (Before(n)' <=> Before(n)) /\ (NotOwed(n)' <=> NotOwed(n))
  BY <1>1 DEF Before, NotOwed, Unsent
<1>7. PipeInv' /\ InOrder'
  BY <1>1 DEF IInv, PipeInv, InOrder
<1>8. QueueInv'
  BY <1>6 DEF IInv, QueueInv
<1>9. GotInv'
  BY <1>6 DEF IInv, GotInv
<1>10. AudienceInv'
  <2> SUFFICES ASSUME NEW e \in 1..nevt, NEW k \in audience[e]
               PROVE  k \in Conns /\ (conn'[k] # "closed" =>
                         \E c \in Ctxs : sock'[c] = k /\ (ToCome(e, c)' \/ Has(k, c, e)'))
    BY DEF AudienceInv
  <2>1. k \in Conns /\ (conn[k] # "closed" =>
                         \E c \in Ctxs : sock[c] = k /\ (ToCome(e, c) \/ Has(k, c, e)))
    BY DEF IInv, AudienceInv
  <2>2. \A c : (ToCome(e, c)' <=> ToCome(e, c)) /\ (Has(k, c, e)' <=> Has(k, c, e))
    BY <1>1 DEF ToCome, Has
  <2> QED BY <2>1, <2>2 DEF Stable
<1> QED BY <1>3, <1>4, <1>5, <1>7, <1>8, <1>9, <1>10 DEF MailRest

PoolRest == TypePool /\ ServeInv /\ NoticeInv

LEMMA Parts == /\ IInv <=> PoolRest /\ MailRest
               /\ IInv' <=> PoolRest' /\ MailRest'
  BY TypeParts DEF IInv, PoolRest, MailRest

(* The listening thread. *)
LEMMA AcceptStep ==
    ASSUME IInv, NEW k \in Conns, Accept(k)
    PROVE  IInv'
<1>1. PICK c \in Ctxs : /\ FirstFree(c) /\ using' = [using EXCEPT ![c] = TRUE]
                        /\ sock' = [sock EXCEPT ![c] = k] /\ listener' = c
  BY DEF Accept
<1>2. /\ listener = 0 /\ conn[k] = "new" /\ conn' = [conn EXCEPT ![k] = "open"]
      /\ UNCHANGED <<bound, handler, dgrams, deaf, overlap, queue, acts, notifier, received, audience,
                     nreq, nevt>>
  BY DEF Accept, mail, work
<1>3. TypePool /\ ServeInv
  BY Parts DEF PoolRest
<1>4. TypePool'
  BY <1>1, <1>2, <1>3, NCtxAssumption DEF TypePool, Ctxs
<1>5. /\ ~using[c] /\ using'[c] /\ sock'[c] = k /\ conn'[k] = "open"
      /\ \A d \in Ctxs : d # c => using'[d] = using[d] /\ sock'[d] = sock[d]
      /\ \A j \in Conns : j # k => conn'[j] = conn[j]
  BY <1>1, <1>2, <1>3 DEF TypePool, FirstFree
<1>6. \A d \in Ctxs : sock[d] # k
  BY <1>2, <1>3 DEF ServeInv
<1>7. 0 \notin Ctxs
  BY DEF Ctxs
<1>8. handler[c] = "none" /\ (sock[c] = "none" \/ conn[sock[c]] = "closed")
  BY <1>3, <1>5 DEF ServeInv
<1>9. ServeInv'
  <2>1. ASSUME NEW d \in Ctxs
        PROVE  /\ using'[d] <=> listener' = d \/ handler'[d] # "none"
               /\ bound'[d] <=> handler'[d] # "none"
               /\ listener' = d => handler'[d] = "none"
               /\ using'[d] => sock'[d] \in Conns
               /\ sock'[d] \in Conns => conn'[sock'[d]] # "new"
               /\ (~using'[d] \/ handler'[d] = "closing") => sock'[d] = "none" \/ conn'[sock'[d]] = "closed"
    <3>1. CASE d = c
      BY <1>1, <1>2, <1>3, <1>5, <1>8, <3>1 DEF ServeInv
    <3>2. CASE d # c
      BY <1>1, <1>2, <1>3, <1>5, <1>6, <1>7, <3>2 DEF ServeInv, TypePool
    <3> QED BY <3>1, <3>2
  <2>2. \A d, e \in Ctxs : sock'[d] = sock'[e] /\ sock'[d] \in Conns => d = e
    BY <1>3, <1>5, <1>6 DEF ServeInv
  <2> QED BY <2>1, <2>2 DEF ServeInv
<1>10. Stable
  BY <1>2, <1>5, <1>8, ConnsAssumption DEF Stable
<1>11. NoticeInv'
  <2>1. \A d : AboutToSend(d)' <=> AboutToSend(d)
    BY <1>2 DEF AboutToSend
  <2>2. \A d \in Ctxs : handler[d] = "select" => d # c
    BY <1>8
  <2>3. \A d \in Ctxs : handler[d] = "select" /\ conn'[sock'[d]] # "closed" => conn[sock[d]] # "closed"
    BY <1>3, <1>5, <1>6, <2>2 DEF ServeInv
  <2> QED BY <1>2, <2>1, <2>3, Parts DEF PoolRest, NoticeInv
<1>12. PoolRest'
  BY <1>4, <1>9, <1>11 DEF PoolRest
<1> QED BY <1>2, <1>10, <1>12, PoolFrame, Parts

(* A connection is refused, stalls, reads again or closes. *)
LEMMA ConnStep ==
    ASSUME IInv, NEW k \in Conns, NEW x \in {"open", "stalled", "closed"}, conn[k] # "closed",
           conn[k] = "new" => \A c \in Ctxs : sock[c] # k,
           conn' = [conn EXCEPT ![k] = x],
           UNCHANGED <<pool, mail, received, work, notifier, overlap>>
    PROVE  IInv'
<1>1. TypePool /\ ServeInv /\ NoticeInv
  BY Parts DEF PoolRest
<1>2. UNCHANGED <<using, sock, bound, handler, listener, dgrams, queue, deaf, acts, notifier, received,
                  audience, nreq, nevt, overlap>>
  BY DEF pool, mail, work
<1>3. TypePool'
  BY <1>1, <1>2 DEF TypePool
<1>4. conn'[k] = x /\ \A j \in Conns : j # k => conn'[j] = conn[j]
  BY <1>1 DEF TypePool
<1>5. /\ \A j \in Conns : conn[j] = "closed" => conn'[j] = "closed"
      /\ \A j \in Conns : conn'[j] = "new" => conn[j] = "new"
  BY <1>4
<1>6. ServeInv'
  BY <1>1, <1>2, <1>5 DEF ServeInv, TypePool
<1>7. NoticeInv'
  <2>1. \A d : AboutToSend(d)' <=> AboutToSend(d)
    BY <1>2 DEF AboutToSend
  <2>2. \A d \in Ctxs : handler[d] = "select" /\ conn'[sock[d]] # "closed" => conn[sock[d]] # "closed"
    BY <1>1, <1>5 DEF ServeInv
  <2> QED BY <1>1, <1>2, <2>1, <2>2 DEF NoticeInv
<1>8. Stable
  BY <1>2, <1>5 DEF Stable
<1>9. PoolRest'
  BY <1>3, <1>6, <1>7 DEF PoolRest
<1> QED BY <1>2, <1>8, <1>9, PoolFrame, Parts

(* The unix socket is bound and the handler starts. *)
LEMMA BindStep == IInv /\ BindAndStart => IInv'
<1> SUFFICES ASSUME IInv, BindAndStart PROVE IInv'
  OBVIOUS
<1>1. TypePool /\ ServeInv /\ NoticeInv
  BY Parts DEF PoolRest
<1>2. PICK c \in Ctxs : /\ listener = c /\ listener' = 0
                        /\ bound' = [bound EXCEPT ![c] = TRUE]
                        /\ dgrams' = [dgrams EXCEPT ![c] = 0]
                        /\ handler' = [handler EXCEPT ![c] = "select"]
  <2>1. listener \in Ctxs
    BY <1>1, NCtxAssumption DEF BindAndStart, TypePool, Ctxs
  <2> QED BY <2>1 DEF BindAndStart
<1>3. UNCHANGED <<using, sock, conn, deaf, overlap, queue, acts, notifier, received, audience, nreq, nevt>>
  BY DEF BindAndStart, clients, work
<1>4. TypePool'
  <2>1. dgrams' \in [Ctxs -> 0..SockCap]
    BY <1>1, <1>2, SockCapAssumption DEF TypePool
  <2> QED BY <1>1, <1>2, <1>3, <2>1, NCtxAssumption DEF TypePool
<1>5. /\ bound'[c] /\ dgrams'[c] = 0 /\ handler'[c] = "select" /\ handler[c] = "none"
      /\ \A d \in Ctxs : d # c => bound'[d] = bound[d] /\ dgrams'[d] = dgrams[d] /\ handler'[d] = handler[d]
  BY <1>1, <1>2 DEF TypePool, ServeInv
<1>6. 0 \notin Ctxs
  BY DEF Ctxs
<1>7. ServeInv'
  BY <1>1, <1>2, <1>3, <1>5, <1>6 DEF ServeInv
<1>8. NoticeInv'
  <2>1. \A d : AboutToSend(d)' <=> AboutToSend(d)
    BY <1>3 DEF AboutToSend
  <2>2. ASSUME NEW d \in Ctxs \ deaf, queue[d] # <<>>
        PROVE  /\ handler'[d] = "none" => AboutToSend(d)
               /\ handler'[d] = "select" /\ conn[sock[d]] # "closed" => dgrams'[d] > 0 \/ AboutToSend(d)
    <3>1. CASE d = c
      BY <1>1, <1>5, <2>2, <3>1 DEF NoticeInv
    <3>2. CASE d # c
      BY <1>1, <1>5, <2>2, <3>2 DEF NoticeInv
    <3> QED BY <3>1, <3>2
  <2> QED BY <1>3, <2>1, <2>2 DEF NoticeInv
<1>9. Stable
  BY <1>3 DEF Stable
<1>10. PoolRest'
  BY <1>4, <1>7, <1>8 DEF PoolRest
<1> QED BY <1>3, <1>9, <1>10, PoolFrame, Parts

(* put_client_context *)
LEMMA PutStep ==
    ASSUME IInv, NEW c \in Ctxs, PutContext(c)
    PROVE  IInv'
<1>1. TypePool /\ ServeInv /\ NoticeInv
  BY Parts DEF PoolRest
<1>2. /\ handler[c] = "closing" /\ listener = 0
      /\ using' = [using EXCEPT ![c] = FALSE]
      /\ bound' = [bound EXCEPT ![c] = FALSE]
      /\ dgrams' = [dgrams EXCEPT ![c] = 0]
      /\ deaf' = IF queue[c] # <<>> THEN deaf \cup {c} ELSE deaf
      /\ handler' = [handler EXCEPT ![c] = "none"]
  BY DEF PutContext, PutUsing
<1>3. UNCHANGED <<listener, sock, conn, overlap, queue, acts, notifier, received, audience, nreq, nevt>>
  BY DEF PutContext, clients, work
<1>4. TypePool'
  <2>1. dgrams' \in [Ctxs -> 0..SockCap]
    BY <1>1, <1>2, SockCapAssumption DEF TypePool
  <2> QED BY <1>1, <1>2, <1>3, <2>1 DEF TypePool
<1>5. /\ ~using'[c] /\ ~bound'[c] /\ handler'[c] = "none"
      /\ \A d \in Ctxs : d # c => using'[d] = using[d] /\ bound'[d] = bound[d] /\ dgrams'[d] = dgrams[d]
                                  /\ handler'[d] = handler[d]
  BY <1>1, <1>2 DEF TypePool
<1>6. 0 \notin Ctxs
  BY DEF Ctxs
<1>7. ServeInv'
  BY <1>1, <1>2, <1>3, <1>5, <1>6 DEF ServeInv
<1>8. NoticeInv'
  <2>1. \A d : AboutToSend(d)' <=> AboutToSend(d)
    BY <1>3 DEF AboutToSend
  <2>2. ASSUME NEW d \in Ctxs \ deaf', queue[d] # <<>>
        PROVE  /\ handler'[d] = "none" => AboutToSend(d)
               /\ handler'[d] = "select" /\ conn[sock[d]] # "closed" => dgrams'[d] > 0 \/ AboutToSend(d)
    <3>1. d # c /\ d \notin deaf
      BY <1>2, <2>2
    <3> QED BY <1>1, <1>5, <2>2, <3>1 DEF NoticeInv
  <2> QED BY <1>3, <2>1, <2>2 DEF NoticeInv
<1>9. Stable
  BY <1>3 DEF Stable
<1>10. PoolRest'
  BY <1>4, <1>7, <1>8 DEF PoolRest
<1> QED BY <1>3, <1>9, <1>10, PoolFrame, Parts

(* The handler sees that its pad has gone, takes a datagram, or has        *)
(* emptied its queue.                                                      *)
LEMMA HandlerStep ==
    ASSUME IInv, NEW c \in Ctxs, HandlerEof(c) \/ HandlerNotified(c) \/ HandlerDrained(c)
    PROVE  IInv'
<1>1. TypePool /\ ServeInv /\ NoticeInv
  BY Parts DEF PoolRest
<1>2. PICK x \in {"select", "drain", "closing"} : handler' = [handler EXCEPT ![c] = x]
  BY DEF HandlerEof, HandlerNotified, HandlerDrained
<1>3. UNCHANGED <<using, sock, bound, listener, conn, queue, acts, notifier, received, audience, nreq, nevt>>
  BY DEF HandlerEof, HandlerNotified, HandlerDrained, mail, clients, work
<1>4. /\ handler'[c] = x /\ handler[c] \in {"select", "drain"}
      /\ \A d \in Ctxs : d # c => handler'[d] = handler[d]
      /\ x = "closing" => conn[sock[c]] = "closed"
  BY <1>1, <1>2 DEF TypePool, HandlerEof, HandlerNotified, HandlerDrained
<1>5. TypePool'
  <2>1. dgrams' \in [Ctxs -> 0..SockCap]
    <3>1. dgrams \in [Ctxs -> 0..SockCap]
      BY <1>1 DEF TypePool
    <3>2. CASE HandlerNotified(c)
      <4>1. dgrams[c] - 1 \in 0..SockCap /\ dgrams' = [dgrams EXCEPT ![c] = dgrams[c] - 1]
        BY <3>1, <3>2, SockCapAssumption DEF HandlerNotified
      <4> QED BY <3>1, <4>1
    <3>3. CASE HandlerEof(c) \/ HandlerDrained(c)
      BY <3>1, <3>3 DEF HandlerEof, HandlerDrained, mail
    <3> QED BY <3>2, <3>3
  <2>2. deaf' \subseteq Ctxs
    BY <1>1 DEF TypePool, HandlerEof, HandlerNotified, HandlerDrained, mail
  <2>3. overlap' \in BOOLEAN
    BY <1>1 DEF TypePool, HandlerEof, HandlerNotified, HandlerDrained
  <2> QED BY <1>1, <1>2, <1>3, <2>1, <2>2, <2>3 DEF TypePool
<1>6. ServeInv'
  BY <1>1, <1>3, <1>4 DEF ServeInv
<1>7. NoticeInv'
  <2>1. \A d : AboutToSend(d)' <=> AboutToSend(d)
    BY <1>3 DEF AboutToSend
  <2>2. x = "select" => queue[c] = <<>>
    <3>1. CASE HandlerDrained(c)
      BY <3>1 DEF HandlerDrained
    <3>2. CASE HandlerEof(c) \/ HandlerNotified(c)
      <4>1. handler'[c] \in {"closing", "drain"}
        BY <1>1, <3>2 DEF HandlerEof, HandlerNotified, TypePool
      <4> QED BY <1>4, <4>1
    <3> QED BY <3>1, <3>2
  <2>3. \A d \in Ctxs : d # c => dgrams'[d] = dgrams[d] /\ (d \notin deaf' => d \notin deaf)
    BY <1>1 DEF TypePool, HandlerEof, HandlerNotified, HandlerDrained, mail
  <2>4. ASSUME NEW d \in Ctxs \ deaf', queue[d] # <<>>
        PROVE  /\ handler'[d] = "none" => AboutToSend(d)
               /\ handler'[d] = "select" /\ conn[sock[d]] # "closed" => dgrams'[d] > 0 \/ AboutToSend(d)
    <3>1. CASE d = c
      BY <1>4, <2>2, <2>4, <3>1
    <3>2. CASE d # c
      BY <1>1, <1>4, <2>3, <2>4, <3>2 DEF NoticeInv
    <3> QED BY <3>1, <3>2
  <2> QED BY <1>3, <2>1, <2>4 DEF NoticeInv
<1>8. Stable
  BY <1>3 DEF Stable
<1>9. PoolRest'
  BY <1>5, <1>6, <1>7 DEF PoolRest
<1> QED BY <1>3, <1>8, <1>9, PoolFrame, Parts

-----------------------------------------------------------------------------
(* Steps of messages. *)
LEMMA PoolSame ==
    ASSUME IInv, UNCHANGED <<using, sock, bound, handler, listener, conn, dgrams, deaf, overlap>>
    PROVE  TypePool' /\ ServeInv'
  BY Parts DEF PoolRest, TypePool, ServeInv

LEMMA NoticeSame ==
    ASSUME IInv, UNCHANGED <<sock, handler, conn, dgrams, deaf, queue>>,
           \A d \in Ctxs : AboutToSend(d) => AboutToSend(d)'
    PROVE  NoticeInv'
  BY DEF IInv, NoticeInv

LEMMA AudienceSame ==
    ASSUME IInv, UNCHANGED <<sock, conn, nevt, audience>>,
           monitor' = monitor,
           \A k \in Conns, c \in Ctxs, e \in 1..nevt :
              conn[k] # "closed" /\ sock[c] = k /\ Has(k, c, e) => Has(k, c, e)'
    PROVE  AudienceInv'
<1> SUFFICES ASSUME NEW e \in 1..nevt, NEW k \in audience[e]
             PROVE  k \in Conns /\ (conn[k] # "closed" =>
                       \E c \in Ctxs : sock[c] = k /\ (ToCome(e, c)' \/ Has(k, c, e)'))
  BY DEF AudienceInv
<1>1. k \in Conns /\ (conn[k] # "closed" =>
                         \E c \in Ctxs : sock[c] = k /\ (ToCome(e, c) \/ Has(k, c, e)))
  BY DEF IInv, AudienceInv
<1>2. \A c : ToCome(e, c)' <=> ToCome(e, c)
  BY DEF ToCome
<1> QED BY <1>1, <1>2

LEMMA AskedStays ==
    ASSUME UNCHANGED <<sock, conn>>, nreq \in Nat, nreq' \in Nat, nreq <= nreq', NEW m, Asked(m)
    PROVE  Asked(m)'
  BY DEF Asked, Home

(* What is in mailboxes and with pads. *)
LEMMA KindFacts ==
    ASSUME IInv
    PROVE  /\ \A i \in DOMAIN acts : acts[i].n \in 1..nreq
           /\ \A c \in Ctxs : \A i \in DOMAIN queue[c] : queue[c][i].kind = "reply" =>
                 Asked(queue[c][i]) /\ queue[c][i].ctx = c /\ queue[c][i].n \in 1..nreq
           /\ \A k \in Conns : \A i \in DOMAIN received[k] :
                 /\ received[k][i].kind = "reply" =>
                       Asked(received[k][i]) /\ received[k][i].n \in 1..nreq /\ received[k][i].ctx \in Ctxs
                 /\ received[k][i].kind = "direct" => received[k][i].n \in 1..nreq
                 /\ received[k][i].from = k =>
                       received[k][i].kind \in {"reply", "direct"} /\ received[k][i].n \in 1..nreq
           /\ async.pc # "idle" => async.msg.n \in 1..nreq /\ async.msg.kind = "reply"
<1>1. MailInv /\ ThreadsInv
  BY DEF IInv
<1>2. \A k \in Conns : k # "none"
  BY ConnsAssumption
<1> QED BY <1>1, <1>2 DEF MailInv, ThreadsInv, Asked, EventMsg

(* A packet asks for a device operation. *)
LEMMA RequestStep ==
    ASSUME IInv, NEW c \in Ctxs, HandlerRequest(c)
    PROVE  IInv'
<1>1. PICK m : m = Reply(nreq + 1, c, sock[c])
  OBVIOUS
<1>2. /\ acts' = Append(acts, m) /\ nreq' = nreq + 1 /\ nreq < MaxReq /\ sock[c] \in Conns
      /\ UNCHANGED <<using, sock, bound, handler, listener, conn, dgrams, deaf, overlap>>
      /\ UNCHANGED <<queue, notifier, received, audience, nevt>>
  BY <1>1, ConnsAssumption DEF HandlerRequest, pool, mail, clients
<1>3. /\ nreq \in Nat /\ acts \in Seq(Msg) /\ m \in Msg /\ m.n = nreq + 1 /\ m.kind = "reply"
      /\ m.ctx = c /\ m.from = sock[c]
  <2>1. nreq \in Nat /\ acts \in Seq(Msg)
    BY TypeFacts DEF IInv
  <2>2. nreq + 1 \in Nat
    BY <2>1
  <2>3. m \in Msg
    BY <1>1, <1>2, <2>2, MsgFacts
  <2> QED BY <1>1, <2>1, <2>3 DEF Reply
<1>4. /\ acts' \in Seq(Msg) /\ DOMAIN acts = 1..Len(acts) /\ Len(acts) \in Nat
      /\ \A i \in DOMAIN acts' : \/ i = Len(acts) + 1 /\ acts'[i] = m
                                 \/ i \in DOMAIN acts /\ acts'[i] = acts[i]
  BY <1>2, <1>3, AppendFact
<1>5. \A i \in DOMAIN acts : acts[i].n < m.n
  BY <1>3, KindFacts
<1>6. async' = async /\ monitor' = monitor
  BY <1>2 DEF async, monitor
<1>7. \A x : Asked(x) => Asked(x)'
  BY <1>2, <1>3, AskedStays
<1>8. \A n \in 1..nreq : (Before(n) => Before(n)') /\ (NotOwed(n) => NotOwed(n)')
  <2> SUFFICES ASSUME NEW n \in 1..nreq
               PROVE  (Before(n) => Before(n)') /\ (NotOwed(n) => NotOwed(n)')
    OBVIOUS
  <2>1. n < m.n /\ n # m.n
    BY <1>3
  <2> QED BY <1>2, <1>4, <1>6, <2>1 DEF Before, NotOwed, Unsent
<1>9. TypeMail'
  BY <1>2, <1>3, <1>4, TypeParts, BoundsAssumption DEF IInv, TypeMail
<1>10. ThreadsInv'
  BY <1>2, <1>6, <1>7 DEF IInv, ThreadsInv
<1>11. MailInv'
  <2>1. Asked(m)'
    BY <1>2, <1>3 DEF Asked, Home
  <2>2. \A i \in DOMAIN acts' : Asked(acts[i])'
    <3>1. \A i \in DOMAIN acts : Asked(acts[i])
      BY DEF IInv, MailInv
    <3> QED BY <1>4, <1>7, <2>1, <3>1 DEF Asked, Home
  <2>3. \A d \in Ctxs : \A i \in DOMAIN queue[d] :
          EventMsg(queue[d][i]) \/ (Asked(queue[d][i])' /\ queue[d][i].ctx = d)
    BY <1>2, <1>7 DEF IInv, MailInv, Asked, Home
  <2>4. \A k \in Conns : \A i \in DOMAIN received[k] :
          \/ EventMsg(received[k][i])
          \/ Asked(received[k][i])'
          \/ received[k][i].kind = "direct" /\ received[k][i].from = k /\ received[k][i].n \in 1..nreq'
    <3>1. \A k \in Conns : \A i \in DOMAIN received[k] :
            \/ EventMsg(received[k][i])
            \/ Asked(received[k][i])
            \/ received[k][i].kind = "direct" /\ received[k][i].from = k /\ received[k][i].n \in 1..nreq
      BY DEF IInv, MailInv
    <3>2. \A n \in 1..nreq : n \in 1..nreq'
      BY <1>2, <1>3
    <3> QED BY <1>2, <1>7, <3>1, <3>2 DEF Asked, Home
  <2> QED BY <1>2, <2>2, <2>3, <2>4 DEF MailInv, EventMsg
<1>12. PipeInv'
  <2>1. \A i, j \in DOMAIN acts' : i < j => acts'[i].n < acts'[j].n
    BY <1>4, <1>5 DEF IInv, PipeInv
  <2>2. async.pc # "idle" => \A i \in DOMAIN acts' : async.msg.n < acts'[i].n
    BY <1>3, <1>4, KindFacts DEF IInv, PipeInv
  <2> QED BY <1>6, <2>1, <2>2 DEF PipeInv
<1>13. QueueInv'
  BY <1>2, <1>8, KindFacts DEF IInv, QueueInv
<1>14. GotInv'
  BY <1>2, <1>8, KindFacts DEF IInv, GotInv
<1>15. InOrder'
  BY <1>2 DEF IInv, InOrder
<1>16. AudienceInv'
  BY <1>2, <1>6, AudienceSame DEF Has
<1>17. NoticeInv'
  BY <1>2, NoticeSame DEF AboutToSend
<1>18. MailRest'
  BY <1>9, <1>10, <1>11, <1>12, <1>13, <1>14, <1>15, <1>16 DEF MailRest
<1> QED BY <1>2, <1>17, <1>18, PoolSame, Parts DEF PoolRest

(* A packet the handler answers itself. *)
LEMMA AnswersStep ==
    ASSUME IInv, NEW c \in Ctxs, HandlerAnswers(c)
    PROVE  IInv'
<1>1. PICK m, k : m = Direct(nreq + 1, c, sock[c]) /\ k = sock[c]
  OBVIOUS
<1>2. /\ nreq' = nreq + 1 /\ nreq < MaxReq /\ k \in Conns
      /\ UNCHANGED <<using, sock, bound, handler, listener, conn, dgrams, deaf, overlap>>
      /\ UNCHANGED <<queue, acts, notifier, audience, nevt>>
  BY <1>1, ConnsAssumption DEF HandlerAnswers, pool, mail
<1>3. /\ nreq \in Nat /\ m \in Msg /\ m.n = nreq + 1 /\ m.kind = "direct" /\ m.from = k
      /\ received \in [Conns -> Seq(Msg)] /\ received[k] \in Seq(Msg)
  <2>1. nreq \in Nat /\ received \in [Conns -> Seq(Msg)] /\ received[k] \in Seq(Msg)
    BY <1>2, TypeFacts DEF IInv
  <2>2. nreq + 1 \in Nat
    BY <2>1
  <2>3. m \in Msg
    BY <1>1, <1>2, <2>2, MsgFacts
  <2> QED BY <1>1, <2>1, <2>3 DEF Direct
<1>4. received' = received \/ received' = [received EXCEPT ![k] = Append(received[k], m)]
  BY <1>1 DEF HandlerAnswers
<1>5. PICK q : q = Append(received[k], m)
  OBVIOUS
<1>6. /\ q \in Seq(Msg) /\ DOMAIN received[k] = 1..Len(received[k]) /\ Len(received[k]) \in Nat
      /\ \A i \in DOMAIN received[k] : i \in DOMAIN q /\ q[i] = received[k][i]
      /\ \A i \in DOMAIN q : \/ i = Len(received[k]) + 1 /\ q[i] = m
                             \/ i \in DOMAIN received[k] /\ q[i] = received[k][i] /\ i < Len(received[k]) + 1
  BY <1>3, <1>5, AppendFact
<1>7. /\ received' \in [Conns -> Seq(Msg)]
      /\ \A j \in Conns : j # k => received'[j] = received[j]
      /\ received'[k] = received[k] \/ received'[k] = q
  <2>1. CASE received' = received
    BY <1>3, <2>1
  <2>2. CASE received' = [received EXCEPT ![k] = q]
    BY <1>2, <1>3, <1>6, <2>2
  <2> QED BY <1>4, <1>5, <2>1, <2>2
<1>8. \A j \in Conns :
        /\ \A i \in DOMAIN received[j] : i \in DOMAIN received'[j] /\ received'[j][i] = received[j][i]
        /\ \A i \in DOMAIN received'[j] :
              \/ i \in DOMAIN received[j] /\ received'[j][i] = received[j][i]
              \/ /\ j = k /\ received'[j][i] = m
                 /\ \A h \in DOMAIN received'[j] : h = i \/ (h < i /\ h \in DOMAIN received[j])
  BY <1>6, <1>7
<1>9. async' = async /\ monitor' = monitor
  BY <1>2 DEF async, monitor
<1>10. \A x : Asked(x) => Asked(x)'
  BY <1>2, <1>3, AskedStays
<1>11. \A n : (Before(n)' <=> Before(n)) /\ (NotOwed(n)' <=> NotOwed(n))
  BY <1>2, <1>9 DEF Before, NotOwed, Unsent
<1>12. TypeMail'
  BY <1>2, <1>3, <1>7, TypeParts, BoundsAssumption DEF IInv, TypeMail
<1>13. ThreadsInv' /\ PipeInv'
  BY <1>2, <1>9, <1>10 DEF IInv, ThreadsInv, PipeInv
<1>14. MailInv'
  <2>1. \A i \in DOMAIN acts : Asked(acts[i])'
    BY <1>2, <1>10 DEF IInv, MailInv, Asked, Home
  <2>2. \A d \in Ctxs : \A i \in DOMAIN queue[d] :
          EventMsg(queue[d][i]) \/ (Asked(queue[d][i])' /\ queue[d][i].ctx = d)
    BY <1>2, <1>10 DEF IInv, MailInv, Asked, Home
  <2>3. \A j \in Conns : \A i \in DOMAIN received'[j] :
          \/ EventMsg(received'[j][i])
          \/ Asked(received[j][i])'
          \/ received'[j][i].kind = "direct" /\ received'[j][i].from = j /\ received'[j][i].n \in 1..nreq'
    <3> SUFFICES ASSUME NEW j \in Conns, NEW i \in DOMAIN received'[j]
                 PROVE  \/ EventMsg(received'[j][i])
                        \/ Asked(received[j][i])'
                        \/ /\ received'[j][i].kind = "direct" /\ received'[j][i].from = j
                           /\ received'[j][i].n \in 1..nreq'
      OBVIOUS
    <3>1. CASE i \in DOMAIN received[j] /\ received'[j][i] = received[j][i]
      BY <1>2, <1>3, <1>10, <3>1 DEF IInv, MailInv, Asked, Home
    <3>2. CASE j = k /\ received'[j][i] = m
      BY <1>2, <1>3, <3>2
    <3> QED BY <1>8, <3>1, <3>2
  <2> QED BY <1>2, <2>1, <2>2, <2>3 DEF MailInv, EventMsg
<1>15. QueueInv'
  BY <1>2, <1>11 DEF IInv, QueueInv
<1>16. NotOwed(m.n)
  BY <1>3, KindFacts DEF NotOwed
<1>17. GotInv'
  <2> SUFFICES ASSUME NEW j \in Conns, NEW i \in DOMAIN received'[j]
               PROVE  /\ received'[j][i].kind = "reply" =>
                            /\ Before(received'[j][i].n)
                            /\ \A h \in DOMAIN queue[received'[j][i].ctx] :
                                  queue[received'[j][i].ctx][h].kind = "reply" =>
                                      received'[j][i].n < queue[received'[j][i].ctx][h].n
                      /\ received'[j][i].kind = "direct" => NotOwed(received'[j][i].n)
    BY <1>2, <1>11 DEF GotInv
  <2>1. CASE i \in DOMAIN received[j] /\ received'[j][i] = received[j][i]
    BY <2>1 DEF IInv, GotInv
  <2>2. CASE received'[j][i] = m
    BY <1>3, <1>16, <2>2
  <2> QED BY <1>8, <2>1, <2>2
<1>18. InOrder'
  <2> SUFFICES ASSUME NEW j \in Conns, NEW i \in DOMAIN received'[j], NEW h \in DOMAIN received'[j],
                      i < h, received'[j][i].from = j, received'[j][h].from = j
               PROVE  \/ received'[j][i].n < received'[j][h].n
                      \/ /\ received'[j][i].kind = "direct" /\ received'[j][h].kind = "reply"
                         /\ received'[j][i].n # received'[j][h].n
    BY DEF InOrder
  <2>1. i \in DOMAIN received[j] /\ received'[j][i] = received[j][i] /\ i \in Int /\ h \in Int
    <3>1. i \in Int /\ h \in Int
      BY <1>7 
    <3> QED BY <1>8, <3>1
  <2>2. CASE h \in DOMAIN received[j] /\ received'[j][h] = received[j][h]
    BY <2>1, <2>2 DEF IInv, InOrder
  <2>3. CASE j = k /\ received'[j][h] = m
    <3>1. received[j][i].n \in 1..nreq
      BY <2>1, KindFacts
    <3> QED BY <1>3, <2>1, <2>3, <3>1
  <2> QED BY <1>8, <2>2, <2>3
<1>19. AudienceInv'
  <2>1. \A j \in Conns, d \in Ctxs, e \in 1..nevt : Has(j, d, e) => Has(j, d, e)'
    BY <1>2, <1>8 DEF Has
  <2> QED BY <1>2, <1>9, <2>1, AudienceSame
<1>20. NoticeInv'
  BY <1>2, NoticeSame DEF AboutToSend
<1>21. MailRest'
  BY <1>12, <1>13, <1>14, <1>15, <1>17, <1>18, <1>19 DEF MailRest
<1> QED BY <1>2, <1>20, <1>21, PoolSame, Parts DEF PoolRest

(* _process_notify pops a message and writes it. *)
LEMMA WritesStep ==
    ASSUME IInv, NEW c \in Ctxs, HandlerWrites(c)
    PROVE  IInv'
<1>1. PICK k, y : k = sock[c] /\ y = Head(queue[c])
  OBVIOUS
<1>2. /\ handler[c] = "drain" /\ queue[c] # <<>> /\ conn[k] # "stalled"
      /\ queue' = [queue EXCEPT ![c] = Tail(queue[c])]
      /\ \/ /\ conn[k] = "open" /\ handler' = handler
            /\ received' = [received EXCEPT ![k] = Append(received[k], y)]
         \/ /\ conn[k] # "open" /\ received' = received
            /\ handler' = handler \/ handler' = [handler EXCEPT ![c] = "select"]
      /\ UNCHANGED <<using, sock, bound, listener, conn, dgrams, deaf>>
      /\ UNCHANGED <<acts, notifier, audience, nreq, nevt>>
  BY <1>1 DEF HandlerWrites, NextOut, work
<1>3. TypePool /\ ServeInv /\ NoticeInv /\ MailInv /\ QueueInv /\ GotInv
  BY Parts DEF PoolRest, MailRest
<1>4. k \in Conns /\ conn[k] # "new" /\ (conn[k] # "open" => conn[k] = "closed")
  <2>1. using[c] /\ sock[c] \in Conns
    BY <1>2, <1>3 DEF ServeInv
  <2> QED BY <1>1, <1>2, <1>3, <2>1 DEF ServeInv, TypePool
<1>5. /\ queue \in [Ctxs -> Seq(Msg)] /\ queue[c] \in Seq(Msg)
      /\ received \in [Conns -> Seq(Msg)] /\ received[k] \in Seq(Msg)
  BY <1>4, TypeFacts DEF IInv
<1>6. PICK t : t = Tail(queue[c])
  OBVIOUS
<1>7. /\ y \in Msg /\ t \in Seq(Msg) /\ 1 \in DOMAIN queue[c] /\ y = queue[c][1]
      /\ \A i \in DOMAIN t : i \in Nat /\ 1 < i + 1 /\ i + 1 \in DOMAIN queue[c] /\ t[i] = queue[c][i + 1]
      /\ \A i \in DOMAIN queue[c] : i = 1 \/ (i - 1 \in DOMAIN t /\ t[i - 1] = queue[c][i])
  BY <1>1, <1>2, <1>5, <1>6, QueueFact
<1>8. /\ queue' \in [Ctxs -> Seq(Msg)] /\ queue'[c] = t
      /\ \A d \in Ctxs : d # c => queue'[d] = queue[d]
  BY <1>2, <1>5, <1>6, <1>7
<1>9. PICK q : q = Append(received[k], y)
  OBVIOUS
<1>10. /\ q \in Seq(Msg) /\ DOMAIN received[k] = 1..Len(received[k]) /\ Len(received[k]) \in Nat
       /\ Len(received[k]) + 1 \in DOMAIN q /\ q[Len(received[k]) + 1] = y
       /\ \A i \in DOMAIN received[k] : i \in DOMAIN q /\ q[i] = received[k][i]
       /\ \A i \in DOMAIN q : \/ i = Len(received[k]) + 1 /\ q[i] = y
                              \/ i \in DOMAIN received[k] /\ q[i] = received[k][i] /\ i < Len(received[k]) + 1
  BY <1>5, <1>7, <1>9, AppendFact
<1>11. /\ received' \in [Conns -> Seq(Msg)]
       /\ \A j \in Conns : j # k => received'[j] = received[j]
       /\ \/ conn[k] = "open" /\ received'[k] = q
          \/ conn[k] = "closed" /\ received'[k] = received[k]
  <2>1. CASE received' = received /\ conn[k] # "open"
    BY <1>4, <1>5, <2>1
  <2>2. CASE received' = [received EXCEPT ![k] = q] /\ conn[k] = "open"
    BY <1>4, <1>5, <1>10, <2>2
  <2> QED BY <1>2, <1>9, <2>1, <2>2
<1>12. \A j \in Conns :
         /\ \A i \in DOMAIN received[j] : i \in DOMAIN received'[j] /\ received'[j][i] = received[j][i]
         /\ \A i \in DOMAIN received'[j] :
               \/ i \in DOMAIN received[j] /\ received'[j][i] = received[j][i]
               \/ /\ j = k /\ conn[k] = "open" /\ received'[j][i] = y
                  /\ \A h \in DOMAIN received'[j] : h = i \/ (h < i /\ h \in DOMAIN received[j])
  BY <1>10, <1>11
<1>13. async' = async /\ monitor' = monitor
  BY <1>2 DEF async, monitor
<1>14. \A x : Asked(x)' <=> Asked(x)
  BY <1>2 DEF Asked, Home
<1>15. \A d \in Ctxs : \A i \in DOMAIN queue'[d] :
          \E h \in DOMAIN queue[d] : queue'[d][i] = queue[d][h]
  BY <1>7, <1>8
<1>16. \A n : (Before(n)' <=> Before(n)) /\ (NotOwed(n) => NotOwed(n)')
  BY <1>2, <1>13, <1>15 DEF Before, NotOwed, Unsent
<1>17. TypeMail'
  BY <1>2, <1>8, <1>11, TypeParts DEF IInv, TypeMail
<1>18. ThreadsInv' /\ PipeInv'
  BY <1>2, <1>13, <1>14 DEF IInv, ThreadsInv, PipeInv
<1>19. MailInv'
  <2>1. \A i \in DOMAIN acts : Asked(acts[i])'
    BY <1>2, <1>3, <1>14 DEF MailInv, Asked, Home
  <2>2. \A d \in Ctxs : \A i \in DOMAIN queue'[d] :
          EventMsg(queue'[d][i]) \/ (Asked(queue'[d][i]) /\ queue'[d][i].ctx = d)
    BY <1>3, <1>15 DEF MailInv
  <2>3. EventMsg(y) \/ Asked(y)
    BY <1>3, <1>7 DEF MailInv
  <2>4. \A j \in Conns : \A i \in DOMAIN received'[j] :
          \/ EventMsg(received'[j][i])
          \/ Asked(received'[j][i])
          \/ received'[j][i].kind = "direct" /\ received'[j][i].from = j /\ received'[j][i].n \in 1..nreq
    <3> SUFFICES ASSUME NEW j \in Conns, NEW i \in DOMAIN received'[j]
                 PROVE  \/ EventMsg(received'[j][i])
                        \/ Asked(received'[j][i])
                        \/ /\ received'[j][i].kind = "direct" /\ received'[j][i].from = j
                           /\ received'[j][i].n \in 1..nreq
      OBVIOUS
    <3>1. CASE i \in DOMAIN received[j] /\ received'[j][i] = received[j][i]
      BY <1>3, <3>1 DEF MailInv
    <3>2. CASE received'[j][i] = y
      BY <2>3, <3>2
    <3> QED BY <1>12, <3>1, <3>2
  <2> QED BY <1>2, <2>1, <2>2, <2>4 DEF MailInv, EventMsg, Asked, Home
<1>20. QueueInv'
  <2> SUFFICES ASSUME NEW d \in Ctxs, NEW i \in DOMAIN queue'[d], queue'[d][i].kind = "reply"
               PROVE  /\ Before(queue'[d][i].n)
                      /\ \A j \in DOMAIN queue'[d] : i < j /\ queue'[d][j].kind = "reply" =>
                            queue'[d][i].n < queue'[d][j].n
    BY <1>16 DEF QueueInv
  <2>1. CASE d = c
    BY <1>3, <1>7, <1>8, <2>1 DEF QueueInv
  <2>2. CASE d # c
    BY <1>3, <1>8, <2>2 DEF QueueInv
  <2> QED BY <2>1, <2>2
<1>21. GotInv'
  <2> SUFFICES ASSUME NEW j \in Conns, NEW i \in DOMAIN received'[j]
               PROVE  /\ received'[j][i].kind = "reply" =>
                            /\ Before(received'[j][i].n)
                            /\ \A h \in DOMAIN queue'[received'[j][i].ctx] :
                                  queue'[received'[j][i].ctx][h].kind = "reply" =>
                                      received'[j][i].n < queue'[received'[j][i].ctx][h].n
                      /\ received'[j][i].kind = "direct" => NotOwed(received'[j][i].n)
    BY <1>16 DEF GotInv
  <2>1. CASE i \in DOMAIN received[j] /\ received'[j][i] = received[j][i]
    <3>1. received[j][i].kind = "reply" => received[j][i].ctx \in Ctxs
      BY <2>1, KindFacts
    <3> QED BY <1>3, <1>15, <2>1, <3>1 DEF GotInv
  <2>2. CASE received'[j][i] = y
    <3>1. y.kind = "reply" => y.ctx = c /\ Before(y.n)
      BY <1>3, <1>7, KindFacts DEF QueueInv
    <3>2. y.kind = "reply" => \A h \in DOMAIN t : t[h].kind = "reply" => y.n < t[h].n
      BY <1>3, <1>7 DEF QueueInv
    <3>3. y.kind # "direct"
      BY <1>3, <1>7 DEF MailInv, EventMsg, Asked
    <3> QED BY <1>8, <2>2, <3>1, <3>2, <3>3
  <2> QED BY <1>12, <2>1, <2>2
<1>22. InOrder'
  <2> SUFFICES ASSUME NEW j \in Conns, NEW i \in DOMAIN received'[j], NEW h \in DOMAIN received'[j],
                      i < h, received'[j][i].from = j, received'[j][h].from = j
               PROVE  \/ received'[j][i].n < received'[j][h].n
                      \/ /\ received'[j][i].kind = "direct" /\ received'[j][h].kind = "reply"
                         /\ received'[j][i].n # received'[j][h].n
    BY DEF InOrder
  <2>1. i \in DOMAIN received[j] /\ received'[j][i] = received[j][i]
    <3>1. i \in Int /\ h \in Int
      BY <1>11
    <3> QED BY <1>12, <3>1
  <2>2. CASE h \in DOMAIN received[j] /\ received'[j][h] = received[j][h]
    BY <2>1, <2>2 DEF IInv, InOrder
  <2>3. CASE j = k /\ conn[k] = "open" /\ received'[j][h] = y
    <3>1. y.kind = "reply"
      BY <1>3, <1>7, <2>3, ConnsAssumption DEF MailInv, EventMsg, Asked
    <3>2. received[k][i].kind = "direct" => received[k][i].n # y.n
      BY <1>3, <1>7, <2>1, <2>3, <3>1 DEF GotInv, NotOwed
    <3>3. received[k][i].kind = "reply" => received[k][i].n < y.n
      <4> SUFFICES ASSUME received[k][i].kind = "reply" PROVE received[k][i].n < y.n
        OBVIOUS
      <4>1. Asked(received[k][i]) /\ received[k][i].from = k
        BY <2>1, <2>3, KindFacts
      <4>2. sock[received[k][i].ctx] = k /\ received[k][i].ctx \in Ctxs
        BY <2>3, <4>1 DEF Asked, Home
      <4>3. received[k][i].ctx = c
        BY <1>1, <1>3, <1>4, <4>2 DEF ServeInv
      <4>4. i \in DOMAIN received[k]
        BY <2>1, <2>3
      <4>5. \A x \in DOMAIN queue[c] : queue[c][x].kind = "reply" => received[k][i].n < queue[c][x].n
        BY <1>3, <1>4, <4>3, <4>4 DEF GotInv
      <4> QED BY <1>7, <3>1, <4>5
    <3>4. received[k][i].kind \in {"reply", "direct"}
      BY <1>4, <2>1, <2>3, KindFacts
    <3> QED BY <2>1, <2>3, <3>1, <3>2, <3>3, <3>4
  <2> QED BY <1>12, <2>2, <2>3
<1>23. AudienceInv'
  <2>1. ASSUME NEW j \in Conns, NEW d \in Ctxs, NEW e \in 1..nevt, conn[j] # "closed", sock[d] = j, Has(j, d, e)
        PROVE  Has(j, d, e)'
    <3>1. CASE \E i \in DOMAIN received[j] : received[j][i] = Event(e)
      BY <1>12, <3>1 DEF Has
    <3>2. ASSUME NEW i \in DOMAIN queue[d], queue[d][i] = Event(e) PROVE Has(j, d, e)'
      <4>1. CASE d # c
        BY <1>8, <3>2, <4>1 DEF Has
      <4>2. CASE d = c /\ i = 1
        <5>1. j = k /\ y = Event(e)
          BY <1>1, <1>7, <2>1, <3>2, <4>2
        <5>2. received'[k] = q
          BY <1>11, <2>1, <5>1
        <5> QED BY <1>10, <5>1, <5>2 DEF Has
      <4>3. CASE d = c /\ i # 1
        <5>1. i - 1 \in DOMAIN t /\ t[i - 1] = Event(e)
          BY <1>7, <3>2, <4>3
        <5>2. i - 1 \in DOMAIN queue'[d] /\ queue'[d][i - 1] = Event(e)
          BY <1>8, <4>3, <5>1
        <5> QED BY <5>2 DEF Has
      <4> QED BY <4>1, <4>2, <4>3
    <3> QED BY <2>1, <3>1, <3>2 DEF Has
  <2> QED BY <1>2, <1>13, <2>1, AudienceSame
<1>24. \A d \in Ctxs : handler'[d] = handler[d] \/ (d = c /\ handler'[d] = "select" /\ conn[k] = "closed")
  BY <1>2, <1>3, <1>4 DEF TypePool
<1>25. TypePool'
  <2>1. handler' \in [Ctxs -> {"none", "select", "drain", "closing"}]
    BY <1>2, <1>3 DEF TypePool
  <2>2. overlap' \in BOOLEAN
    BY DEF HandlerWrites
  <2> QED BY <1>2, <1>3, <2>1, <2>2 DEF TypePool
<1>26. ServeInv'
  BY <1>2, <1>3, <1>24 DEF ServeInv
<1>27. NoticeInv'
  <2>1. \A d : AboutToSend(d)' <=> AboutToSend(d)
    BY <1>2 DEF AboutToSend
  <2>2. ASSUME NEW d \in Ctxs \ deaf, queue'[d] # <<>>
        PROVE  /\ handler'[d] = "none" => AboutToSend(d)
               /\ handler'[d] = "select" /\ conn[sock[d]] # "closed" => dgrams[d] > 0 \/ AboutToSend(d)
    <3>1. CASE d = c
      BY <1>1, <1>2, <1>24, <3>1
    <3>2. CASE d # c
      BY <1>3, <1>8, <1>24, <2>2, <3>2 DEF NoticeInv
    <3> QED BY <3>1, <3>2
  <2> QED BY <1>2, <2>1, <2>2 DEF NoticeInv
<1>28. MailRest'
  BY <1>17, <1>18, <1>19, <1>20, <1>21, <1>22, <1>23 DEF MailRest
<1> QED BY <1>25, <1>26, <1>27, <1>28, Parts DEF PoolRest

(* The asynchronous thread has carried out the oldest request. *)
LEMMA AnswerStep == IInv /\ AnswerRequest => IInv'
<1> SUFFICES ASSUME IInv, AnswerRequest PROVE IInv'
  OBVIOUS
<1>1. PICK y, t : y = Head(acts) /\ t = Tail(acts)
  OBVIOUS
<1>2. /\ async.pc = "idle" /\ acts # <<>> /\ acts' = t
      /\ notifier' = [notifier EXCEPT !["async"] = [pc |-> "scan", msg |-> y, cnt |-> 1]]
      /\ UNCHANGED <<using, sock, bound, handler, listener, conn, dgrams, deaf, overlap>>
      /\ UNCHANGED <<queue, received, audience, nreq, nevt>>
  BY <1>1 DEF AnswerRequest, pool, mail, clients, async
<1>3. acts \in Seq(Msg) /\ notifier \in [Notifiers -> NotifierType]
  BY TypeFacts DEF IInv
<1>4. /\ y \in Msg /\ t \in Seq(Msg) /\ 1 \in DOMAIN acts /\ y = acts[1]
      /\ \A i \in DOMAIN t : i \in Nat /\ 1 < i + 1 /\ i + 1 \in DOMAIN acts /\ t[i] = acts[i + 1]
  BY <1>1, <1>2, <1>3, QueueFact
<1>5. [pc |-> "scan", msg |-> y, cnt |-> 1] \in NotifierType /\ 1 \in Ctxs
  BY <1>4, NCtxAssumption DEF NotifierType, Ctxs
<1>6. /\ notifier' \in [Notifiers -> NotifierType]
      /\ async' = [pc |-> "scan", msg |-> y, cnt |-> 1] /\ monitor' = monitor
  BY <1>2, <1>3, <1>5 DEF async, monitor, Notifiers
<1>7. async'.pc = "scan" /\ async'.msg = y /\ async'.cnt = 1
  BY <1>6
<1>8. PipeInv /\ MailInv /\ QueueInv /\ GotInv
  BY DEF IInv
<1>9. \A x : Asked(x)' <=> Asked(x)
  BY <1>2 DEF Asked, Home
<1>10. \A n \in 1..nreq : (Before(n) => Before(n)') /\ (NotOwed(n) => NotOwed(n)')
  <2> SUFFICES ASSUME NEW n \in 1..nreq PROVE (Before(n) => Before(n)') /\ (NotOwed(n) => NotOwed(n)')
    OBVIOUS
  <2>1. y.n \in 1..nreq
    BY <1>4, KindFacts
  <2>2. NotOwed(n) => NotOwed(n)'
    BY <1>2, <1>4, <1>7 DEF NotOwed
  <2>3. ASSUME Before(n) PROVE Before(n)'
    <3>1. n < y.n /\ \A i \in DOMAIN t : n < t[i].n
      BY <1>4, <2>3 DEF Before
    <3>2. n <= y.n
      BY <2>1, <3>1
    <3> QED BY <1>2, <1>7, <3>1, <3>2 DEF Before, Unsent
  <2> QED BY <2>2, <2>3
<1>11. TypeMail'
  BY <1>2, <1>4, <1>6, TypeParts DEF IInv, TypeMail
<1>12. ThreadsInv'
  <2>1. Asked(y)
    BY <1>4, <1>8 DEF MailInv
  <2> QED BY <1>2, <1>5, <1>6, <1>7, <1>9, <2>1 DEF IInv, ThreadsInv, Asked, Home
<1>13. MailInv'
  <2>1. \A i \in DOMAIN t : Asked(t[i])
    BY <1>4, <1>8 DEF MailInv
  <2> QED BY <1>2, <1>8, <1>9, <2>1 DEF MailInv, EventMsg, Asked, Home
<1>14. PipeInv'
  <2>1. \A i, j \in DOMAIN t : i < j => t[i].n < t[j].n
    BY <1>4, <1>8 DEF PipeInv
  <2>2. \A i \in DOMAIN t : y.n < t[i].n
    BY <1>4, <1>8 DEF PipeInv
  <2> QED BY <1>2, <1>7, <2>1, <2>2 DEF PipeInv
<1>15. QueueInv' /\ GotInv' /\ InOrder'
  <2>1. QueueInv'
    BY <1>2, <1>8, <1>10, KindFacts DEF QueueInv
  <2>2. GotInv'
    BY <1>2, <1>8, <1>10, KindFacts DEF GotInv
  <2>3. InOrder'
    BY <1>2 DEF IInv, InOrder
  <2> QED BY <2>1, <2>2, <2>3
<1>16. AudienceInv'
  BY <1>2, <1>6, AudienceSame DEF Has
<1>17. NoticeInv'
  <2>1. \A d \in Ctxs : AboutToSend(d) => AboutToSend(d)'
    BY <1>2, <1>6 DEF AboutToSend, Notifiers, async, monitor
  <2> QED BY <1>2, <2>1, NoticeSame
<1>18. MailRest'
  BY <1>11, <1>12, <1>13, <1>14, <1>15, <1>16 DEF MailRest
<1> QED BY <1>2, <1>17, <1>18, PoolSame, Parts DEF PoolRest

(* A driver's monitor raises an event. *)
LEMMA RaiseStep == IInv /\ RaiseEvent => IInv'
<1> SUFFICES ASSUME IInv, RaiseEvent PROVE IInv'
  OBVIOUS
<1>1. PICK A : A = { sock[c] : c \in { d \in Ctxs : handler[d] \in {"select", "drain"} } }
  OBVIOUS
<1>2. PICK y : y = Event(nevt + 1)
  OBVIOUS
<1>3. /\ monitor.pc = "idle" /\ nevt < MaxEvt /\ nevt' = nevt + 1
      /\ audience' = [audience EXCEPT ![nevt + 1] = A]
      /\ notifier' = [notifier EXCEPT !["monitor"] = [pc |-> "scan", msg |-> y, cnt |-> 1]]
      /\ UNCHANGED <<using, sock, bound, handler, listener, conn, dgrams, deaf, overlap>>
      /\ UNCHANGED <<queue, acts, received, nreq>>
  BY <1>1, <1>2 DEF RaiseEvent, pool, mail, clients, monitor
<1>4. /\ notifier \in [Notifiers -> NotifierType] /\ nevt \in Nat
      /\ audience \in [1..MaxEvt -> SUBSET (Conns \cup {"none"})]
  BY TypeFacts DEF IInv, TypeOK
<1>5. y \in Msg
  <2>1. nevt + 1 \in Nat
    BY <1>4
  <2> QED BY <1>2, <2>1, MsgFacts
<1>6. [pc |-> "scan", msg |-> y, cnt |-> 1] \in NotifierType /\ 1 \in Ctxs
  BY <1>5, NCtxAssumption DEF NotifierType, Ctxs
<1>7. /\ notifier' \in [Notifiers -> NotifierType]
      /\ monitor' = [pc |-> "scan", msg |-> y, cnt |-> 1] /\ async' = async
  BY <1>3, <1>4, <1>6 DEF async, monitor, Notifiers
<1>8. monitor'.pc = "scan" /\ monitor'.msg = y /\ monitor'.cnt = 1
  BY <1>7
<1>9. \A k \in A : k \in Conns /\ \E c \in Ctxs : sock[c] = k
  BY <1>1 DEF IInv, ServeInv
<1>10. /\ audience' \in [1..MaxEvt -> SUBSET (Conns \cup {"none"})]
       /\ nevt + 1 \in 1..MaxEvt /\ audience'[nevt + 1] = A
       /\ \A e \in 1..nevt : audience'[e] = audience[e]
  <2>1. nevt + 1 \in 1..MaxEvt /\ \A e \in 1..nevt : e \in 1..MaxEvt /\ e # nevt + 1
    BY <1>3, <1>4, BoundsAssumption
  <2>2. A \in SUBSET (Conns \cup {"none"})
    BY <1>9
  <2> QED BY <1>3, <1>4, <2>1, <2>2
<1>11. TypeMail'
  BY <1>3, <1>4, <1>7, <1>10, TypeParts, BoundsAssumption DEF IInv, TypeMail
<1>12. \A x : Asked(x)' <=> Asked(x)
  BY <1>3 DEF Asked, Home
<1>13. ThreadsInv'
  BY <1>2, <1>3, <1>6, <1>7, <1>8, <1>12 DEF IInv, ThreadsInv, Asked, Home
<1>14. MailInv'
  BY <1>3 DEF IInv, MailInv, EventMsg, Asked, Home
<1>15. \A n : (Before(n)' <=> Before(n)) /\ (NotOwed(n)' <=> NotOwed(n))
  BY <1>3, <1>7 DEF Before, NotOwed, Unsent
<1>16. PipeInv' /\ QueueInv' /\ GotInv' /\ InOrder'
  BY <1>3, <1>7, <1>15 DEF IInv, PipeInv, QueueInv, GotInv, InOrder
<1>17. AudienceInv'
  <2> SUFFICES ASSUME NEW e \in 1..nevt', NEW k \in audience'[e]
               PROVE  k \in Conns /\ (conn[k] # "closed" =>
                         \E c \in Ctxs : sock[c] = k /\ (ToCome(e, c)' \/ Has(k, c, e)'))
    BY <1>3 DEF AudienceInv
  <2>1. CASE e = nevt + 1
    <3>1. \A c \in Ctxs : ToCome(e, c)'
      BY <1>2, <1>8, <2>1, NCtxAssumption DEF ToCome, Ctxs
    <3> QED BY <1>9, <1>10, <2>1, <3>1
  <2>2. CASE e \in 1..nevt
    <3>1. monitor.msg # Event(e)
      BY <1>3, <2>2, MsgFacts DEF IInv, ThreadsInv
    <3>2. \A c : ~ToCome(e, c) /\ (Has(k, c, e)' <=> Has(k, c, e))
      BY <1>3, <3>1 DEF ToCome, Has
    <3>3. k \in audience[e]
      BY <1>10, <2>2
    <3> QED BY <2>2, <3>2, <3>3 DEF IInv, AudienceInv
  <2> QED BY <1>3, <1>4, <2>1, <2>2
<1>18. NoticeInv'
  <2>1. \A d \in Ctxs : AboutToSend(d) => AboutToSend(d)'
    BY <1>3, <1>7 DEF AboutToSend, Notifiers, async, monitor
  <2> QED BY <1>3, <2>1, NoticeSame
<1>19. MailRest'
  BY <1>11, <1>13, <1>14, <1>16, <1>17 DEF MailRest
<1> QED BY <1>3, <1>18, <1>19, PoolSame, Parts DEF PoolRest

-----------------------------------------------------------------------------
(* A round of notify_resp. *)

(* The thread n goes from me to x. *)
Goes(n, x) == x \in NotifierType /\ notifier' = [notifier EXCEPT ![n] = x]

LEMMA GoesFact ==
    ASSUME TypeOK, NEW n \in Notifiers, NEW x, Goes(n, x)
    PROVE  /\ notifier' \in [Notifiers -> NotifierType] /\ notifier'[n] = x
           /\ \A o \in Notifiers : o # n => notifier'[o] = notifier[o]
           /\ n = "async" => async' = x /\ monitor' = monitor
           /\ n = "monitor" => monitor' = x /\ async' = async
<1>1. notifier \in [Notifiers -> NotifierType]
  BY TypeFacts
<1>2. /\ notifier' \in [Notifiers -> NotifierType] /\ notifier'[n] = x
      /\ \A o \in Notifiers : o # n => notifier'[o] = notifier[o]
  BY <1>1 DEF Goes
<1> QED BY <1>2 DEF async, monitor, Notifiers

(* A thread at work is at a context. *)
LEMMA AtContext ==
    ASSUME IInv, NEW n \in Notifiers, notifier[n].pc # "idle"
    PROVE  notifier[n] \in NotifierType /\ notifier[n].cnt \in Ctxs
<1>1. notifier[n] \in NotifierType
  BY TypeFacts DEF IInv
<1>2. n = "async" \/ n = "monitor"
  BY DEF Notifiers
<1> QED BY <1>1, <1>2 DEF IInv, ThreadsInv, async, monitor

(* What does not depend on the threads, and what does. *)
LEMMA ThreadFrame ==
    ASSUME IInv, UNCHANGED <<conn, sock, acts, queue, received, nreq>>,
           \A n : (Before(n) => Before(n)') /\ (NotOwed(n) => NotOwed(n)'),
           async'.pc # "idle" => async.pc # "idle" /\ async'.msg = async.msg
    PROVE  MailInv' /\ PipeInv' /\ QueueInv' /\ GotInv' /\ InOrder'
<1>1. MailInv'
  BY DEF IInv, MailInv, EventMsg, Asked, Home
<1>2. PipeInv' /\ InOrder'
  BY DEF IInv, PipeInv, InOrder
<1>3. QueueInv'
  BY DEF IInv, QueueInv
<1>4. GotInv'
  BY DEF IInv, GotInv
<1> QED BY <1>1, <1>2, <1>3, <1>4

(* The asynchronous thread goes on in the loop, or leaves it. *)
LEMMA AsyncGoes ==
    ASSUME IInv, UNCHANGED <<conn, sock, acts, queue, received, nreq>>,
           async.pc # "idle",
           async' = Returned \/ (async'.pc # "idle" /\ async'.msg = async.msg),
           Unsent' => Unsent
    PROVE  MailInv' /\ PipeInv' /\ QueueInv' /\ GotInv' /\ InOrder'
<1>1. async'.pc # "idle" => async'.msg = async.msg
  BY MsgFacts
<1>2. \A n : (Before(n) => Before(n)') /\ (NotOwed(n) => NotOwed(n)')
  BY <1>1 DEF Before, NotOwed, Unsent
<1> QED BY <1>1, <1>2, ThreadFrame

(* The test at the top of the loop. *)
LEMMA ScanStep ==
    ASSUME IInv, NEW n \in Notifiers, NotifyScan(n)
    PROVE  IInv'
<1>1. PICK me : me = notifier[n]
  OBVIOUS
<1>2. /\ me.pc = "scan"
      /\ UNCHANGED <<using, sock, bound, handler, listener, conn, dgrams, deaf, overlap>>
      /\ UNCHANGED <<queue, acts, received, audience, nreq, nevt>>
  BY <1>1 DEF NotifyScan, pool, mail, clients, work
<1>3. me \in NotifierType /\ me.cnt \in Ctxs
  BY <1>1, <1>2, AtContext
<1>4. PICK x : x = IF Wanted(me.msg, me.cnt) THEN [me EXCEPT !.pc = "push"] ELSE Advance(me)
  OBVIOUS
<1>5. notifier' = [notifier EXCEPT ![n] = x]
  BY <1>1, <1>4 DEF NotifyScan
<1>6. /\ x \in NotifierType
      /\ \/ Wanted(me.msg, me.cnt) /\ x.pc = "push" /\ x.msg = me.msg /\ x.cnt = me.cnt
         \/ /\ ~Wanted(me.msg, me.cnt)
            /\ me.cnt < NCtx /\ x.pc = "scan" /\ x.msg = me.msg /\ x.cnt = me.cnt + 1 /\ x.cnt \in Ctxs
         \/ ~Wanted(me.msg, me.cnt) /\ me.cnt = NCtx /\ x = Returned
  <2>1. CASE Wanted(me.msg, me.cnt)
    <3>1. x = [me EXCEPT !.pc = "push"]
      BY <1>4, <2>1
    <3> QED BY <1>3, <2>1, <3>1 DEF NotifierType
  <2>2. CASE ~Wanted(me.msg, me.cnt)
    <3>1. x = Advance(me)
      BY <1>4, <2>2
    <3> QED BY <1>3, <2>2, <3>1, AdvanceFact
  <2> QED BY <2>1, <2>2
<1>7. Goes(n, x) /\ TypeOK
  BY <1>5, <1>6 DEF Goes, IInv
<1>8. TypeMail'
  BY <1>2, <1>7, GoesFact, TypeParts DEF TypeMail
<1>9. \A m : Asked(m)' <=> Asked(m)
  BY <1>2 DEF Asked, Home
<1>10. ASSUME n = "async" PROVE MailRest'
  <2>1. async = me /\ async' = x /\ monitor' = monitor
    BY <1>1, <1>7, <1>10, GoesFact DEF async
  <2>2. Asked(me.msg) /\ me.msg.kind = "reply" /\ me.msg.ctx \in Ctxs
    BY <1>2, <2>1 DEF IInv, ThreadsInv, Asked
  <2>3. x = Returned \/ (x.pc # "idle" /\ x.msg = me.msg)
    BY <1>6
  <2>4. ThreadsInv'
    <3>1. x.pc # "idle" => Asked(x.msg)' /\ x.cnt \in Ctxs
      BY <1>3, <1>6, <1>9, <2>2, MsgFacts
    <3>2. x.pc \in {"push", "send"} => x.cnt = x.msg.ctx
      BY <1>6, <2>2, MsgFacts DEF Wanted
    <3>3. x.pc = "idle" => x.msg = NoMsg
      BY <1>6, MsgFacts
    <3> QED BY <1>2, <2>1, <3>1, <3>2, <3>3 DEF IInv, ThreadsInv, Asked, Home
  <2>5. Unsent' => Unsent
    BY <1>2, <1>3, <1>6, <2>1, <2>2, MsgFacts DEF Unsent, Ctxs
  <2>6. MailInv' /\ PipeInv' /\ QueueInv' /\ GotInv' /\ InOrder'
    BY <1>2, <2>1, <2>3, <2>5, AsyncGoes
  <2>7. AudienceInv'
    BY <1>2, <2>1, AudienceSame DEF Has
  <2> QED BY <1>8, <2>4, <2>6, <2>7 DEF MailRest
<1>11. ASSUME n = "monitor" PROVE MailRest'
  <2>1. monitor = me /\ monitor' = x /\ async' = async
    BY <1>1, <1>7, <1>11, GoesFact DEF monitor
  <2>2. me.msg = Event(nevt)
    BY <1>2, <2>1 DEF IInv, ThreadsInv
  <2>3. ThreadsInv'
    BY <1>2, <1>3, <1>6, <2>1, <2>2, MsgFacts DEF IInv, ThreadsInv, Asked, Home
  <2>4. MailInv' /\ PipeInv' /\ QueueInv' /\ GotInv' /\ InOrder'
    BY <1>2, <2>1, ThreadFrame DEF Before, NotOwed, Unsent
  <2>5. AudienceInv'
    <3> SUFFICES ASSUME NEW e \in 1..nevt, NEW k \in audience[e]
                 PROVE  k \in Conns /\ (conn[k] # "closed" =>
                           \E c \in Ctxs : sock[c] = k /\ (ToCome(e, c)' \/ Has(k, c, e)'))
      BY <1>2 DEF AudienceInv
    <3>1. k \in Conns /\ (conn[k] # "closed" =>
                           \E c \in Ctxs : sock[c] = k /\ (ToCome(e, c) \/ Has(k, c, e)))
      BY DEF IInv, AudienceInv
    <3>2. \A c : Has(k, c, e) => Has(k, c, e)'
      BY <1>2 DEF Has
    <3>3. ASSUME NEW c \in Ctxs, conn[k] # "closed", sock[c] = k, ToCome(e, c) PROVE ToCome(e, c)'
      <4>1. me.msg = Event(e) /\ me.cnt <= c
        BY <1>2, <1>3, <2>1, <3>3 DEF ToCome, Ctxs
      <4>2. using[c] /\ me.msg.kind = "event"
        <5>1. k # "none"
          BY <3>1, ConnsAssumption
        <5> QED BY <2>2, <3>3, <5>1 DEF IInv, ServeInv, Event
      <4>3. Wanted(me.msg, me.cnt) \/ me.cnt < c
        BY <1>3, <4>1, <4>2 DEF Wanted, Ctxs
      <4>4. CASE Wanted(me.msg, me.cnt)
        BY <1>2, <1>6, <2>1, <3>3, <4>1, <4>4 DEF ToCome
      <4>5. CASE ~Wanted(me.msg, me.cnt)
        BY <1>3, <1>6, <2>1, <4>1, <4>3, <4>5, NCtxAssumption DEF ToCome, Ctxs
      <4> QED BY <4>4, <4>5
    <3> QED BY <3>1, <3>2, <3>3
  <2> QED BY <1>8, <2>3, <2>4, <2>5 DEF MailRest
<1>12. MailRest'
  BY <1>10, <1>11 DEF Notifiers
<1>13. NoticeInv'
  <2>1. \A d \in Ctxs : AboutToSend(d) => AboutToSend(d)'
    BY <1>1, <1>2, <1>7, GoesFact DEF AboutToSend
  <2> QED BY <1>2, <2>1, NoticeSame
<1> QED BY <1>2, <1>12, <1>13, PoolSame, Parts DEF PoolRest

(* The message is put into the mailbox. *)
LEMMA PushStep ==
    ASSUME IInv, NEW n \in Notifiers, NotifyPush(n)
    PROVE  IInv'
<1>1. PICK me, c, m : me = notifier[n] /\ c = me.cnt /\ m = me.msg
  OBVIOUS
<1>2. /\ me.pc = "push" /\ queue' = [queue EXCEPT ![c] = Append(queue[c], m)]
      /\ notifier' = [notifier EXCEPT ![n].pc = "send"]
      /\ UNCHANGED <<using, sock, bound, handler, listener, conn, dgrams, deaf, overlap>>
      /\ UNCHANGED <<acts, received, audience, nreq, nevt>>
  BY <1>1 DEF NotifyPush, pool, clients, work
<1>3. me \in NotifierType /\ c \in Ctxs
  BY <1>1, <1>2, AtContext
<1>4. PICK x : x = [me EXCEPT !.pc = "send"]
  OBVIOUS
<1>5. x \in NotifierType /\ x.pc = "send" /\ x.msg = m /\ x.cnt = c
  BY <1>1, <1>3, <1>4 DEF NotifierType
<1>6. Goes(n, x) /\ TypeOK
  BY <1>1, <1>2, <1>4, <1>5 DEF Goes, IInv
<1>7. queue \in [Ctxs -> Seq(Msg)] /\ queue[c] \in Seq(Msg) /\ m \in Msg
  BY <1>1, <1>3, <1>6, TypeFacts DEF NotifierType
<1>8. PICK q : q = Append(queue[c], m)
  OBVIOUS
<1>9. /\ q \in Seq(Msg) /\ DOMAIN queue[c] = 1..Len(queue[c]) /\ Len(queue[c]) \in Nat
      /\ Len(queue[c]) + 1 \in DOMAIN q /\ q[Len(queue[c]) + 1] = m
      /\ \A i \in DOMAIN queue[c] : i \in DOMAIN q /\ q[i] = queue[c][i]
      /\ \A i \in DOMAIN q : \/ i = Len(queue[c]) + 1 /\ q[i] = m
                             \/ i \in DOMAIN queue[c] /\ q[i] = queue[c][i] /\ i < Len(queue[c]) + 1
  BY <1>7, <1>8, AppendFact
<1>10. /\ queue' \in [Ctxs -> Seq(Msg)] /\ queue'[c] = q
       /\ \A d \in Ctxs : d # c => queue'[d] = queue[d]
  BY <1>2, <1>3, <1>7, <1>8, <1>9
<1>11. \A d \in Ctxs :
         /\ \A i \in DOMAIN queue[d] : i \in DOMAIN queue'[d] /\ queue'[d][i] = queue[d][i]
         /\ \A i \in DOMAIN queue'[d] :
               \/ i \in DOMAIN queue[d] /\ queue'[d][i] = queue[d][i]
               \/ /\ d = c /\ queue'[d][i] = m
                  /\ \A h \in DOMAIN queue'[d] : h = i \/ (h < i /\ h \in DOMAIN queue[d])
  BY <1>9, <1>10
<1>12. TypeMail'
  BY <1>2, <1>6, <1>10, GoesFact, TypeParts DEF TypeMail
<1>13. \A z : Asked(z)' <=> Asked(z)
  BY <1>2 DEF Asked, Home
<1>14. MailInv /\ QueueInv /\ GotInv /\ PipeInv
  BY DEF IInv
<1>15. ASSUME EventMsg(m) \/ (Asked(m) /\ m.ctx = c) PROVE MailInv'
  <2>1. \A d \in Ctxs : \A i \in DOMAIN queue'[d] :
          EventMsg(queue'[d][i]) \/ (Asked(queue'[d][i]) /\ queue'[d][i].ctx = d)
    BY <1>11, <1>14, <1>15 DEF MailInv
  <2>2. \A i \in DOMAIN acts : Asked(acts[i])
    BY <1>14 DEF MailInv
  <2>3. \A k \in Conns : \A i \in DOMAIN received[k] :
          \/ EventMsg(received[k][i])
          \/ Asked(received[k][i])
          \/ received[k][i].kind = "direct" /\ received[k][i].from = k /\ received[k][i].n \in 1..nreq
    BY <1>14 DEF MailInv
  <2> QED BY <1>2, <2>1, <2>2, <2>3 DEF MailInv, EventMsg, Asked, Home
<1>16. InOrder'
  BY <1>2 DEF IInv, InOrder
<1>17. \A k, d, e : d \in Ctxs /\ Has(k, d, e) => Has(k, d, e)'
  BY <1>2, <1>11 DEF Has
<1>18. ASSUME n = "async" PROVE MailRest'
  <2>1. async = me /\ async' = x /\ monitor' = monitor
    BY <1>1, <1>6, <1>18, GoesFact DEF async
  <2>2. Asked(m) /\ m.kind = "reply" /\ m.ctx = c /\ m.n \in 1..nreq
    BY <1>1, <1>2, <2>1 DEF IInv, ThreadsInv, Asked
  <2>3. ThreadsInv'
    BY <1>2, <1>3, <1>5, <1>13, <2>1, <2>2 DEF IInv, ThreadsInv, Asked, Home
  <2>4. Unsent /\ ~Unsent'
    BY <1>1, <1>2, <1>3, <1>5, <2>1, <2>2 DEF Unsent, Ctxs
  <2>5. \A z : Before(z) => Before(z)' /\ z < m.n
    BY <1>1, <1>2, <1>5, <2>1, <2>4 DEF Before
  <2>6. Before(m.n)'
    BY <1>1, <1>2, <1>5, <1>14, <2>1, <2>2, <2>4 DEF Before, PipeInv
  <2>7. PipeInv'
    BY <1>1, <1>2, <1>5, <1>14, <2>1 DEF PipeInv
  <2>8. QueueInv'
    <3> SUFFICES ASSUME NEW d \in Ctxs, NEW i \in DOMAIN queue'[d], queue'[d][i].kind = "reply"
                 PROVE  /\ Before(queue[d][i].n)'
                        /\ \A j \in DOMAIN queue'[d] : i < j /\ queue'[d][j].kind = "reply" =>
                              queue'[d][i].n < queue'[d][j].n
      BY DEF QueueInv
    <3>1. CASE queue'[d][i] = m /\ \A h \in DOMAIN queue'[d] : h = i \/ (h < i /\ h \in DOMAIN queue[d])
      <4>1. i \in Int /\ \A j \in DOMAIN queue'[d] : j \in Int
        BY <1>10
      <4>2. Before(queue[d][i].n)'
        BY <2>6, <3>1 DEF Before, Unsent
      <4> QED BY <3>1, <4>1, <4>2
    <3>2. CASE i \in DOMAIN queue[d] /\ queue'[d][i] = queue[d][i]
      <4>1. Before(queue[d][i].n)
        BY <1>14, <3>2 DEF QueueInv
      <4>2. Before(queue[d][i].n)' /\ queue[d][i].n < m.n
        BY <2>5, <3>2, <4>1 DEF Before, Unsent
      <4> QED BY <1>11, <1>14, <3>2, <4>2 DEF QueueInv
    <3> QED BY <1>11, <3>1, <3>2
  <2>9. GotInv'
    <3>0. received' = received
      BY <1>2
    <3> SUFFICES ASSUME NEW k \in Conns, NEW i \in DOMAIN received[k]
                 PROVE  /\ received[k][i].kind = "reply" =>
                              /\ Before(received[k][i].n)'
                              /\ \A j \in DOMAIN queue'[received[k][i].ctx] :
                                    queue'[received[k][i].ctx][j].kind = "reply" =>
                                        received[k][i].n < queue'[received[k][i].ctx][j].n
                        /\ received[k][i].kind = "direct" => NotOwed(received[k][i].n)'
      BY <3>0 DEF GotInv
    <3>1. ASSUME received[k][i].kind = "reply"
          PROVE  /\ Before(received[k][i].n)'
                 /\ \A j \in DOMAIN queue'[received[k][i].ctx] :
                       queue'[received[k][i].ctx][j].kind = "reply" =>
                           received[k][i].n < queue'[received[k][i].ctx][j].n
      <4>1. received[k][i].ctx \in Ctxs /\ Before(received[k][i].n)
        BY <1>14, <3>1, KindFacts DEF GotInv
      <4>2. Before(received[k][i].n)' /\ received[k][i].n < m.n
        BY <1>2, <2>5, <4>1 DEF Before, Unsent
      <4> QED BY <1>11, <1>14, <3>1, <4>1, <4>2 DEF GotInv
    <3>2. ASSUME received[k][i].kind = "direct" PROVE NotOwed(received[k][i].n)'
      <4>1. NotOwed(received[k][i].n)
        BY <1>14, <3>2 DEF GotInv
      <4>2. received[k][i].n # m.n
        BY <1>1, <1>2, <2>1, <4>1 DEF NotOwed
      <4> QED BY <1>1, <1>2, <1>5, <1>11, <2>1, <4>1, <4>2 DEF NotOwed
    <3> QED BY <3>1, <3>2
  <2>10. AudienceInv'
    BY <1>2, <1>17, <2>1, AudienceSame
  <2> QED BY <1>12, <1>15, <1>16, <2>2, <2>3, <2>7, <2>8, <2>9, <2>10 DEF MailRest
<1>19. ASSUME n = "monitor" PROVE MailRest'
  <2>1. monitor = me /\ monitor' = x /\ async' = async
    BY <1>1, <1>6, <1>19, GoesFact DEF monitor
  <2>2. m = Event(nevt) /\ EventMsg(m) /\ m.kind = "event"
    <3>1. m = Event(nevt) /\ nevt \in Nat
      BY <1>1, <1>2, <1>6, <2>1, TypeFacts DEF IInv, ThreadsInv
    <3> QED BY <3>1, MsgFacts DEF EventMsg
  <2>3. ThreadsInv'
    BY <1>1, <1>2, <1>3, <1>5, <2>1, <2>2 DEF IInv, ThreadsInv, Asked, Home
  <2>4. \A z : (Before(z)' <=> Before(z)) /\ (NotOwed(z) => NotOwed(z)')
    BY <1>2, <1>11, <2>1, <2>2 DEF Before, NotOwed, Unsent
  <2>5. PipeInv'
    BY <1>2, <1>14, <2>1 DEF PipeInv
  <2>6. QueueInv'
    BY <1>11, <1>14, <2>2, <2>4 DEF QueueInv
  <2>7. GotInv'
    <3> SUFFICES ASSUME NEW k \in Conns, NEW i \in DOMAIN received[k]
                 PROVE  /\ received[k][i].kind = "reply" =>
                              /\ Before(received[k][i].n)
                              /\ \A j \in DOMAIN queue'[received[k][i].ctx] :
                                    queue'[received[k][i].ctx][j].kind = "reply" =>
                                        received[k][i].n < queue'[received[k][i].ctx][j].n
                        /\ received[k][i].kind = "direct" => NotOwed(received[k][i].n)
      BY <1>2, <2>4 DEF GotInv
    <3>1. received[k][i].kind = "reply" => received[k][i].ctx \in Ctxs
      BY KindFacts
    <3> QED BY <1>11, <1>14, <2>2, <3>1 DEF GotInv
  <2>8. AudienceInv'
    <3> SUFFICES ASSUME NEW e \in 1..nevt, NEW k \in audience[e]
                 PROVE  k \in Conns /\ (conn[k] # "closed" =>
                           \E d \in Ctxs : sock[d] = k /\ (ToCome(e, d)' \/ Has(k, d, e)'))
      BY <1>2 DEF AudienceInv
    <3>1. k \in Conns /\ (conn[k] # "closed" =>
                           \E d \in Ctxs : sock[d] = k /\ (ToCome(e, d) \/ Has(k, d, e)))
      BY DEF IInv, AudienceInv
    <3>2. ASSUME NEW d \in Ctxs, ToCome(e, d) PROVE ToCome(e, d)' \/ Has(k, d, e)'
      <4>1. m = Event(e) /\ (c < d \/ c = d)
        BY <1>1, <2>1, <3>2 DEF ToCome
      <4>2. CASE c < d
        BY <1>5, <2>1, <4>1, <4>2 DEF ToCome
      <4>3. CASE c = d
        BY <1>9, <1>10, <4>1, <4>3 DEF Has
      <4> QED BY <4>1, <4>2, <4>3
    <3> QED BY <1>17, <3>1, <3>2
  <2> QED BY <1>12, <1>15, <1>16, <2>2, <2>3, <2>5, <2>6, <2>7, <2>8 DEF MailRest
<1>20. MailRest'
  BY <1>18, <1>19 DEF Notifiers
<1>21. NoticeInv'
  <2>1. \A d \in Ctxs : AboutToSend(d) => AboutToSend(d)'
    BY <1>1, <1>2, <1>6, GoesFact DEF AboutToSend
  <2>2. AboutToSend(c)'
    BY <1>5, <1>6, GoesFact DEF AboutToSend
  <2>3. ASSUME NEW d \in Ctxs \ deaf, queue'[d] # <<>>
        PROVE  /\ handler[d] = "none" => AboutToSend(d)'
               /\ handler[d] = "select" /\ conn[sock[d]] # "closed" => dgrams[d] > 0 \/ AboutToSend(d)'
    <3>1. CASE d # c
      BY <1>10, <2>1, <2>3, <3>1 DEF IInv, NoticeInv
    <3> QED BY <2>2, <3>1
  <2> QED BY <1>2, <2>3 DEF NoticeInv
<1> QED BY <1>2, <1>20, <1>21, PoolSame, Parts DEF PoolRest

(* The datagram is sent, if there is a socket to send it to. *)
LEMMA SendStep ==
    ASSUME IInv, NEW n \in Notifiers, NotifySend(n)
    PROVE  IInv'
<1>1. PICK me, c, x : me = notifier[n] /\ c = me.cnt /\ x = Advance(me)
  OBVIOUS
<1>2. /\ me.pc = "send" /\ Room(c)
      /\ dgrams' = IF bound[c] THEN [dgrams EXCEPT ![c] = dgrams[c] + 1] ELSE dgrams
      /\ deaf' = IF bound[c] THEN deaf ELSE deaf \cup {c}
      /\ notifier' = [notifier EXCEPT ![n] = x]
      /\ UNCHANGED <<using, sock, bound, handler, listener, conn, overlap>>
      /\ UNCHANGED <<queue, acts, received, audience, nreq, nevt>>
  BY <1>1 DEF NotifySend, SendsDatagram, pool, clients, work
<1>3. me \in NotifierType /\ c \in Ctxs
  BY <1>1, <1>2, AtContext
<1>4. /\ x \in NotifierType
      /\ \/ c < NCtx /\ x.pc = "scan" /\ x.msg = me.msg /\ x.cnt = c + 1 /\ x.cnt \in Ctxs
         \/ c = NCtx /\ x = Returned
  BY <1>1, <1>3, AdvanceFact
<1>5. Goes(n, x) /\ TypeOK
  BY <1>2, <1>4 DEF Goes, IInv
<1>6. TypeMail'
  BY <1>2, <1>5, GoesFact, TypeParts DEF TypeMail
<1>7. \A m : Asked(m)' <=> Asked(m)
  BY <1>2 DEF Asked, Home
<1>8. ASSUME n = "async" PROVE MailRest'
  <2>1. async = me /\ async' = x /\ monitor' = monitor
    BY <1>1, <1>5, <1>8, GoesFact DEF async
  <2>2. Asked(me.msg) /\ me.msg.ctx = c
    BY <1>1, <1>2, <2>1 DEF IInv, ThreadsInv
  <2>3. ThreadsInv'
    BY <1>2, <1>4, <1>7, <2>1, <2>2, MsgFacts DEF IInv, ThreadsInv, Asked, Home
  <2>4. ~Unsent'
    BY <1>3, <1>4, <2>1, <2>2, MsgFacts DEF Unsent, Ctxs
  <2>5. MailInv' /\ PipeInv' /\ QueueInv' /\ GotInv' /\ InOrder'
    BY <1>2, <1>4, <2>1, <2>4, AsyncGoes
  <2>6. AudienceInv'
    BY <1>2, <2>1, AudienceSame DEF Has
  <2> QED BY <1>6, <2>3, <2>5, <2>6 DEF MailRest
<1>9. ASSUME n = "monitor" PROVE MailRest'
  <2>1. monitor = me /\ monitor' = x /\ async' = async
    BY <1>1, <1>5, <1>9, GoesFact DEF monitor
  <2>2. me.msg = Event(nevt)
    BY <1>2, <2>1 DEF IInv, ThreadsInv
  <2>3. ThreadsInv'
    BY <1>2, <1>4, <2>1, <2>2, MsgFacts DEF IInv, ThreadsInv, Asked, Home
  <2>4. MailInv' /\ PipeInv' /\ QueueInv' /\ GotInv' /\ InOrder'
    BY <1>2, <2>1, ThreadFrame DEF Before, NotOwed, Unsent
  <2>5. AudienceInv'
    <3> SUFFICES ASSUME NEW e \in 1..nevt, NEW k \in audience[e]
                 PROVE  k \in Conns /\ (conn[k] # "closed" =>
                           \E d \in Ctxs : sock[d] = k /\ (ToCome(e, d)' \/ Has(k, d, e)'))
      BY <1>2 DEF AudienceInv
    <3>1. k \in Conns /\ (conn[k] # "closed" =>
                           \E d \in Ctxs : sock[d] = k /\ (ToCome(e, d) \/ Has(k, d, e)))
      BY DEF IInv, AudienceInv
    <3>2. \A d : Has(k, d, e) => Has(k, d, e)'
      BY <1>2 DEF Has
    <3>3. ASSUME NEW d \in Ctxs, ToCome(e, d) PROVE ToCome(e, d)'
      <4>1. me.msg = Event(e) /\ c < d
        BY <1>1, <1>2, <2>1, <3>3 DEF ToCome
      <4> QED BY <1>3, <1>4, <2>1, <4>1, NCtxAssumption DEF ToCome, Ctxs
    <3> QED BY <3>1, <3>2, <3>3
  <2> QED BY <1>6, <2>3, <2>4, <2>5 DEF MailRest
<1>10. MailRest'
  BY <1>8, <1>9 DEF Notifiers
<1>11. TypePool /\ ServeInv /\ NoticeInv
  BY Parts DEF PoolRest
<1>12. dgrams' \in [Ctxs -> 0..SockCap]
  <2>1. dgrams \in [Ctxs -> 0..SockCap]
    BY <1>11 DEF TypePool
  <2>2. CASE bound[c]
    <3>1. dgrams[c] + 1 \in 0..SockCap
      BY <1>2, <1>3, <2>1, <2>2, SockCapAssumption DEF Room
    <3> QED BY <1>2, <2>1, <2>2, <3>1
  <2> QED BY <1>2, <2>1, <2>2
<1>13. TypePool'
  BY <1>2, <1>3, <1>11, <1>12 DEF TypePool
<1>14. ServeInv'
  BY <1>2, <1>11 DEF ServeInv
<1>15. NoticeInv'
  <2>1. \A d \in Ctxs : d # c /\ AboutToSend(d) => AboutToSend(d)'
    BY <1>1, <1>5, GoesFact DEF AboutToSend
  <2>2. ASSUME NEW d \in Ctxs \ deaf', queue[d] # <<>>
        PROVE  /\ handler[d] = "none" => AboutToSend(d)'
               /\ handler[d] = "select" /\ conn[sock[d]] # "closed" => dgrams'[d] > 0 \/ AboutToSend(d)'
    <3>1. CASE d = c
      <4>1. bound[c]
        BY <1>2, <2>2, <3>1
      <4>2. dgrams'[c] > 0 /\ handler[c] # "none"
        <5>1. dgrams[c] \in Nat /\ dgrams \in [Ctxs -> 0..SockCap]
          BY <1>3, <1>11 DEF TypePool
        <5> QED BY <1>2, <1>3, <1>11, <4>1, <5>1 DEF ServeInv
      <4> QED BY <3>1, <4>2
    <3>2. CASE d # c
      <4>1. dgrams'[d] = dgrams[d] /\ d \notin deaf
        BY <1>2, <1>3, <1>11, <2>2, <3>2 DEF TypePool
      <4> QED BY <1>11, <2>1, <2>2, <3>2, <4>1 DEF NoticeInv
    <3> QED BY <3>1, <3>2
  <2> QED BY <1>2, <2>2 DEF NoticeInv
<1> QED BY <1>10, <1>13, <1>14, <1>15, Parts DEF PoolRest

-----------------------------------------------------------------------------
(* Every step of the system keeps the invariant. *)
LEMMA IStep == IInv /\ [Next]_vars => IInv'
<1> SUFFICES ASSUME IInv, [Next]_vars PROVE IInv'
  OBVIOUS
<1>1. ASSUME NEW k \in Conns, Accept(k) PROVE IInv'
  BY <1>1, AcceptStep
<1>2. ASSUME NEW k \in Conns, Refuse(k) PROVE IInv'
  <2>1. \A c \in Ctxs : sock[c] # k
    BY <1>2 DEF Refuse, IInv, ServeInv
  <2> QED BY <1>2, <2>1, ConnStep DEF Refuse
<1>3. ASSUME NEW k \in Conns, ClientCloses(k) PROVE IInv'
  <2>1. conn[k] # "closed" /\ conn[k] # "new" /\ conn' = [conn EXCEPT ![k] = "closed"]
        /\ UNCHANGED <<pool, mail, received, work, notifier, overlap>>
    BY <1>3 DEF ClientCloses
  <2> QED BY <2>1, ConnStep
<1>4. ASSUME NEW k \in Askers, ClientStalls(k) PROVE IInv'
  <2>1. PICK x : x = IF conn[k] = "open" THEN "stalled" ELSE "open"
    OBVIOUS
  <2>2. /\ k \in Conns /\ x \in {"open", "stalled", "closed"}
        /\ conn[k] # "closed" /\ conn[k] # "new" /\ conn' = [conn EXCEPT ![k] = x]
        /\ UNCHANGED <<pool, mail, received, work, notifier, overlap>>
    BY <1>4, <2>1, ConnsAssumption DEF ClientStalls
  <2> QED BY <2>2, ConnStep
<1>5. CASE BindAndStart
  BY <1>5, BindStep
<1>6. ASSUME NEW c \in Ctxs, Handler(c) PROVE IInv'
  BY <1>6, RequestStep, AnswersStep, PutStep, HandlerStep, WritesStep DEF Handler, HandlerRuns
<1>7. CASE AnswerRequest \/ RaiseEvent
  BY <1>7, AnswerStep, RaiseStep
<1>8. ASSUME NEW n \in Notifiers, Notify(n) PROVE IInv'
  BY <1>8, ScanStep, PushStep, SendStep DEF Notify
<1>9. CASE UNCHANGED vars
  <2>1. /\ UNCHANGED <<using, sock, bound, handler, listener, conn, dgrams, deaf, overlap>>
        /\ UNCHANGED <<queue, acts, notifier, received, audience, nreq, nevt>>
    BY <1>9 DEF vars, pool, mail, clients, work
  <2>2. MailRest'
    BY <2>1, PoolFrame DEF Stable
  <2>3. TypePool' /\ ServeInv'
    BY <2>1, PoolSame
  <2>4. NoticeInv'
    BY <2>1, NoticeSame DEF AboutToSend
  <2> QED BY <2>2, <2>3, <2>4, Parts DEF PoolRest
<1> QED BY <1>1, <1>2, <1>3, <1>4, <1>5, <1>6, <1>7, <1>8, <1>9 DEF Next

LEMMA Invariance == Spec => []IInv
  BY IInit, IStep, PTL DEF Spec

(* A pad has the answers to its own requests only, and to those of pads    *)
(* that have left: what a handler pops is for its context, and the context *)
(* is with the pad that asked until that pad has left.                     *)
HomeInv ==
    \A k \in Conns : \A i \in DOMAIN received[k] :
        received[k][i].kind = "reply" => received[k][i].from = k \/ conn[received[k][i].from] = "closed"

LEMMA HomeInit == Init => HomeInv
  BY DEF Init, HomeInv

LEMMA HomeStep == IInv /\ HomeInv /\ [Next]_vars => HomeInv'
<1> SUFFICES ASSUME IInv, HomeInv, [Next]_vars PROVE HomeInv'
  OBVIOUS
<1>1. conn \in [Conns -> {"new", "open", "stalled", "closed"}]
  BY Parts DEF PoolRest, TypePool
<1>2. \A k \in Conns : \A i \in DOMAIN received[k] :
         received[k][i].kind = "reply" => received[k][i].from \in Conns
  BY KindFacts DEF Asked
<1>3. ASSUME UNCHANGED received, \A k \in Conns : conn[k] = "closed" => conn'[k] = "closed"
      PROVE  HomeInv'
  BY <1>2, <1>3 DEF HomeInv
<1>4. ASSUME NEW k \in Conns, Accept(k) \/ Refuse(k) \/ ClientCloses(k) PROVE HomeInv'
  BY <1>1, <1>3, <1>4 DEF Accept, Refuse, ClientCloses
<1>5. ASSUME NEW k \in Askers, ClientStalls(k) PROVE HomeInv'
  <2>1. k \in Conns
    BY ConnsAssumption
  <2> QED BY <1>1, <1>3, <1>5, <2>1 DEF ClientStalls
<1>6. CASE BindAndStart \/ AnswerRequest \/ RaiseEvent
  BY <1>3, <1>6 DEF BindAndStart, AnswerRequest, RaiseEvent, clients
<1>7. ASSUME NEW n \in Notifiers, Notify(n) PROVE HomeInv'
  BY <1>3, <1>7 DEF Notify, NotifyScan, NotifyPush, NotifySend, clients
<1>8. CASE UNCHANGED vars
  BY <1>3, <1>8 DEF vars, clients
<1>9. ASSUME NEW c \in Ctxs, HandlerRequest(c) \/ HandlerEof(c) \/ PutContext(c) \/ HandlerNotified(c)
                             \/ HandlerDrained(c)
      PROVE  HomeInv'
  BY <1>3, <1>9 DEF HandlerRequest, HandlerEof, PutContext, HandlerNotified, HandlerDrained, clients
<1>10. ASSUME NEW c \in Ctxs, NEW m \in Msg, sock[c] \in Conns, UNCHANGED conn,
              received' = [received EXCEPT ![sock[c]] = Append(received[sock[c]], m)],
              m.kind = "reply" => m.from = sock[c] \/ conn[m.from] = "closed"
       PROVE  HomeInv'
  <2>1. PICK k, q : k = sock[c] /\ q = Append(received[k], m)
    OBVIOUS
  <2>2. received \in [Conns -> Seq(Msg)] /\ k \in Conns /\ received[k] \in Seq(Msg)
    BY <1>10, <2>1, TypeFacts DEF IInv
  <2>3. \A i \in DOMAIN q : q[i] = m \/ (i \in DOMAIN received[k] /\ q[i] = received[k][i])
    BY <1>10, <2>1, <2>2, AppendFact
  <2>4. received'[k] = q /\ \A j \in Conns : j # k => received'[j] = received[j]
    BY <1>10, <2>1, <2>2
  <2>5. ASSUME NEW j \in Conns, NEW i \in DOMAIN received'[j], received'[j][i].kind = "reply"
        PROVE  received'[j][i].from = j \/ conn[received'[j][i].from] = "closed"
    <3>1. CASE j # k
      BY <2>4, <2>5, <3>1 DEF HomeInv
    <3>2. CASE j = k /\ q[i] = m
      BY <1>10, <2>1, <2>4, <2>5, <3>2
    <3>3. CASE j = k /\ i \in DOMAIN received[k] /\ q[i] = received[k][i]
      BY <2>4, <2>5, <3>3 DEF HomeInv
    <3> QED BY <2>3, <2>4, <2>5, <3>1, <3>2, <3>3
  <2> QED BY <1>10, <2>5 DEF HomeInv
<1>11. ASSUME NEW c \in Ctxs, HandlerAnswers(c) PROVE HomeInv'
  <2>1. PICK m : m = Direct(nreq + 1, c, sock[c])
    OBVIOUS
  <2>2. sock[c] \in Conns
    BY <1>11, ConnsAssumption DEF HandlerAnswers
  <2>3. nreq + 1 \in Nat
    BY TypeFacts DEF IInv
  <2>4. m \in Msg /\ m.kind # "reply"
    <3>1. m.kind = "direct"
      BY <2>1 DEF Direct
    <3> QED BY <2>1, <2>2, <2>3, <3>1, MsgFacts
  <2>5. CASE received' = received
    BY <1>3, <1>11, <2>5 DEF HandlerAnswers
  <2>6. CASE received' = [received EXCEPT ![sock[c]] = Append(received[sock[c]], m)]
    BY <1>10, <1>11, <2>2, <2>4, <2>6 DEF HandlerAnswers
  <2> QED BY <1>11, <2>1, <2>5, <2>6 DEF HandlerAnswers
<1>12. ASSUME NEW c \in Ctxs, HandlerWrites(c) PROVE HomeInv'
  <2>1. PICK m : m = Head(queue[c])
    OBVIOUS
  <2>2. queue[c] # <<>> /\ handler[c] = "drain"
    BY <1>12 DEF HandlerWrites
  <2>3. sock[c] \in Conns
    BY <2>2 DEF IInv, ServeInv
  <2>4. m \in Msg /\ 1 \in DOMAIN queue[c] /\ m = queue[c][1]
    <3>1. queue[c] \in Seq(Msg)
      BY TypeFacts DEF IInv
    <3> QED BY <2>1, <2>2, <3>1, QueueFact
  <2>5. m.kind = "reply" => m.from = sock[c] \/ conn[m.from] = "closed"
    <3> SUFFICES ASSUME m.kind = "reply" PROVE m.from = sock[c] \/ conn[m.from] = "closed"
      OBVIOUS
    <3>1. Asked(m) /\ m.ctx = c
      BY <2>4, KindFacts
    <3> QED BY <3>1 DEF Asked, Home
  <2>6. CASE received' = received
    BY <1>3, <1>12, <2>6 DEF HandlerWrites
  <2>7. CASE received' = [received EXCEPT ![sock[c]] = Append(received[sock[c]], m)]
    BY <1>10, <1>12, <2>3, <2>4, <2>5, <2>7 DEF HandlerWrites
  <2> QED BY <1>12, <2>1, <2>6, <2>7 DEF HandlerWrites, NextOut
<1> QED BY <1>4, <1>5, <1>6, <1>7, <1>8, <1>9, <1>11, <1>12 DEF Next, Handler, HandlerRuns

-----------------------------------------------------------------------------
(* Every variable of the client pool has its type, in every behaviour. *)
THEOREM TypeCorrect == Spec => []TypeOK
<1>1. IInv => TypeOK
  BY DEF IInv
<1> QED BY <1>1, Invariance, PTL

(* The answer to a pad that is still connected goes to that pad and to     *)
(* nobody else, although put_client_context leaves the queue of a context  *)
(* to its next connection.                                                 *)
THEOREM HomeCorrect == Spec => []AnswersGoHome
<1>1. HomeInv => AnswersGoHome
  BY DEF HomeInv, AnswersGoHome, Got
<1> QED BY <1>1, Invariance, HomeInit, HomeStep, PTL DEF Spec

(* A pad gets the answers of the asynchronous thread in the order of its   *)
(* requests, each at most once.                                            *)
THEOREM OrderCorrect == Spec => []AnswersInOrder
<1>1. InOrder => AnswersInOrder
  BY DEF InOrder, AnswersInOrder
<1>2. IInv => InOrder
  BY DEF IInv
<1> QED BY <1>1, <1>2, Invariance, PTL

(* When notify_resp has returned, the event is with every pad that was     *)
(* being served when it was raised and still is.                           *)
THEOREM EventsCorrect == Spec => []EventsReachAll
<1>1. IInv => EventsReachAll
  <2> SUFFICES ASSUME AudienceInv, NEW e \in 1..nevt, NEW k \in audience[e],
                      ~InFlight(Event(e)), conn[k] # "closed"
               PROVE  \/ Event(e) \in Got(k)
                      \/ \E c \in Ctxs : sock[c] = k /\ \E i \in DOMAIN queue[c] : queue[c][i] = Event(e)
    BY DEF IInv, EventsReachAll
  <2>1. PICK c \in Ctxs : sock[c] = k /\ (ToCome(e, c) \/ Has(k, c, e))
    BY DEF AudienceInv
  <2>2. ~ToCome(e, c)
    BY DEF ToCome, InFlight, monitor, Notifiers
  <2> QED BY <2>1, <2>2 DEF Has, Got
<1> QED BY <1>1, Invariance, PTL

(* A handler never sleeps on a message that came while its socket was      *)
(* bound: a datagram is there, or notify_resp is about to send one.        *)
THEOREM NoticeCorrect == Spec => []NoMessageUnannounced
<1>1. IInv => NoMessageUnannounced
  BY DEF IInv, NoticeInv, NoMessageUnannounced, AboutToSend
<1> QED BY <1>1, Invariance, PTL
=============================================================================
