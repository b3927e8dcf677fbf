------------------------------ MODULE TcpFraming ------------------------------
(***************************************************************************)
(* How tcp_client_handler of core_daemon/network.c cuts the bytes of a pad *)
(* into packets, and what deal_tcp_packet makes of each.                   *)
(*                                                                         *)
(* A packet starts with its command and its length in bytes, 16 bits each, *)
(* and all fields are multiples of 16 bits, so that a stream is a sequence *)
(* of 16-bit halves.  TCP keeps their order and nothing else: a read may   *)
(* bring several packets, or a part of one.  The handler keeps nothing of  *)
(* a read for the next one, except that its buffer is not cleared: what it *)
(* looks at beyond the bytes of a read is left over from earlier ones.     *)
(***************************************************************************)
EXTENDS Integers, Sequences, FiniteSetsExt

CONSTANTS
    Packets,    \* the packets a pad may send, as sequences of halves
    Strays,     \* halves that memory nobody has written may hold
    BufSize,    \* sizeof(msg) in bytes: 1024
    MaxStatus,  \* length of the arrays of HSB_STATUS_T: 8
    WordSize,   \* 2^32: num of HSB_STATUS_T is a uint32_t
    MaxPackets, \* bound: packets sent
    MaxNotes    \* bound: notifications

(* The codes of net_protocol.h and hsb_device.h, in decimal. *)
HSB_CMD_BOX_DISCOVER == 34817
HSB_CMD_GET_STATUS == 34849
HSB_CMD_SET_STATUS == 34851
HSB_CMD_PROBE_DEV == 34913
HSB_CMD_DO_ACTION == 34945
HSB_CMD_LAST == 34978
HSB_ACT_TYPE_REMOTE_CONTROL == 1

(* 16 bits. *)
UINT16_MAX == 65535
Half == 0..UINT16_MAX

HSB_CMD_VALID(c) == c >= HSB_CMD_BOX_DISCOVER /\ c < HSB_CMD_LAST

ASSUME SizesAssumption ==
    /\ BufSize \in Nat \ {0} /\ BufSize % 4 = 0
    /\ MaxStatus \in Nat \ {0} /\ WordSize \in Nat /\ WordSize > MaxStatus
ASSUME BoundsAssumption == {MaxPackets, MaxNotes} \subseteq Nat
ASSUME StraysAssumption == Strays \subseteq Half
(* Pads keep to the protocol: the length is right, a multiple of four, and *)
(* a packet fits the buffer.                                               *)
ASSUME PacketsAssumption ==
    \A p \in Packets :
        /\ p \in Seq(Half) /\ Len(p) >= 2
        /\ HSB_CMD_VALID(p[1]) /\ p[2] = 2 * Len(p)
        /\ p[2] % 4 = 0 /\ p[2] <= BufSize
        /\ p[1] = HSB_CMD_SET_STATUS => p[2] >= 8
        /\ p[1] = HSB_CMD_DO_ACTION => p[2] >= 16

VARIABLES
    sent,       \* the packets the pad has sent, in order
    stream,     \* the halves of them that the handler has not read
    open,       \* whether the pad still holds its end open
    handler,    \* where tcp_client_handler is: select, deal, spins or ended
    msg,        \* the handler's buffer, as far as it was ever written
    nread,      \* bytes of the current read
    nwrite,     \* bytes of it that deal_tcp_packet has used up
    notes,      \* notifications received
    done,       \* the commands carried out, with where they were found
    ends,       \* history: where packet i ends in the stream; i + 1 starts there
    base,       \* history: bytes read before the current read
    due         \* history: the packets a reader of the protocol would serve

vars == <<sent, stream, open, handler, msg, nread, nwrite, notes, done, ends,
          base, due>>

Boundaries == { ends[i] : i \in 0..Len(sent) }

(* The packets that lie wholly between two places of the stream. *)
WholePackets(from, to) ==
    { i \in 1..Len(sent) : from <= ends[i - 1] /\ ends[i] <= to }

Init ==
    /\ sent = <<>> /\ stream = <<>> /\ open = TRUE
    /\ handler = "select"
    /\ msg = <<>> /\ nread = 0 /\ nwrite = 0
    /\ notes = 0 /\ done = <<>>
    /\ ends = [i \in 0..0 |-> 0] /\ base = 0 /\ due = {}

-----------------------------------------------------------------------------
(* The pad. *)

PadSends(p) ==
    /\ open
    /\ Len(sent) < MaxPackets
    /\ sent' = Append(sent, p)
    /\ stream' = stream \o p
    /\ ends' = [i \in 0..(Len(sent) + 1) |->
                  IF i <= Len(sent) THEN ends[i] ELSE ends[Len(sent)] + p[2]]
    /\ UNCHANGED <<open, handler, msg, nread, nwrite, notes, done, base, due>>

PadCloses ==
    /\ open
    /\ open' = FALSE
    /\ UNCHANGED <<sent, stream, handler, msg, nread, nwrite, notes, done, ends, base, due>>

-----------------------------------------------------------------------------
(* The handler. *)

(* What reading into the buffer leaves in it. *)
Overwritten(halves) == halves \o SubSeq(msg, Len(halves) + 1, Len(msg))

(* read(sockfd, msg, sizeof(msg)) returns what has come in so far, or what *)
(* the network has let through of it.                                      *)
Read(n) ==
    /\ handler = "select"
    /\ n <= Len(stream) /\ 2 * n <= BufSize
    /\ msg' = Overwritten(SubSeq(stream, 1, n))
    /\ stream' = SubSeq(stream, n + 1, Len(stream))
    /\ nread' = 2 * n /\ nwrite' = 0
    /\ handler' = "deal"
    /\ base' = base + nread
    /\ due' = IF base' \in Boundaries
              THEN due \cup WholePackets(base', base' + nread')
              ELSE due
    /\ UNCHANGED <<sent, open, notes, done, ends>>

(* The 16 bits at an offset of the buffer; where nothing was ever written, *)
(* or off the grid of halves, whatever is there.                           *)
GetCmdField(off, stray) ==
    IF off % 2 = 0 /\ off \div 2 < Len(msg) THEN msg[off \div 2 + 1] ELSE stray

CheckTcpPktValidStrict(cmd, length, len) == \* mutant
    HSB_CMD_VALID(cmd) /\ len > length
CheckTcpPktValidAnyLength(cmd, length, len) == \* mutant
    HSB_CMD_VALID(cmd)

(* check_tcp_pkt_valid; the loop around it has seen to it that len > 0.    *)
CheckTcpPktValid(cmd, length, len) == HSB_CMD_VALID(cmd) /\ len >= length

(* (len - 8) / 4 in C rounds towards zero. *)
StatusesIn(len) == IF len >= 8 THEN (len - 8) \div 4 ELSE -((8 - len) \div 4)

StatusTotalUnbounded(len) == StatusesIn(len) \* mutant

(* _get_dev_status: how many status entries a packet is taken to have.  It *)
(* is called with the bytes left of the read, not with the length of the   *)
(* packet.                                                                 *)
StatusTotal(len) == Min({StatusesIn(len), MaxStatus})

(* remote_key_mapping refuses unknown remote controls, and keys that the   *)
(* table of remote control 0 does not have.  A key is 32 bits, two halves. *)
RemoteKeyMapped(drvid, key) ==
    /\ drvid < 3
    /\ drvid = 0 => (key[1] \in 0..11 /\ key[2] = 0)

(* Requests that go to the asynchronous thread, always. *)
AsyncCmds == {HSB_CMD_GET_STATUS, HSB_CMD_SET_STATUS, HSB_CMD_PROBE_DEV}

(* Device actions do, unless they are remote keys without a mapping. *)
ActionHandedOver(act_id, param1, param2) ==
    act_id = HSB_ACT_TYPE_REMOTE_CONTROL => RemoteKeyMapped(param1, param2)

(* Who answers a command: the asynchronous thread, which it is handed to   *)
(* with nothing written here, or the handler at once, with what the case   *)
(* of the command has put into reply_buf, or a result if there is no case. *)
AnsweredBy(cmd, act_id, param1, param2) ==
    IF \/ cmd \in AsyncCmds
       \/ cmd = HSB_CMD_DO_ACTION /\ ActionHandedOver(act_id, param1, param2)
    THEN "async"
    ELSE "handler"

UsedPayload(valid, length, len) == \* mutant
    IF valid THEN Max({length - 4, 0}) ELSE len

(* The number of bytes deal_tcp_packet reports as used. *)
Used(valid, length, len) == IF valid THEN length ELSE len

MoreToDealInclusive(used_up) == used_up <= nread \* mutant

(* The condition of the loop over a read. *)
MoreToDeal(used_up) == used_up < nread

(* What deal_tcp_packet gets to see: the bytes left of the read. *)
Left == nread - nwrite
Field(off, stray) == GetCmdField(nwrite + off, stray)
Valid(stray) == CheckTcpPktValid(Field(0, stray), Field(2, stray), Left)

(* The command carried out, with where it was found. *)
Request(stray) ==
    LET cmd == Field(0, stray)
        total == IF cmd = HSB_CMD_SET_STATUS THEN StatusTotal(Left) ELSE 0
    IN  [at |-> base + nwrite, cmd |-> cmd, left |-> Left, sync |-> base \in Boundaries,
         by |-> AnsweredBy(cmd, Field(8, stray), Field(10, stray),
                           <<Field(12, stray), Field(14, stray)>>),
         num |-> total % WordSize,
         status |-> [i \in 1..total |-> <<Field(4 + 4 * i, stray), Field(6 + 4 * i, stray)>>]]

(* One round of the loop over a read: deal_tcp_packet on what is left.  A  *)
(* round that uses nothing up is repeated for ever, on the same bytes.     *)
DealTcpPacket(stray) ==
    /\ handler = "deal"
    /\ done' = IF Valid(stray) THEN Append(done, Request(stray)) ELSE done
    /\ nwrite' = nwrite + Used(Valid(stray), Field(2, stray), Left)
    /\ handler' = CASE nwrite' = nwrite -> "spins"
                    [] nwrite' # nwrite /\ MoreToDeal(nwrite') -> "deal"
                    [] OTHER -> "select"
    /\ UNCHANGED <<sent, stream, open, msg, nread, notes, ends, base, due>>

(* A datagram on the handler's other socket is read into the same buffer.  *)
(* The three halves of "notify" are no command and longer than any read.   *)
Notify == <<28526, 26996, 31078>>

Notified ==
    /\ handler = "select"
    /\ notes < MaxNotes
    /\ notes' = notes + 1
    /\ msg' = Overwritten(Notify)
    /\ UNCHANGED <<sent, stream, open, handler, nread, nwrite, done, ends, base, due>>

(* read returns 0: close and put_client_context. *)
HandlerEnds ==
    /\ handler = "select"
    /\ ~open /\ stream = <<>>
    /\ handler' = "ended"
    /\ UNCHANGED <<sent, stream, open, msg, nread, nwrite, notes, done, ends, base, due>>

Deals == \E stray \in Strays : DealTcpPacket(stray)

Next ==
    \/ \E p \in Packets : PadSends(p)
    \/ PadCloses
    \/ \E n \in 1..(BufSize \div 2) : Read(n)
    \/ Deals
    \/ Notified
    \/ HandlerEnds

Spec == Init /\ [][Next]_vars

(* The handler's thread runs when it can. *)
FairSpec == Spec /\ WF_vars(Deals)

-----------------------------------------------------------------------------
(* Types. *)
Done == [at : Nat, cmd : Half, left : Nat, sync : BOOLEAN, by : {"handler", "async"},
         num : Nat, status : Seq(Half \X Half)]

TypeOK ==
    /\ sent \in Seq(Packets) /\ Len(sent) <= MaxPackets
    /\ stream \in Seq(Half)
    /\ open \in BOOLEAN
    /\ handler \in {"select", "deal", "spins", "ended"}
    /\ msg \in Seq(Half) /\ 2 * Len(msg) <= Max({BufSize, 6})
    /\ nread \in 0..BufSize
    /\ nwrite \in 0..nread /\ (handler = "deal" => nwrite < nread)
    /\ notes \in 0..MaxNotes
    /\ done \in Seq(Done)
    /\ ends \in [0..Len(sent) -> Nat]
    /\ base \in Nat /\ base + nread + 2 * Len(stream) = ends[Len(sent)]
    /\ due \subseteq 1..Len(sent)

(* A command found where packet i starts, with all of it in the read.      *)
Serves(d, i) == d.at = ends[i - 1] /\ sent[i][2] <= d.left

(* The command of the packet, answered by whom its own fields say, not by  *)
(* whom the bytes around them would.                                       *)
Carries(d, p) == d.cmd = p[1] /\ d.by = AnsweredBy(p[1], p[5], p[6], <<p[7], p[8]>>)

Genuine(d) == \E i \in 1..Len(sent) : Serves(d, i)

(* The handler's loop agrees with the protocol document on every read that *)
(* starts where a packet starts, whatever was lost or misread before: by   *)
(* the time the handler selects again the packets that lie wholly in such  *)
(* a read are served, and no others are, each once and in order, and each  *)
(* goes to the thread that is to answer it.                                *)
WholePacketsServed ==
    handler \in {"select", "ended"} =>
        /\ \A i \in due : \E k \in 1..Len(done) :
              done[k].sync /\ Serves(done[k], i) /\ Carries(done[k], sent[i])
        /\ \A k \in 1..Len(done), i \in 1..Len(sent) :
              done[k].sync /\ Serves(done[k], i) => i \in due
        /\ \A k, l \in 1..Len(done) : k < l => done[k].at < done[l].at

(* The loop steps from packet to packet by the length field: in a read of  *)
(* whole packets it carries nothing out that the pad has not sent, neither *)
(* from the inside of a packet nor from what earlier reads have left in    *)
(* the buffer.                                                             *)
NothingMadeUp ==
    \A k \in 1..Len(done) :
        LET d == done[k]
        IN  (d.sync /\ d.at + d.left \in Boundaries) => Genuine(d)

(* The status entries that a packet carries come first in a request, as    *)
(* many as the arrays of HSB_STATUS_T hold.                                *)
EntriesFirst(d, p) ==
    LET own == Min({(p[2] - 8) \div 4, MaxStatus})
    IN  /\ d.num <= MaxStatus /\ d.num >= own
        /\ \A j \in 1..own : d.status[j] = <<p[3 + 2 * j], p[4 + 2 * j]>>

(* _get_dev_status takes all that is left of the read for status entries.  *)
(* Even so the entries of the packet itself come first and complete, and   *)
(* there are never more than the arrays of HSB_STATUS_T hold.              *)
OwnStatusFirst ==
    \A k \in 1..Len(done), i \in 1..Len(sent) :
        (/\ done[k].sync /\ Serves(done[k], i)
         /\ done[k].cmd = HSB_CMD_SET_STATUS) => EntriesFirst(done[k], sent[i])

(* The loop over a read of whole packets comes to its end: every packet    *)
(* moves nwrite on.                                                        *)
DealEnds ==
    (/\ handler = "deal"
     /\ base \in Boundaries /\ base + nread \in Boundaries) ~> (handler = "select")
=============================================================================
