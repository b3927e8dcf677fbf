------------------------------- MODULE Linkage -------------------------------
(***************************************************************************)
(* Linkages and the work mode of the box: core_daemon/device.c.            *)
(*                                                                         *)
(* A pad gives a device a linkage: if an event of the device comes while   *)
(* the box is in one of the linkage's work modes, another device is set.   *)
(* The thread that hears the event goes through the device's slots without *)
(* a lock while the handlers of pads write them, and leaves the acts to    *)
(* the asynchronous thread.  An act changes a status, which is an event    *)
(* again, so linkages cascade.                                             *)
(*                                                                         *)
(* The driver's exchange with the device is VirtualSwitch and              *)
(* ZigbeeTransaction; here a device obeys or does not.  The events' way to *)
(* the pads is ClientPool.                                                 *)
(***************************************************************************)
EXTENDS Integers, Sequences

CONSTANTS
    Devs,       \* devices that can have linkages
    Modes, HOME,  \* work modes of the box, and the first of them
    NSlot,      \* HSB_DEV_MAX_LINKAGE_NUM (8 in the code)
    Rules,      \* the linkages [modes, evt, act] pads may ask for, of each device
    Handlers,   \* handler threads of pads
    MaxSet,     \* bound: linkages set and deleted
    MaxCause,   \* bound: statuses and modes changed by people and pads
    MaxOff,     \* bound: devices going offline
    MaxActs,    \* bound: acts in the asynchronous thread's queue
    MsgCap      \* reports that the monitor's socket holds

Box == "box"                     \* devid 0
Vals == {0, 1}                   \* values of a device's status
Acts == [dev : Devs, val : Vals] \cup [dev : {Box}, val : Modes]
Events == Vals \cup {2}          \* STATUS_UPDATED with a value, or DEV_UPDATED/ONLINE
ONLINE == 2
Slots == 1..NSlot

ASSUME NamesAssumption == Box \notin Devs /\ HOME \in Modes
ASSUME RulesAssumption == Rules \in [Devs -> SUBSET [modes : SUBSET Modes, evt : Events, act : Acts]]
ASSUME NSlotAssumption == NSlot \in Nat \ {0}
ASSUME BoundsAssumption == {MaxSet, MaxCause, MaxOff, MaxActs, MsgCap} \subseteq Nat

VARIABLES
    work_mode,   \* gl_dev_cb.work_mode
    online,      \* the devices in gl_dev_cb.queue; the others are in offq
    status,      \* the status each device has
    link,        \* link[] of each device
    active,      \* link_status[].active of each device
    hand,        \* each handler, in set_dev_linkage or del_dev_linkage
    msgs,        \* what the devices have reported to the monitor
    chk,         \* the monitor, in check_linkage
    acts,        \* the queue of the asynchronous thread
    kept,        \* what was last asked of each slot
    given,       \* the linkages each device has ever been given
    mixed,       \* how the contents of each slot came about
    nset, ncause, noff

registry == <<online, link, active>>
history == <<kept, given, mixed, nset, ncause, noff>>
vars == <<work_mode, registry, status, hand, msgs, chk, acts, history>>

NoAct == [dev |-> Box, val |-> "none"]
Blank == [modes |-> {}, evt |-> -1, act |-> NoAct]
Free == [pc |-> 0, dev |-> Box, slot |-> 0, rule |-> Blank]
NoCheck == [pc |-> "idle", dev |-> Box, evt |-> -1, mode |-> "none", slot |-> 0,
            pushed |-> <<>>, touched |-> FALSE, torn |-> FALSE]

OfEach(x) == [d \in Devs |-> [s \in Slots |-> x]]

Init ==
    /\ work_mode = HOME
    /\ online = Devs
    /\ status = [d \in Devs |-> 0]
    /\ link = OfEach(Blank)
    /\ active = OfEach(FALSE)
    /\ hand = [h \in Handlers |-> Free]
    /\ msgs = <<>> /\ acts = <<>>
    /\ chk = NoCheck
    /\ kept = OfEach(Blank)
    /\ given = [d \in Devs |-> {}]
    /\ mixed = OfEach("no")
    /\ nset = 0 /\ ncause = 0 /\ noff = 0

-----------------------------------------------------------------------------
(* The handlers of pads: set_dev_linkage and del_dev_linkage.              *)

InSlot(d, s) == { h \in Handlers : hand[h].pc > 0 /\ hand[h].dev = d /\ hand[h].slot = s }

(* The device and the slot are found and the writing begins; r is Blank in *)
(* del_dev_linkage, which fails on a slot that is not active.  A slot in   *)
(* use is being rewritten, and two handlers in one slot mix what they      *)
(* write.                                                                  *)
HandlerBegins(h, d, s, r) ==
    /\ hand[h].pc = 0
    /\ nset < MaxSet
    /\ d \in online
    /\ r = Blank => active[d][s]
    /\ hand' = [hand EXCEPT ![h] = [pc |-> 1, dev |-> d, slot |-> s, rule |-> r]]
    /\ LET how == IF InSlot(d, s) # {} THEN "overlap" ELSE IF active[d][s] THEN "rewrite" ELSE "no"
       IN  /\ mixed' = [mixed EXCEPT ![d][s] = how]
           /\ chk' = IF chk.dev = d THEN [chk EXCEPT !.touched = TRUE, !.torn = @ \/ how # "no"] ELSE chk
    /\ given' = IF r = Blank THEN given ELSE [given EXCEPT ![d] = @ \cup {r}]
    /\ nset' = nset + 1
    /\ UNCHANGED <<work_mode, registry, status, msgs, acts, kept, ncause, noff>>

(* Mutant: the slot is made active first. *)
StoresActiveFirst == <<"active", "cond", "act">>

(* The order in which a slot is written: memcpy or memset over the struct, *)
(* which is not atomic, then the flag.                                     *)
Stores == <<"cond", "act", "active">>

HandlerStores(h) ==
    LET d == hand[h].dev
        s == hand[h].slot
        r == hand[h].rule
        what == Stores[hand[h].pc]
        last == hand[h].pc = Len(Stores)
    IN  /\ hand[h].pc > 0
        /\ link' = [link EXCEPT ![d][s] =
                       IF what = "cond" THEN [modes |-> r.modes, evt |-> r.evt, act |-> @.act]
                       ELSE IF what = "act" THEN [@ EXCEPT !.act = r.act] ELSE @]
        /\ active' = IF what = "active" THEN [active EXCEPT ![d][s] = (r # Blank)] ELSE active
        /\ hand' = IF last THEN [hand EXCEPT ![h] = Free] ELSE [hand EXCEPT ![h].pc = @ + 1]
        /\ kept' = IF last THEN [kept EXCEPT ![d][s] = r] ELSE kept
        /\ mixed' = IF last /\ mixed[d][s] # "overlap" THEN [mixed EXCEPT ![d][s] = "no"] ELSE mixed
        /\ UNCHANGED <<work_mode, online, status, msgs, chk, acts, given, nset, ncause, noff>>

(* A pad sets a status, or the work mode as the status of device 0. *)
PadSets(a) ==
    /\ ncause < MaxCause
    /\ Len(acts) < MaxActs
    /\ acts' = Append(acts, a)
    /\ ncause' = ncause + 1
    /\ UNCHANGED <<work_mode, registry, status, hand, msgs, chk, kept, given, mixed, nset, noff>>

-----------------------------------------------------------------------------
(* The devices.                                                            *)

(* The device has a new status, and says so if its status was another.     *)
(* A full socket loses the report.                                         *)
Becomes(d, v) ==
    /\ status' = [status EXCEPT ![d] = v]
    /\ msgs' = IF status[d] # v /\ Len(msgs) < MsgCap THEN Append(msgs, [dev |-> d, evt |-> v]) ELSE msgs

(* Somebody presses the switch. *)
DeviceChanges(d, v) ==
    /\ ncause < MaxCause
    /\ status[d] # v
    /\ Becomes(d, v)
    /\ ncause' = ncause + 1
    /\ UNCHANGED <<work_mode, registry, hand, chk, acts, kept, given, mixed, nset, noff>>

-----------------------------------------------------------------------------
(* The monitor of the driver.                                              *)

(* The call of check_linkage for a device that is found.  The mode is read *)
(* once; the device's own mask has all modes, and nothing changes it.      *)
CheckBegins(d, e) ==
    chk' = [pc |-> "match", dev |-> d, evt |-> e, mode |-> work_mode, slot |-> 1, pushed |-> <<>>,
            touched |-> \E s \in Slots : InSlot(d, s) # {},
            torn |-> \E s \in Slots : mixed[d][s] # "no"]

(* dev_status_updated, if the device is still known. *)
MonitorHears ==
    /\ chk.pc = "idle"
    /\ msgs # <<>>
    /\ msgs' = Tail(msgs)
    /\ IF Head(msgs).dev \in online THEN CheckBegins(Head(msgs).dev, Head(msgs).evt) ELSE UNCHANGED chk
    /\ UNCHANGED <<work_mode, registry, status, hand, acts, history>>

(* Mutant: the device comes back as a new one. *)
SlotsAnew(d) == [link EXCEPT ![d] = [s \in Slots |-> Blank]]

(* What dev_online makes of the slots: the device that comes from offq is  *)
(* the one that went there.                                                *)
SlotsOnline(d) == link

(* dev_online of a known device, and dev_updated. *)
DevOnline(d) ==
    /\ chk.pc = "idle"
    /\ d \notin online
    /\ online' = online \cup {d}
    /\ link' = SlotsOnline(d)
    /\ CheckBegins(d, ONLINE)
    /\ UNCHANGED <<work_mode, active, status, hand, msgs, acts, history>>

(* dev_offline.  dev_updated no longer finds the device. *)
DevOffline(d) ==
    /\ chk.pc = "idle"
    /\ noff < MaxOff
    /\ d \in online
    /\ online' = online \ {d}
    /\ noff' = noff + 1
    /\ UNCHANGED <<work_mode, link, active, status, hand, msgs, chk, acts, kept, given, mixed, nset, ncause>>

(* _key: set_box_work_mode in the monitor.  Its event, of device 0, meets  *)
(* no linkage.                                                             *)
MonitorKey(m) ==
    /\ chk.pc = "idle"
    /\ ncause < MaxCause
    /\ work_mode' = m
    /\ ncause' = ncause + 1
    /\ UNCHANGED <<registry, status, hand, msgs, chk, acts, kept, given, mixed, nset, noff>>

(* The conditions of check_linkage on a slot. *)
Matches(d, s, e, m) == active[d][s] /\ m \in link[d][s].modes /\ link[d][s].evt = e

(* Mutant: one slot more than there are. *)
ToNextLate(c) == IF c.slot > NSlot THEN [c EXCEPT !.pc = "done"] ELSE [c EXCEPT !.pc = "match", !.slot = @ + 1]

(* The next slot of the loop. *)
ToNext(c) == IF c.slot = NSlot THEN [c EXCEPT !.pc = "done"] ELSE [c EXCEPT !.pc = "match", !.slot = @ + 1]

(* Mutant: the first linkage that matches is the only one. *)
AfterPushStops(c) == [c EXCEPT !.pc = "done"]

(* After a linkage has acted the loop goes on. *)
AfterPush(c) == ToNext(c)

CheckSlot ==
    /\ chk.pc = "match"
    /\ chk' = IF Matches(chk.dev, chk.slot, chk.evt, chk.mode) THEN [chk EXCEPT !.pc = "act"] ELSE ToNext(chk)
    /\ UNCHANGED <<work_mode, registry, status, hand, msgs, acts, history>>

(* Mutant: the act is for the device whose event it was. *)
ActOfSelf(d, s) == IF link[d][s].act.dev = Box THEN link[d][s].act ELSE [link[d][s].act EXCEPT !.dev = d]

(* What the linkage asks for. *)
ActOf(d, s) == link[d][s].act

(* set_dev_status_async or set_dev_action_async, without a reply. *)
CheckActs ==
    /\ chk.pc = "act"
    /\ Len(acts) < MaxActs
    /\ acts' = Append(acts, ActOf(chk.dev, chk.slot))
    /\ chk' = AfterPush([chk EXCEPT !.pushed = Append(@, ActOf(chk.dev, chk.slot))])
    /\ UNCHANGED <<work_mode, registry, status, hand, msgs, history>>

CheckEnds ==
    /\ chk.pc = "done"
    /\ chk' = NoCheck
    /\ UNCHANGED <<work_mode, registry, status, hand, msgs, acts, history>>

-----------------------------------------------------------------------------
(* The asynchronous thread: set_dev_status.                                *)

(* The driver has no entry for a device before dev_online has returned. *)
Entered(d) == d \in online /\ ~(chk.evt = ONLINE /\ chk.dev = d)

(* The act of the box itself, or of a device that obeys. *)
AsyncObeyed ==
    /\ acts # <<>>
    /\ LET a == Head(acts) IN
       \/ /\ a.dev = Box /\ a.val \in Modes
          /\ work_mode' = a.val
          /\ UNCHANGED <<status, msgs>>
       \/ /\ a.dev \in Devs /\ Entered(a.dev)
          /\ Becomes(a.dev, a.val)
          /\ UNCHANGED work_mode
    /\ acts' = Tail(acts)
    /\ UNCHANGED <<registry, hand, chk, history>>

(* The device is unknown, or does not obey, or the act is not one. *)
AsyncFails ==
    /\ acts # <<>>
    /\ Head(acts).dev = Box => Head(acts).val \notin Modes
    /\ acts' = Tail(acts)
    /\ UNCHANGED <<work_mode, registry, status, hand, msgs, chk, history>>

-----------------------------------------------------------------------------
Handler(h) ==
    \/ \E d \in Devs, s \in Slots : \E r \in Rules[d] \cup {Blank} : HandlerBegins(h, d, s, r)
    \/ HandlerStores(h)

Check == CheckSlot \/ CheckActs \/ CheckEnds

Monitor ==
    \/ MonitorHears \/ Check
    \/ \E d \in Devs : DevOnline(d) \/ DevOffline(d)
    \/ \E m \in Modes : MonitorKey(m)

Async == AsyncObeyed \/ AsyncFails

Next ==
    \/ \E h \in Handlers : Handler(h)
    \/ \E a \in Acts : PadSets(a)
    \/ \E d \in Devs, v \in Vals : DeviceChanges(d, v)
    \/ Monitor \/ Async

Spec == Init /\ [][Next]_vars

(* The threads of the box run. *)
Fairness ==
    /\ WF_vars(MonitorHears \/ Check)
    /\ WF_vars(Async)
    /\ \A h \in Handlers : WF_vars(HandlerStores(h))

FairSpec == Spec /\ Fairness

-----------------------------------------------------------------------------
Rule == [modes : SUBSET Modes, evt : Events \cup {-1}, act : Acts \cup {NoAct}]
HandType == [pc : 0..3, dev : Devs \cup {Box}, slot : 0..NSlot, rule : Rule]
CheckType == [pc : {"idle", "match", "act", "done"}, dev : Devs \cup {Box}, evt : Events \cup {-1},
              mode : Modes \cup {"none"}, slot : 0..NSlot, pushed : Seq(Acts \cup {NoAct}),
              touched : BOOLEAN, torn : BOOLEAN]

(* Every variable has its type. *)
TypeOK ==
    /\ work_mode \in Modes
    /\ online \subseteq Devs
    /\ status \in [Devs -> Vals]
    /\ link \in [Devs -> [Slots -> Rule]]
    /\ active \in [Devs -> [Slots -> BOOLEAN]]
    /\ hand \in [Handlers -> HandType]
    /\ msgs \in Seq([dev : Devs, evt : Vals])
    /\ chk \in CheckType
    /\ acts \in Seq(Acts \cup {NoAct})
    /\ kept \in [Devs -> [Slots -> Rule]]
    /\ given \in [Devs -> SUBSET Rule] /\ \A d \in Devs : given[d] \subseteq Rules[d]
    /\ mixed \in [Devs -> [Slots -> {"no", "rewrite", "overlap"}]]
    /\ nset \in 0..MaxSet /\ ncause \in 0..MaxCause /\ noff \in 0..MaxOff

(* Every act of a linkage is one that a pad has asked for, for this event  *)
(* of this device in this mode, even while a handler fills the slot.  Only *)
(* a slot that was in use when it was rewritten or deleted, or that two    *)
(* handlers wrote at once, can act otherwise: check_linkage takes no lock. *)
ActsHaveCause ==
    chk.torn \/ \A i \in DOMAIN chk.pushed :
                  \E r \in given[chk.dev] : /\ r.evt = chk.evt /\ chk.mode \in r.modes
                                            /\ r.act = chk.pushed[i]

(* A slot holds what was last asked of it, and is active if that is a      *)
(* linkage, while devices go offline and come back, unless handlers        *)
(* overlapped in it.                                                       *)
LinkageKept ==
    \A d \in Devs, s \in Slots :
        InSlot(d, s) = {} /\ mixed[d][s] = "no" =>
            /\ active[d][s] = (kept[d][s] # Blank)
            /\ link[d][s] = kept[d][s]

(* The acts p are those of the linkages of d among the first n slots that  *)
(* the event calls for: each once, in the order of the slots.              *)
ActsOfMatches(p, n, d, e, m) ==
    \E at \in [DOMAIN p -> Slots] :
        /\ \A i, j \in DOMAIN p : i < j => at[i] < at[j]
        /\ \A i \in DOMAIN p : at[i] <= n /\ Matches(d, at[i], e, m) /\ p[i] = link[d][at[i]].act
        /\ \A s \in Slots : s <= n /\ Matches(d, s, e, m) => \E i \in DOMAIN p : at[i] = s

(* A check that no handler disturbs acts on all linkages of the device     *)
(* that the event calls for in the mode the check began in, each once and  *)
(* in order, whatever the mode has become meanwhile.                       *)
EveryMatchActs ==
    chk.pc = "done" /\ ~chk.touched /\ ~chk.torn =>
        ActsOfMatches(chk.pushed, NSlot, chk.dev, chk.evt, chk.mode)

(* What the linkages as they are now lead to from a status of a device. *)
LeadsTo(x, y) ==
    \E s \in Slots : /\ active[x[1]][s]
                     /\ link[x[1]][s].modes # {}
                     /\ link[x[1]][s].evt = x[2]
                     /\ link[x[1]][s].act = [dev |-> y[1], val |-> y[2]]

(* Some statuses all lead to one of themselves. *)
Circular == \E S \in SUBSET (Devs \X Vals) \ {{}} : \A x \in S : \E y \in S : LeadsTo(x, y)

Quiet == chk.pc = "idle" /\ msgs = <<>> /\ acts = <<>>

(* What one event sets off comes to an end, however many linkages it runs  *)
(* through, unless the linkages themselves go round in a circle: nothing   *)
(* in the code limits a cascade.                                           *)
CascadesEnd == <>[]Quiet \/ <>[]Circular
=============================================================================
