---------------------------- MODULE DeviceRegistry ----------------------------
(***************************************************************************)
(* The device lists of the daemon: gl_dev_cb.queue (devices online) and    *)
(* gl_dev_cb.offq (devices that went offline but keep their id) of         *)
(* core_daemon/device.c, and the lists of their own that the two drivers   *)
(* keep beside them.                                                       *)
(*                                                                         *)
(* Virtual-switch devices are registered by whoever probes: the driver's   *)
(* monitor thread, the asynchronous thread serving a Probe Device request  *)
(* of a pad, and the main thread once at start-up.  The monitor thread     *)
(* also sweeps out devices that stay silent.  Zigbee devices are           *)
(* registered by that driver's monitor thread only, and never go offline.  *)
(*                                                                         *)
(* A step is a stretch of code under the registry's mutex, or the code     *)
(* between two of them.  The drivers' lists have a mutex that no code      *)
(* takes, and dev_online pops offq after unlocking: race records that two  *)
(* threads were in such unprotected code at the same time.                 *)
(***************************************************************************)
EXTENDS Integers, Sequences, FiniteSets

CONSTANTS
    VSMacs,      \* virtual-switch devices
    CZMacs,      \* zigbee devices
    IdleLimit,   \* idle_time above which a device is dropped (10 in the code)
    MaxId        \* bound: device ids ever allocated

ASSUME MacsAssumption == VSMacs \cap CZMacs = {} /\ "none" \notin VSMacs \cup CZMacs
ASSUME LimitsAssumption == IdleLimit \in Nat /\ MaxId \in Nat

VARIABLES
    queue,    \* gl_dev_cb.queue: ids, in order
    offq,     \* gl_dev_cb.offq: ids, in order
    macOf,    \* info.mac of every device ever created; the device at n has id n
    drvq,     \* the drivers' own lists: sequences of [id, mac, idle]
    told,     \* the last dev_updated event sent to the pads about each id
    pc,       \* where each thread is
    loc,      \* its local variables: mac, index into offq, device
    sweep,    \* id and len of _remove_timeout_dev
    quiet,    \* sweeps begun since the monitor last heard from each device
    race      \* unprotected code has run concurrently

vars == <<queue, offq, macOf, drvq, told, pc, loc, sweep, quiet, race>>

Macs == VSMacs \cup CZMacs
VSThreads == {"vs_monitor", "async", "main"}
Threads == VSThreads \cup {"cz_monitor"}
Drivers == {"vs", "cz"}
DrvOf(t) == IF t = "cz_monitor" THEN "cz" ELSE "vs"
MacsOf(t) == IF t = "cz_monitor" THEN CZMacs ELSE VSMacs

Ids == 1..MaxId
Updates == {"none", "NEW_ADD", "ONLINE", "OFFLINE"}
Entry == [id : Ids, mac : Macs, idle : 0..(IdleLimit + 1)]
NoLocals == [mac |-> "none", idx |-> 0, dev |-> 0]

(* gl_dev_cb.dev_id: ids are handed out from 1, id 0 is the box itself. *)
dev_id == Len(macOf) + 1

In(x, s) == \E i \in DOMAIN s : s[i] = x

(* g_queue_pop_nth, counting from 1; nothing happens beyond the end. *)
PopNth(s, n) ==
    IF n > Len(s) THEN s
    ELSE [i \in 1..(Len(s) - 1) |-> IF i < n THEN s[i] ELSE s[i + 1]]

Init ==
    /\ queue = <<>> /\ offq = <<>> /\ macOf = <<>>
    /\ drvq = [d \in Drivers |-> <<>>]
    /\ told = [n \in Ids |-> "none"]
    /\ pc = [t \in Threads |-> IF t = "main" THEN "start"
                               ELSE IF t = "cz_monitor" THEN "probing" ELSE "idle"]
    /\ loc = [t \in Threads |-> NoLocals]
    /\ sweep = [pos |-> 0, len |-> 0]
    /\ quiet = [m \in VSMacs |-> 0]
    /\ race = FALSE

(* Inside driver or registry code, rather than idle or waiting for a packet. *)
Busy(t) == pc[t] \notin {"start", "idle", "probing"}

OtherVSBusy(t) == t \in VSThreads /\ \E u \in VSThreads \ {t} : Busy(u)
OtherPopping(t) == \E u \in Threads \ {t} : pc[u] = "found"

Goto(t, label) == pc' = [pc EXCEPT ![t] = label]

-----------------------------------------------------------------------------
(* virtual_switch_probe starts: the async thread serves a Probe Device     *)
(* request, or the main thread runs probe_all_devices.                     *)
ProbeBegin(t) ==
    /\ \/ t = "async" /\ pc[t] = "idle"
       \/ t = "main" /\ pc[t] = "start"
    /\ Goto(t, "probing")
    /\ UNCHANGED <<queue, offq, macOf, drvq, told, loc, sweep, race, quiet>>

(* The monitor hears from an address that is not in the driver's list: it  *)
(* probes, and the message is dropped.                                     *)
MonitorProbes ==
    /\ pc["vs_monitor"] = "idle"
    /\ Goto("vs_monitor", "probing")
    /\ race' = (race \/ OtherVSBusy("vs_monitor"))
    /\ UNCHANGED <<queue, offq, macOf, drvq, told, loc, sweep, quiet>>

(* The probe's three seconds are over. *)
ProbeEnd(t) ==
    /\ t \in VSThreads
    /\ pc[t] = "probing"
    /\ Goto(t, "idle")
    /\ UNCHANGED <<queue, offq, macOf, drvq, told, loc, sweep, race, quiet>>

(* _find_dev_by_mac returns NULL. *)
Unlisted(d, m) == \A i \in DOMAIN drvq[d] : drvq[d][i].mac # m

(* A DISCOVER_RESP arrives: _register_device up to the call of dev_online. *)
(* A device that is listed already is left as it is.                       *)
RegisterDevice(t, m) ==
    /\ pc[t] = "probing"
    /\ m \in MacsOf(t)
    /\ Unlisted(DrvOf(t), m)
    /\ Goto(t, "scan")
    /\ loc' = [loc EXCEPT ![t] = [mac |-> m, idx |-> 0, dev |-> 0]]
    /\ race' = (race \/ OtherVSBusy(t))
    /\ UNCHANGED <<queue, offq, macOf, drvq, told, sweep, quiet>>

(* Mutant: the scan stops one short of the end of offq. *)
OfflineIndexShort(m) ==
    { i \in DOMAIN offq : i < Len(offq) /\ macOf[offq[i]] = m }

(* Where offq holds the device with this mac. *)
OfflineIndex(m) == { i \in DOMAIN offq : macOf[offq[i]] = m }

(* dev_online, first critical section: look for the device in offq.  The   *)
(* index and the pointer are used after the mutex is released.             *)
ScanOffline(t) ==
    /\ pc[t] = "scan"
    /\ LET hits == OfflineIndex(loc[t].mac)
       IN  IF hits = {}
           THEN Goto(t, "create") /\ UNCHANGED loc
           ELSE \E i \in hits :
                  /\ \A j \in hits : i <= j
                  /\ Goto(t, "found")
                  /\ loc' = [loc EXCEPT ![t].idx = i, ![t].dev = offq[i]]
    /\ race' = (race \/ OtherPopping(t))
    /\ UNCHANGED <<queue, offq, macOf, drvq, told, sweep, quiet>>

(* create_dev: alloc_dev_id takes the mutex for the increment alone. *)
CreateDev(t) ==
    /\ pc[t] = "create"
    /\ dev_id <= MaxId
    /\ macOf' = Append(macOf, loc[t].mac)
    /\ loc' = [loc EXCEPT ![t].dev = dev_id]
    /\ Goto(t, "push")
    /\ UNCHANGED <<queue, offq, drvq, told, sweep, race, quiet>>

(* g_queue_pop_nth(offq, id) with the index of the scan, unlocked. *)
PopOffline(t) ==
    /\ pc[t] = "found"
    /\ offq' = PopNth(offq, loc[t].idx)
    /\ Goto(t, "push")
    /\ UNCHANGED <<queue, macOf, drvq, told, loc, sweep, race, quiet>>

(* dev_online, last critical section. *)
PushOnline(t) ==
    /\ pc[t] = "push"
    /\ queue' = Append(queue, loc[t].dev)
    /\ Goto(t, "announce")
    /\ UNCHANGED <<offq, macOf, drvq, told, loc, sweep, race, quiet>>

(* dev_updated, after the mutex: NEW_ADD for a device just created, ONLINE *)
(* for one taken back from offq.                                           *)
AnnounceOnline(t) ==
    /\ pc[t] = "announce"
    /\ told' = [told EXCEPT ![loc[t].dev] = IF loc[t].idx = 0 THEN "NEW_ADD" ELSE "ONLINE"]
    /\ Goto(t, "enlist")
    /\ UNCHANGED <<queue, offq, macOf, drvq, loc, sweep, race, quiet>>

(* The end of _register_device: the driver lists the device. *)
Enlist(t) ==
    /\ pc[t] = "enlist"
    /\ drvq' = [drvq EXCEPT ![DrvOf(t)] =
                  Append(@, [id |-> loc[t].dev, mac |-> loc[t].mac, idle |-> 0])]
    /\ quiet' = [m \in VSMacs |-> IF m = loc[t].mac THEN 0 ELSE quiet[m]]
    /\ loc' = [loc EXCEPT ![t] = NoLocals]
    /\ Goto(t, "probing")
    /\ UNCHANGED <<queue, offq, macOf, told, sweep, race>>

-----------------------------------------------------------------------------
(* Mutant: hearing from a device does not reset its idle time. *)
RefreshNothing(i) == drvq

(* _refresh_device *)
Refreshed(i) == [drvq EXCEPT !["vs"][i].idle = 0]

(* The monitor receives a message from a listed device. *)
MonitorHears(i) ==
    /\ pc["vs_monitor"] = "idle"
    /\ i \in DOMAIN drvq["vs"]
    /\ drvq' = Refreshed(i)
    /\ quiet' = [quiet EXCEPT ![drvq["vs"][i].mac] = 0]
    /\ race' = (race \/ OtherVSBusy("vs_monitor"))
    /\ UNCHANGED <<queue, offq, macOf, told, pc, loc, sweep>>

(* Two seconds without a packet: _remove_timeout_dev begins.  len is read  *)
(* once, although the list shrinks during the loop.                        *)
SweepBegin ==
    /\ pc["vs_monitor"] = "idle"
    /\ sweep' = [pos |-> 1, len |-> Len(drvq["vs"])]
    /\ Goto("vs_monitor", "sweep")
    /\ quiet' = [m \in VSMacs |-> IF Unlisted("vs", m) THEN 0 ELSE quiet[m] + 1]
    /\ race' = (race \/ OtherVSBusy("vs_monitor"))
    /\ UNCHANGED <<queue, offq, macOf, drvq, told, loc>>

SweepEntry == drvq["vs"][sweep.pos]
Sweeping ==
    /\ pc["vs_monitor"] = "sweep"
    /\ sweep.pos <= sweep.len
    /\ sweep.pos <= Len(drvq["vs"])

(* Mutant: the limit is not looked at before counting. *)
SweepIdleUnbounded ==
    /\ Sweeping
    /\ drvq' = [drvq EXCEPT !["vs"][sweep.pos].idle = @ + 1]
    /\ sweep' = [sweep EXCEPT !.pos = @ + 1]
    /\ UNCHANGED <<queue, offq, macOf, told, pc, loc, race, quiet>>

(* One more silent period for this device. *)
SweepIdle ==
    /\ Sweeping
    /\ SweepEntry.idle <= IdleLimit
    /\ drvq' = [drvq EXCEPT !["vs"][sweep.pos].idle = @ + 1]
    /\ sweep' = [sweep EXCEPT !.pos = @ + 1]
    /\ UNCHANGED <<queue, offq, macOf, told, pc, loc, race, quiet>>

(* Mutant: the device is dropped from queue and put nowhere. *)
MovedOfflineLost(n) ==
    \E i \in DOMAIN queue :
        /\ queue[i] = n /\ \A j \in 1..(i - 1) : queue[j] # n
        /\ queue' = PopNth(queue, i)
        /\ UNCHANGED offq

(* dev_offline's critical section for a device it finds. *)
MovedOffline(n) ==
    \E i \in DOMAIN queue :
        /\ queue[i] = n /\ \A j \in 1..(i - 1) : queue[j] # n
        /\ queue' = PopNth(queue, i)
        /\ offq' = Append(offq, n)

(* The device has been silent too long: dev_offline, whose HSB_E_OTHERS    *)
(* for a device that is not in queue nobody looks at ...                   *)
SweepOffline ==
    /\ Sweeping
    /\ SweepEntry.idle > IdleLimit
    /\ IF In(SweepEntry.id, queue)
       THEN MovedOffline(SweepEntry.id) /\ Goto("vs_monitor", "announce_off")
       ELSE Goto("vs_monitor", "unlist") /\ UNCHANGED <<queue, offq>>
    /\ race' = (race \/ OtherPopping("vs_monitor"))
    /\ UNCHANGED <<macOf, drvq, told, loc, sweep, quiet>>

(* Mutant: the devices that leave are not announced. *)
AnnounceOfflineNothing ==
    /\ pc["vs_monitor"] = "announce_off"
    /\ Goto("vs_monitor", "unlist")
    /\ UNCHANGED <<queue, offq, macOf, drvq, told, loc, sweep, race, quiet>>

(* ... and which announces the move after the mutex ... *)
AnnounceOffline ==
    /\ pc["vs_monitor"] = "announce_off"
    /\ told' = [told EXCEPT ![SweepEntry.id] = "OFFLINE"]
    /\ Goto("vs_monitor", "unlist")
    /\ UNCHANGED <<queue, offq, macOf, drvq, loc, sweep, race, quiet>>

(* Mutant: the entry stays in the driver's list. *)
UnlistForgotten ==
    /\ pc["vs_monitor"] = "unlist"
    /\ sweep' = [sweep EXCEPT !.pos = @ + 1]
    /\ Goto("vs_monitor", "sweep")
    /\ UNCHANGED <<queue, offq, macOf, drvq, told, loc, race, quiet>>

(* ... and then the driver forgets the device. *)
Unlist ==
    /\ pc["vs_monitor"] = "unlist"
    /\ drvq' = [drvq EXCEPT !["vs"] = PopNth(@, sweep.pos)]
    /\ Goto("vs_monitor", "sweep")
    /\ UNCHANGED <<queue, offq, macOf, told, loc, sweep, race, quiet>>

(* The loop is over; the keep-alive goes out. *)
SweepEnd ==
    /\ pc["vs_monitor"] = "sweep"
    /\ ~Sweeping
    /\ sweep' = [pos |-> 0, len |-> 0]
    /\ Goto("vs_monitor", "idle")
    /\ UNCHANGED <<queue, offq, macOf, drvq, told, loc, race, quiet>>

-----------------------------------------------------------------------------
Register(t) ==
    \/ \E m \in Macs : RegisterDevice(t, m)
    \/ ScanOffline(t) \/ CreateDev(t) \/ PopOffline(t) \/ PushOnline(t)
    \/ AnnounceOnline(t) \/ Enlist(t)

Sweep ==
    \/ SweepBegin \/ SweepIdle \/ SweepOffline \/ AnnounceOffline
    \/ Unlist \/ SweepEnd

Next ==
    \/ \E t \in Threads : ProbeBegin(t) \/ ProbeEnd(t) \/ Register(t)
    \/ MonitorProbes
    \/ \E i \in DOMAIN drvq["vs"] : MonitorHears(i)
    \/ Sweep

Spec == Init /\ [][Next]_vars

-----------------------------------------------------------------------------
Labels == {"start", "idle", "probing", "scan", "create", "found", "push", "announce", "enlist",
           "sweep", "announce_off", "unlist"}

(* Every variable has its type; ids are never 0, which stands for the box. *)
TypeOK ==
    /\ queue \in Seq(Ids) /\ offq \in Seq(Ids)
    /\ macOf \in Seq(Macs) /\ Len(macOf) <= MaxId
    /\ drvq \in [Drivers -> Seq(Entry)]
    /\ told \in [Ids -> Updates]
    /\ pc \in [Threads -> Labels]
    /\ loc \in [Threads -> [mac : Macs \cup {"none"}, idx : Nat, dev : 0..MaxId]]
    /\ sweep \in [pos : Nat, len : Nat]
    /\ quiet \in [VSMacs -> Nat]
    /\ race \in BOOLEAN

(* The device a registering thread has in hand, in neither list. *)
InHand(n) == \E t \in Threads : pc[t] = "push" /\ loc[t].dev = n

Times(n, s) == Cardinality({ i \in DOMAIN s : s[i] = n })

(* Without a race no device is lost, and none is listed twice: every       *)
(* device ever created is in exactly one place, online, offline, or in the *)
(* hands of the one thread that is bringing it online.                     *)
OneHome ==
    ~race => \A n \in 1..Len(macOf) :
                Times(n, queue) + Times(n, offq) = IF InHand(n) THEN 0 ELSE 1

(* Without a race a device keeps its id however often it goes and comes    *)
(* back: no two ids stand for one mac.                                     *)
OneIdPerMac ==
    ~race => \A m, n \in 1..Len(macOf) : macOf[m] = macOf[n] => m = n

(* Without a race the virtual-switch driver lists exactly the devices of   *)
(* its own that are online, outside of the steps that change both lists.   *)
DriverAgrees ==
    (~race /\ \A t \in VSThreads : pc[t] \in {"start", "idle", "probing", "sweep"}) =>
        { drvq["vs"][i].id : i \in DOMAIN drvq["vs"] }
            = { n \in 1..Len(macOf) : macOf[n] \in VSMacs /\ In(n, queue) }

(* Without a race the last event the pads got about a device tells where   *)
(* it is, once no thread is in the middle of moving it.                    *)
PadsKnow ==
    (~race /\ \A t \in Threads : pc[t] \in {"start", "idle", "probing", "sweep"}) =>
        \A n \in 1..Len(macOf) : told[n] = "OFFLINE" <=> In(n, offq)

(* Without a race a device is dropped on time: at the sweep IdleLimit + 2  *)
(* after the one it was last heard before, neither earlier nor later.      *)
DroppedOnTime ==
    ~race =>
        /\ pc["vs_monitor"] = "announce_off" => quiet[SweepEntry.mac] = IdleLimit + 2
        /\ pc["vs_monitor"] = "idle" =>
              \A i \in DOMAIN drvq["vs"] : quiet[drvq["vs"][i].mac] <= IdleLimit + 1

(* The protocol document: a device id other than 0 stands for a device,    *)
(* and the box allocates and maintains it.  One device, one id.            *)
DeviceHasOneId ==
    \A m, n \in 1..Len(macOf) : macOf[m] = macOf[n] => m = n
=============================================================================
