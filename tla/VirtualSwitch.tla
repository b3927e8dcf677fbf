---------------------------- MODULE VirtualSwitch ----------------------------
(***************************************************************************)
(* The virtual-switch driver and its devices on the local network:         *)
(* core_daemon/driver_virtual_switch.c, with misc/switch_sim.c as the      *)
(* device.                                                                 *)
(*                                                                         *)
(* The driver remembers the address a device answered a probe from and     *)
(* knows the device by that address afterwards: the asynchronous thread    *)
(* sends commands to it, and the monitor attributes what comes from it.    *)
(* Devices are switched off and on and get new addresses, and datagrams    *)
(* are lost or late.  A device that has moved is heard as an unknown       *)
(* address, which starts a probe, but it is entered anew only after its    *)
(* old entry has been swept out.                                           *)
(*                                                                         *)
(* Device ids are stable (DeviceRegistry), so a device stands for its id   *)
(* and its mac.  Two threads inside the list at once are DeviceRegistry's; *)
(* here the list changes in single steps, but an entry may be freed        *)
(* between its look-up and its use.                                        *)
(***************************************************************************)
EXTENDS Integers, Sequences

CONSTANTS
    Devs,        \* virtual-switch devices
    Targets,     \* the devices that get commands
    Addrs,       \* addresses of the local network
    SelectSecs,  \* seconds of silence after which select gives up (2 in the code)
    IdleLimit,   \* idle_time above which a device is dropped (10 in the code)
    InboxCap,    \* bound: datagrams the monitor's socket holds
    MaxMove      \* bound: devices appearing, leaving or changing address

ASSUME NamesAssumption == "none" \notin Devs \cup Addrs
ASSUME TargetsAssumption == Targets \subseteq Devs
ASSUME SelectAssumption == SelectSecs \in Nat \ {0}
ASSUME BoundsAssumption == {IdleLimit, InboxCap, MaxMove} \subseteq Nat

VARIABLES
    at,        \* where each device is now, or "none"
    list,      \* gl_ctx.queue: entries [dev, ip, idle]
    monitor,   \* _monitor_thread: in "select", or "probing"
    waited,    \* seconds the current select has waited without a packet
    alive,     \* devices with a KEEP_ALIVE broadcast to answer
    inbox,     \* datagrams on the monitor's socket, port 19002
    offers,    \* answers to DISCOVER on the socket of the monitor's probe
    call,      \* the asynchronous thread in an operation of the driver
    wire,      \* where the request of the call is on its way to
    answer,    \* the answer on its way to the socket of the call
    done,      \* the devices that have carried out the request
    holders,   \* the devices that have had each address
    nmove

driver == <<list, monitor, waited>>
mail == <<alive, inbox, offers>>
exchange == <<wire, answer, done>>
moves == <<at, holders, nmove>>
vars == <<driver, mail, exchange, moves, call>>

Places == Addrs \cup {"none"}
Datagram == [from : Devs, ip : Addrs]
Idle == [pc |-> "idle", dev |-> "none", ip |-> "none", freed |-> FALSE, result |-> "none"]

Listed(d) == { i \in DOMAIN list : list[i].dev = d }
Present == { d \in Devs : at[d] # "none" }
FromDev(d) == [from |-> d, ip |-> at[d]]

Init ==
    /\ at \in { p \in [Devs -> Places] : \A d, e \in Devs : p[d] = p[e] => d = e \/ p[d] = "none" }
    /\ holders = [a \in Addrs |-> { d \in Devs : at[d] = a }]
    /\ nmove = 0
    /\ list = <<>>
    /\ monitor = "select" /\ waited = 0
    /\ alive = {} /\ inbox = <<>>
    /\ offers = {}
    /\ call = Idle
    /\ wire = "none" /\ answer = "none" /\ done = {}

-----------------------------------------------------------------------------
(* The devices.                                                            *)

(* A device gets an address that is free, or goes away. *)
Move(d, a) ==
    /\ nmove < MaxMove
    /\ a # at[d]
    /\ a \in Addrs => \A e \in Devs : at[e] # a
    /\ at' = [at EXCEPT ![d] = a]
    /\ holders' = IF a \in Addrs THEN [holders EXCEPT ![a] = @ \cup {d}] ELSE holders
    /\ alive' = alive \ {d}
    /\ nmove' = nmove + 1
    /\ UNCHANGED <<driver, inbox, offers, exchange, call>>

(* The datagram reaches the monitor's socket. *)
Arrives(d) ==
    /\ Len(inbox) < InboxCap
    /\ inbox' = Append(inbox, FromDev(d))

(* deal_udp_pkt on a KEEP_ALIVE broadcast. *)
DeviceAlive(d) ==
    /\ d \in alive
    /\ alive' = alive \ {d}
    /\ Arrives(d)
    /\ UNCHANGED <<driver, offers, exchange, moves, call>>

(* deal_input_cmd: a status change, a sensor, a key. *)
DeviceSends(d) ==
    /\ d \in Present
    /\ Arrives(d)
    /\ UNCHANGED <<driver, alive, offers, exchange, moves, call>>

(* deal_udp_pkt on a command: it is carried out and answered, and if the   *)
(* status has changed the device says so.                                  *)
DeviceObeys(d, changed) ==
    /\ d \in Present /\ wire = at[d]
    /\ wire' = "none"
    /\ done' = done \cup {d}
    /\ answer' = "result"
    /\ IF changed THEN Arrives(d) ELSE UNCHANGED inbox
    /\ UNCHANGED <<driver, alive, offers, moves, call>>

(* deal_udp_pkt on a status the device does not have, which is answered by *)
(* an empty datagram, or on a command it does not know, by result 0.       *)
DeviceRefuses(d) ==
    /\ d \in Present /\ wire = at[d]
    /\ wire' = "none"
    /\ answer' \in {"empty", "failed"}
    /\ UNCHANGED <<driver, mail, done, moves, call>>

(* The network loses a request, an answer, or a KEEP_ALIVE either way.     *)
(* Answers to DISCOVER are lost when the probe ends without them.          *)
Lose ==
    /\ \/ wire # "none" /\ wire' = "none" /\ UNCHANGED <<answer, alive>>
       \/ answer # "none" /\ answer' = "none" /\ UNCHANGED <<wire, alive>>
       \/ \E d \in alive : alive' = alive \ {d} /\ UNCHANGED <<wire, answer>>
    /\ UNCHANGED <<driver, inbox, offers, done, moves, call>>

-----------------------------------------------------------------------------
(* _monitor_thread.                                                        *)

(* A second of the current select passes without a packet, not its last. *)
SecondPasses ==
    /\ monitor = "select" /\ inbox = <<>>
    /\ waited + 1 < SelectSecs
    /\ waited' = waited + 1
    /\ UNCHANGED <<list, monitor, mail, exchange, moves, call>>

(* select has returned for a packet, and recvfrom takes it.  The next      *)
(* select waits its full time again.                                       *)
TakesPacket ==
    /\ monitor = "select" /\ inbox # <<>>
    /\ waited' = 0
    /\ inbox' = Tail(inbox)

(* Mutant: hearing from any device keeps every entry. *)
RefreshAll(i) == [j \in DOMAIN list |-> [list[j] EXCEPT !.idle = 0]]

(* _refresh_device *)
Refresh(i) == [list EXCEPT ![i].idle = 0]

(* Mutant: any entry will do. *)
FindDevByIpAny(a) == DOMAIN list

(* _find_dev_by_ip: the first entry with that address. *)
FindDevByIp(a) ==
    { i \in DOMAIN list : list[i].ip = a /\ \A j \in 1..(i - 1) : list[j].ip # a }

(* A message from an address the driver knows: whatever it reports, it     *)
(* reports for the device of the entry, and the entry is refreshed.        *)
MonitorHears ==
    /\ TakesPacket
    /\ \E i \in FindDevByIp(Head(inbox).ip) : list' = Refresh(i)
    /\ UNCHANGED <<monitor, alive, offers, exchange, moves, call>>

(* A message from an unknown address: it is dropped, and a probe starts.   *)
(* In virtual_switch_probe every device there is gets the DISCOVER         *)
(* broadcast and answers from where it is.                                 *)
MonitorProbes ==
    /\ TakesPacket
    /\ FindDevByIp(Head(inbox).ip) = {}
    /\ monitor' = "probing"
    /\ offers' = { FromDev(d) : d \in Present }
    /\ UNCHANGED <<list, alive, exchange, moves, call>>

(* _register_device: a device that is listed stays as it is listed, new    *)
(* address or not.                                                         *)
Entered(o) ==
    IF Listed(o.from) = {} THEN Append(list, [dev |-> o.from, ip |-> o.ip, idle |-> 0]) ELSE list

(* An answer to the probe. *)
RegisterDevice(o) ==
    /\ monitor = "probing" /\ o \in offers
    /\ offers' = offers \ {o}
    /\ list' = Entered(o)
    /\ UNCHANGED <<monitor, waited, alive, inbox, exchange, moves, call>>

(* Three seconds have passed, and the socket of the probe is closed. *)
ProbeEnd ==
    /\ monitor = "probing"
    /\ monitor' = "select"
    /\ offers' = {}
    /\ UNCHANGED <<list, waited, alive, inbox, exchange, moves, call>>

(* The probe a pad has asked for, in the asynchronous thread: its answers  *)
(* are taken as they are sent.                                             *)
AsyncProbe(d) ==
    /\ call.pc = "idle"
    /\ d \in Present
    /\ list' = Entered(FromDev(d))
    /\ UNCHANGED <<monitor, waited, mail, exchange, moves, call>>

(* Mutant: an entry at the limit is kept, and counted on. *)
KeptLonger(e) == e.idle <= IdleLimit + 1

(* The test of _remove_timeout_dev. *)
Kept(e) == e.idle <= IdleLimit

(* _remove_timeout_dev over the whole list: the entries that are kept stay *)
(* in their order, each a step older.                                      *)
Sweep ==
    \E n \in 0..Len(list) : \E was \in [1..n -> DOMAIN list] :
        /\ \A i, j \in 1..n : i < j => was[i] < was[j]
        /\ { was[i] : i \in 1..n } = { i \in DOMAIN list : Kept(list[i]) }
        /\ list' = [i \in 1..n |-> [list[was[i]] EXCEPT !.idle = @ + 1]]

(* The last second of the current select passes without a packet: the      *)
(* sweep, and the next KEEP_ALIVE broadcast.  A packet that comes in       *)
(* between is read after them, as one that comes later.                    *)
MonitorTimeout ==
    /\ monitor = "select" /\ inbox = <<>>
    /\ waited + 1 = SelectSecs
    /\ waited' = 0
    /\ Sweep
    /\ alive' = Present
    /\ call' = [call EXCEPT !.freed = @ \/ /\ call.pc = "found"
                                           /\ \A i \in DOMAIN list' : list'[i].dev # call.dev]
    /\ UNCHANGED <<monitor, inbox, offers, exchange, moves>>

-----------------------------------------------------------------------------
(* virtual_switch_set_status, virtual_switch_get_status and                *)
(* virtual_switch_set_action, in the asynchronous thread.                  *)

(* _find_dev_by_id, and the frame is built. *)
CallBegins(d) ==
    /\ call.pc = "idle"
    /\ IF Listed(d) = {}
       THEN call' = [Idle EXCEPT !.pc = "returned", !.dev = d, !.result = "HSB_E_ENTRY_NOT_FOUND"]
       ELSE \E i \in Listed(d) : call' = [Idle EXCEPT !.pc = "found", !.dev = d, !.ip = list[i].ip]
    /\ UNCHANGED <<driver, mail, exchange, moves>>

(* _transfer: a socket of its own, and the request goes to the address in  *)
(* the entry.  If the entry has been freed meanwhile, the address is what  *)
(* the memory then holds.                                                  *)
Transfer ==
    /\ call.pc = "found"
    /\ wire' \in IF call.freed THEN Addrs ELSE {call.ip}
    /\ call' = [call EXCEPT !.pc = "waiting", !.ip = "none"]
    /\ UNCHANGED <<driver, mail, answer, done, moves>>

(* Mutant: the length of the datagram is not looked at. *)
VerdictLenient(a) == IF a = "failed" THEN "HSB_E_ACT_FAILED" ELSE "HSB_E_OK"

(* What a call makes of the datagram it waited for, "none" if none came. *)
Verdict(a) ==
    IF a = "result" THEN "HSB_E_OK"
    ELSE IF a = "failed" THEN "HSB_E_ACT_FAILED" ELSE "HSB_E_INVALID_MSG"

(* The answer comes, or three seconds pass without one, and the socket is  *)
(* closed: an answer that comes later goes nowhere, and a request that is  *)
(* obeyed later is like the device's own doing (DeviceSends).              *)
CallReturns ==
    /\ call.pc = "waiting"
    /\ \E a \in {answer, "none"} :
         call' = [call EXCEPT !.pc = "returned", !.result = Verdict(a)]
    /\ wire' = "none" /\ answer' = "none"
    /\ UNCHANGED <<driver, mail, done, moves>>

(* The asynchronous thread has answered the pad. *)
CallOver ==
    /\ call.pc = "returned"
    /\ call' = Idle
    /\ done' = {}
    /\ UNCHANGED <<driver, mail, wire, answer, moves>>

-----------------------------------------------------------------------------
Device ==
    \/ \E d \in Devs : DeviceAlive(d) \/ DeviceSends(d) \/ DeviceRefuses(d)
    \/ \E d \in Devs, changed \in BOOLEAN : DeviceObeys(d, changed)
    \/ \E d \in Devs, a \in Places : Move(d, a)
    \/ Lose

Monitor ==
    \/ SecondPasses \/ MonitorHears \/ MonitorProbes \/ MonitorTimeout \/ ProbeEnd
    \/ \E o \in offers : RegisterDevice(o)

Async ==
    \/ \E d \in Targets : CallBegins(d)
    \/ \E d \in Devs : AsyncProbe(d)
    \/ Transfer \/ CallReturns \/ CallOver

Next == Device \/ Monitor \/ Async

Spec == Init /\ [][Next]_vars

(* Time passes, the monitor runs, and its probes end.  No silence is       *)
(* promised: if a packet comes within every SelectSecs, select never gives *)
(* up.  A device that is asked again and again gets a KEEP_ALIVE through   *)
(* in the end, and an answer into a probe.                                 *)
Fairness ==
    /\ WF_vars(SecondPasses) /\ WF_vars(MonitorTimeout)
    /\ WF_vars(MonitorHears \/ MonitorProbes) /\ WF_vars(ProbeEnd)
    /\ \A d \in Devs : /\ SF_vars(DeviceAlive(d))
                       /\ SF_vars(RegisterDevice(FromDev(d)))

FairSpec == Spec /\ Fairness

-----------------------------------------------------------------------------
(* Every variable has its type; in particular idle_time never goes past    *)
(* one more than the limit.                                                *)
TypeOK ==
    /\ at \in [Devs -> Places]
    /\ list \in Seq([dev : Devs, ip : Addrs, idle : 0..(IdleLimit + 1)])
    /\ monitor \in {"select", "probing"} /\ waited \in 0..(SelectSecs - 1)
    /\ alive \subseteq Devs
    /\ inbox \in Seq(Datagram)
    /\ offers \subseteq Datagram
    /\ call \in [pc : {"idle", "found", "waiting", "returned"},
                 dev : Devs \cup {"none"}, ip : Places, freed : BOOLEAN,
                 result : {"none", "HSB_E_OK", "HSB_E_ACT_FAILED", "HSB_E_INVALID_MSG",
                           "HSB_E_ENTRY_NOT_FOUND"}]
    /\ wire \in Places
    /\ answer \in {"none", "result", "empty", "failed"}
    /\ done \subseteq Devs
    /\ holders \in [Addrs -> SUBSET Devs]
    /\ nmove \in 0..MaxMove

(* Two devices have had the same address. *)
Shared(d, e) == \E a \in Addrs : {d, e} \subseteq holders[a]

(* A command reported as HSB_E_OK has been carried out, and a command is   *)
(* carried out only by the device it was for, however late or lost the     *)
(* datagrams are: another device can have obeyed it only if the two have   *)
(* had the same address, or if the entry was freed under the call.         *)
OkMeansDone ==
    /\ call.result = "HSB_E_OK" => done # {}
    /\ ~call.freed => \A d \in done : d = call.dev \/ Shared(d, call.dev)

(* The monitor would take the message at hand for another device's only at *)
(* an address that both devices have had.                                  *)
EventsAttributed ==
    inbox # <<>> => LET m == Head(inbox) IN
        \A i \in FindDevByIp(m.ip) : list[i].dev = m.from \/ {list[i].dev, m.from} \subseteq holders[m.ip]

(* The driver knows where the device is, or that it is gone. *)
Found(d) ==
    IF at[d] = "none" THEN Listed(d) = {}
    ELSE \E i \in Listed(d) : list[i].ip = at[d]

(* An address under which one device is listed is another device's. *)
SomeTaken == \E i \in DOMAIN list : \E d \in Devs : d # list[i].dev /\ at[d] = list[i].ip

(* The driver finds out again and again where a device that gets commands  *)
(* is, after it was switched off or on or got a new address and whatever   *)
(* was lost, though it never updates an entry: a stale one is swept and    *)
(* the device is probed anew.  Only two things keep a device lost for      *)
(* good: silences of SelectSecs seconds that stop recurring, as when one   *)
(* other device sends a packet every second (the monitor sweeps and        *)
(* broadcasts only in a silence), and another device at a stale address,   *)
(* whose messages keep the entry.                                          *)
Recovers == \A d \in Targets : []<>Found(d) \/ <>[][~MonitorTimeout]_vars \/ <>[]SomeTaken
=============================================================================
