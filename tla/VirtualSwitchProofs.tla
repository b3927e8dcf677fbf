------------------------- MODULE VirtualSwitchProofs -------------------------
(* Theorems about VirtualSwitch, for any devices, addresses and bounds.    *)
EXTENDS VirtualSwitch, TLAPS

(* The invariant follows an address from the device to the list, to the    *)
(* sockets and to the request of a call: whoever is known or heard at an   *)
(* address has had it (HeldInv), and what a call has under way belongs to  *)
(* it (CallInv).                                                           *)

Entry == [dev : Devs, ip : Addrs, idle : 0..(IdleLimit + 1)]
CallType == [pc : {"idle", "found", "waiting", "returned"},
             dev : Devs \cup {"none"}, ip : Places, freed : BOOLEAN,
             result : {"none", "HSB_E_OK", "HSB_E_ACT_FAILED", "HSB_E_INVALID_MSG",
                       "HSB_E_ENTRY_NOT_FOUND"}]

Held(d, a) == a \in Addrs /\ d \in holders[a]

HeldInv ==
    /\ \A d \in Devs : at[d] # "none" => Held(d, at[d])
    /\ \A i \in DOMAIN list : Held(list[i].dev, list[i].ip)
    /\ \A i \in DOMAIN inbox : Held(inbox[i].from, inbox[i].ip)
    /\ \A o \in offers : Held(o.from, o.ip)
    /\ alive \subseteq Present

CallInv ==
    /\ call.pc # "idle" => call.dev \in Devs
    /\ call.pc = "found" => Held(call.dev, call.ip)
    /\ wire # "none" => call.pc = "waiting" /\ (~call.freed => Held(call.dev, wire))
    /\ answer # "none" => call.pc = "waiting"
    /\ answer = "result" => done # {}
    /\ done # {} => call.pc \in {"waiting", "returned"}
    /\ call.result # "none" => call.pc = "returned"

IInv == TypeOK /\ HeldInv /\ CallInv /\ OkMeansDone

-----------------------------------------------------------------------------
(* What a queue that is not empty holds. *)
LEMMA QueueFact ==
    ASSUME NEW S, NEW q \in Seq(S), q # <<>>
    PROVE  /\ Head(q) \in S /\ Tail(q) \in Seq(S) /\ 1 \in DOMAIN q /\ Head(q) = q[1]
           /\ \A i \in DOMAIN Tail(q) : i + 1 \in DOMAIN q /\ Tail(q)[i] = q[i + 1]
  OBVIOUS

LEMMA AppendFact ==
    ASSUME NEW S, NEW q \in Seq(S), NEW x \in S
    PROVE  /\ Append(q, x) \in Seq(S)
           /\ \A i \in DOMAIN Append(q, x) : Append(q, x)[i] = x \/ (i \in DOMAIN q /\ Append(q, x)[i] = q[i])
  OBVIOUS

LEMMA IdleFact == Idle \in CallType /\ Idle.pc = "idle" /\ Idle.result = "none" /\ ~Idle.freed
  BY DEF Idle, CallType, Places

(* The initial states satisfy the invariant. *)
LEMMA IInit == Init => IInv
<1> SUFFICES ASSUME Init PROVE IInv
  OBVIOUS
<1>1. at \in [Devs -> Places]
  BY DEF Init
<1>2. TypeOK
  <2>1. call \in CallType
    BY IdleFact DEF Init
  <2>2. waited \in 0..(SelectSecs - 1)
    BY SelectAssumption DEF Init
  <2> QED BY <1>1, <2>1, <2>2, BoundsAssumption DEF Init, TypeOK, CallType, Places
<1>3. HeldInv
  <2>1. ASSUME NEW d \in Devs, at[d] # "none" PROVE Held(d, at[d])
    <3>1. at[d] \in Addrs
      BY <1>1, <2>1 DEF Places
    <3> QED BY <3>1 DEF Init, Held
  <2> QED BY <2>1 DEF Init, HeldInv
<1>4. CallInv /\ OkMeansDone
  BY IdleFact DEF Init, CallInv, OkMeansDone
<1> QED BY <1>2, <1>3, <1>4 DEF IInv

(* Where a device that is there sends from. *)
LEMMA FromFact ==
    ASSUME TypeOK, HeldInv, NEW d \in Present
    PROVE  /\ d \in Devs /\ at[d] \in Addrs /\ FromDev(d) \in Datagram
           /\ FromDev(d).from = d /\ FromDev(d).ip = at[d] /\ Held(d, at[d])
  BY DEF TypeOK, HeldInv, Present, FromDev, Datagram, Held, Places

(* A datagram on the monitor's socket. *)
LEMMA ArrivesFact ==
    ASSUME TypeOK, HeldInv, NEW d \in Present, Arrives(d)
    PROVE  inbox' \in Seq(Datagram) /\ \A i \in DOMAIN inbox' : Held(inbox'[i].from, inbox'[i].ip)
<1>1. inbox \in Seq(Datagram) /\ \A i \in DOMAIN inbox : Held(inbox[i].from, inbox[i].ip)
  BY DEF TypeOK, HeldInv
<1>2. inbox' = Append(inbox, FromDev(d))
  BY DEF Arrives
<1>3. inbox' \in Seq(Datagram)
  BY <1>1, <1>2, AppendFact, FromFact
<1>4. \A i \in DOMAIN inbox' : inbox'[i] = FromDev(d) \/ (i \in DOMAIN inbox /\ inbox'[i] = inbox[i])
  BY <1>1, <1>2, AppendFact, FromFact
<1> QED BY <1>1, <1>3, <1>4, FromFact

(* The rest of the monitor's datagrams. *)
LEMMA TakenFact ==
    ASSUME TypeOK, HeldInv, inbox # <<>>, inbox' = Tail(inbox)
    PROVE  inbox' \in Seq(Datagram) /\ \A i \in DOMAIN inbox' : Held(inbox'[i].from, inbox'[i].ip)
<1>1. inbox \in Seq(Datagram) /\ \A i \in DOMAIN inbox : Held(inbox[i].from, inbox[i].ip)
  BY DEF TypeOK, HeldInv
<1>2. inbox' \in Seq(Datagram) /\ \A i \in DOMAIN inbox' : i + 1 \in DOMAIN inbox /\ inbox'[i] = inbox[i + 1]
  BY <1>1, QueueFact
<1> QED BY <1>1, <1>2

(* A device is entered at most once, at the address it answered from. *)
LEMMA EnteredFact ==
    ASSUME TypeOK, HeldInv, NEW o \in Datagram, Held(o.from, o.ip), list' = Entered(o)
    PROVE  list' \in Seq(Entry) /\ \A i \in DOMAIN list' : Held(list'[i].dev, list'[i].ip)
<1>1. list \in Seq(Entry) /\ \A i \in DOMAIN list : Held(list[i].dev, list[i].ip)
  BY DEF TypeOK, HeldInv, Entry
<1>2. CASE list' = list
  BY <1>1, <1>2
<1>3. CASE list' = Append(list, [dev |-> o.from, ip |-> o.ip, idle |-> 0])
  <2>1. PICK x : x = [dev |-> o.from, ip |-> o.ip, idle |-> 0]
    OBVIOUS
  <2>2. x \in Entry /\ Held(x.dev, x.ip)
    BY <2>1, BoundsAssumption DEF Entry, Datagram
  <2>3. list' \in Seq(Entry)
    BY <1>1, <1>3, <2>1, <2>2, AppendFact
  <2>4. \A i \in DOMAIN list' : list'[i] = x \/ (i \in DOMAIN list /\ list'[i] = list[i])
    BY <1>1, <1>3, <2>1, <2>2, AppendFact
  <2> QED BY <1>1, <2>2, <2>3, <2>4
<1> QED BY <1>2, <1>3 DEF Entered

(* The sweep keeps entries as they are, but for their age. *)
LEMMA SweepFact ==
    ASSUME TypeOK, HeldInv, Sweep
    PROVE  list' \in Seq(Entry) /\ \A i \in DOMAIN list' : Held(list'[i].dev, list'[i].ip)
<1>1. list \in Seq(Entry) /\ \A i \in DOMAIN list : Held(list[i].dev, list[i].ip)
  BY DEF TypeOK, HeldInv, Entry
<1>2. PICK n \in 0..Len(list) : \E was \in [1..n -> DOMAIN list] :
        /\ { was[i] : i \in 1..n } = { i \in DOMAIN list : Kept(list[i]) }
        /\ list' = [i \in 1..n |-> [list[was[i]] EXCEPT !.idle = @ + 1]]
  BY DEF Sweep
<1>3. PICK was \in [1..n -> DOMAIN list] :
        /\ { was[i] : i \in 1..n } = { i \in DOMAIN list : Kept(list[i]) }
        /\ list' = [i \in 1..n |-> [list[was[i]] EXCEPT !.idle = @ + 1]]
  BY <1>2
<1>4. n \in Nat
  BY <1>1
<1>5. ASSUME NEW i \in 1..n
      PROVE  /\ list'[i] \in Entry
             /\ Held(list'[i].dev, list'[i].ip)
  <2>1. was[i] \in DOMAIN list /\ Kept(list[was[i]])
    BY <1>3
  <2>2. list[was[i]] \in Entry /\ Held(list[was[i]].dev, list[was[i]].ip)
    BY <1>1, <2>1
  <2>3. list'[i] = [list[was[i]] EXCEPT !.idle = list[was[i]].idle + 1]
    BY <1>3
  <2>4. list[was[i]].idle + 1 \in 0..(IdleLimit + 1)
    BY <2>1, <2>2, BoundsAssumption DEF Kept, Entry
  <2> QED BY <2>2, <2>3, <2>4 DEF Entry
<1>6. DOMAIN list' = 1..n /\ list' \in [1..n -> Entry]
  BY <1>3, <1>5
<1>7. list' \in Seq(Entry)
  BY <1>4, <1>6
<1> QED BY <1>5, <1>6, <1>7

(* What the calls have under way does not change. *)
LEMMA CallFrame ==
    ASSUME IInv, UNCHANGED <<call, exchange, holders>>
    PROVE  CallInv' /\ OkMeansDone'
  BY DEF IInv, CallInv, OkMeansDone, Held, Shared, exchange

(* A device moves. *)
LEMMA MoveStep ==
    ASSUME IInv, NEW d \in Devs, NEW a \in Places, Move(d, a)
    PROVE  IInv'
<1>1. /\ at \in [Devs -> Places] /\ holders \in [Addrs -> SUBSET Devs]
      /\ at' = [at EXCEPT ![d] = a]
      /\ holders' = IF a \in Addrs THEN [holders EXCEPT ![a] = @ \cup {d}] ELSE holders
      /\ alive' = alive \ {d} /\ nmove' = nmove + 1 /\ nmove < MaxMove
      /\ UNCHANGED <<list, monitor, waited, inbox, offers, wire, answer, done, call>>
  BY DEF IInv, TypeOK, Move, driver, exchange
<1>2. /\ at' \in [Devs -> Places] /\ holders' \in [Addrs -> SUBSET Devs]
      /\ at'[d] = a /\ \A e \in Devs : e # d => at'[e] = at[e]
      /\ a # "none" => a \in Addrs /\ d \in holders'[a]
      /\ \A b \in Addrs : holders[b] \subseteq holders'[b]
  BY <1>1 DEF Places
<1>3. \A e, b : Held(e, b) => Held(e, b)'
  BY <1>2 DEF Held
<1>4. TypeOK'
  BY <1>1, <1>2, BoundsAssumption DEF IInv, TypeOK
<1>5. HeldInv'
  <2>1. \A e \in Devs : at'[e] # "none" => Held(e, at[e])'
    BY <1>2 DEF IInv, HeldInv, Held
  <2>2. /\ \A i \in DOMAIN list' : Held(list[i].dev, list[i].ip)'
        /\ \A i \in DOMAIN inbox' : Held(inbox[i].from, inbox[i].ip)'
        /\ \A o \in offers' : Held(o.from, o.ip)'
    BY <1>1, <1>2 DEF IInv, HeldInv, Held
  <2>3. alive' \subseteq Present'
    BY <1>1, <1>2 DEF IInv, HeldInv, Present
  <2> QED BY <2>1, <2>2, <2>3 DEF HeldInv
<1>6. CallInv'
  BY <1>1, <1>2 DEF IInv, CallInv, Held
<1>7. OkMeansDone'
  <2>1. \A e, f : Shared(e, f) => Shared(e, f)'
    BY <1>2 DEF Shared
  <2> QED BY <1>1, <2>1 DEF IInv, OkMeansDone
<1> QED BY <1>4, <1>5, <1>6, <1>7 DEF IInv

(* A device, or the network, does something. *)
LEMMA DeviceStep == IInv /\ Device => IInv'
<1> SUFFICES ASSUME IInv, Device PROVE IInv'
  OBVIOUS
<1>1. ASSUME NEW d \in Devs, DeviceAlive(d) \/ DeviceSends(d) PROVE IInv'
  <2>1. d \in Present /\ Arrives(d)
    BY <1>1 DEF IInv, HeldInv, DeviceAlive, DeviceSends
  <2>2. /\ UNCHANGED <<list, monitor, waited, offers, wire, answer, done, at, holders, nmove, call>>
        /\ alive' \subseteq alive
    BY <1>1 DEF DeviceAlive, DeviceSends, driver, exchange, moves
  <2>3. inbox' \in Seq(Datagram) /\ \A i \in DOMAIN inbox' : Held(inbox'[i].from, inbox'[i].ip)
    BY <2>1, ArrivesFact DEF IInv
  <2>4. TypeOK'
    BY <2>2, <2>3 DEF IInv, TypeOK
  <2>5. HeldInv'
    BY <2>2, <2>3 DEF IInv, HeldInv, Held, Present
  <2> QED BY <2>2, <2>4, <2>5, CallFrame DEF IInv, exchange
<1>2. ASSUME NEW d \in Devs, d \in Present, wire = at[d]
      PROVE  call.pc = "waiting" /\ (~call.freed => Shared(d, call.dev))
  <2>1. wire # "none" /\ Held(d, wire)
    BY <1>2, FromFact DEF IInv, Present
  <2>2. call.pc = "waiting" /\ (~call.freed => Held(call.dev, wire))
    BY <2>1 DEF IInv, CallInv
  <2> QED BY <2>1, <2>2 DEF Held, Shared
<1>3. ASSUME NEW d \in Devs, NEW changed \in BOOLEAN, DeviceObeys(d, changed) PROVE IInv'
  <2>1. /\ d \in Present /\ wire = at[d] /\ wire' = "none" /\ done' = done \cup {d} /\ answer' = "result"
        /\ UNCHANGED <<list, monitor, waited, alive, offers, at, holders, nmove, call>>
        /\ Arrives(d) \/ inbox' = inbox
    BY <1>3 DEF DeviceObeys, driver, moves
  <2>2. inbox' \in Seq(Datagram) /\ \A i \in DOMAIN inbox' : Held(inbox'[i].from, inbox'[i].ip)
    BY <2>1, ArrivesFact DEF IInv, TypeOK, HeldInv
  <2>3. TypeOK'
    BY <2>1, <2>2 DEF IInv, TypeOK, Places
  <2>4. HeldInv'
    BY <2>1, <2>2 DEF IInv, HeldInv, Held, Present
  <2>5. call.pc = "waiting" /\ (~call.freed => Shared(d, call.dev))
    BY <1>2, <2>1
  <2>6. CallInv'
    BY <2>1, <2>5 DEF IInv, CallInv, Held
  <2>7. OkMeansDone'
    BY <2>1, <2>5 DEF IInv, OkMeansDone, Shared
  <2> QED BY <2>3, <2>4, <2>6, <2>7 DEF IInv
<1>4. ASSUME NEW d \in Devs, DeviceRefuses(d) PROVE IInv'
  <2>1. /\ d \in Present /\ wire = at[d] /\ wire' = "none" /\ answer' \in {"empty", "failed"}
        /\ UNCHANGED <<list, monitor, waited, alive, inbox, offers, at, holders, nmove, done, call>>
    BY <1>4 DEF DeviceRefuses, driver, mail, moves
  <2>2. TypeOK' /\ HeldInv'
    BY <2>1 DEF IInv, TypeOK, HeldInv, Held, Present, Places
  <2>3. call.pc = "waiting"
    BY <1>2, <2>1
  <2> QED BY <2>1, <2>2, <2>3 DEF IInv, CallInv, OkMeansDone, Held, Shared
<1>5. CASE Lose
  <2>1. /\ UNCHANGED <<list, monitor, waited, inbox, offers, at, holders, nmove, done, call>>
        /\ wire' \in {wire, "none"} /\ answer' \in {answer, "none"} /\ alive' \subseteq alive
    BY <1>5 DEF Lose, driver, moves
  <2>2. TypeOK' /\ HeldInv'
    BY <2>1 DEF IInv, TypeOK, HeldInv, Held, Present, Places
  <2> QED BY <2>1, <2>2 DEF IInv, CallInv, OkMeansDone, Held, Shared
<1> QED BY <1>1, <1>3, <1>4, <1>5, MoveStep DEF Device

(* The monitor does something. *)
LEMMA MonitorStep == IInv /\ Monitor => IInv'
<1> SUFFICES ASSUME IInv, Monitor PROVE IInv'
  OBVIOUS
<1>0. 0 \in 0..(SelectSecs - 1)
  BY SelectAssumption
<1>1. CASE MonitorHears
  <2>1. /\ inbox # <<>> /\ inbox' = Tail(inbox) /\ waited' = 0
        /\ UNCHANGED <<monitor, alive, offers, wire, answer, done, at, holders, nmove, call>>
    BY <1>1 DEF MonitorHears, TakesPacket, exchange, moves
  <2>2. PICK k \in DOMAIN list : list' = [list EXCEPT ![k].idle = 0]
    BY <1>1 DEF MonitorHears, FindDevByIp, Refresh
  <2>3. list \in Seq(Entry) /\ \A i \in DOMAIN list : Held(list[i].dev, list[i].ip)
    BY DEF IInv, TypeOK, HeldInv, Entry
  <2>4. /\ \A i \in DOMAIN list : list[i] \in Entry
        /\ DOMAIN list' = DOMAIN list
        /\ \A i \in DOMAIN list : list'[i] = list[i] \/ list'[i] = [list[i] EXCEPT !.idle = 0]
    BY <2>2, <2>3
  <2>5. ASSUME NEW i \in DOMAIN list' PROVE list'[i] \in Entry /\ Held(list'[i].dev, list'[i].ip)
    <3>1. list[i] \in Entry /\ Held(list[i].dev, list[i].ip)
      BY <2>3, <2>4
    <3>2. CASE list'[i] = [list[i] EXCEPT !.idle = 0]
      <4>1. list'[i] \in Entry /\ list'[i].dev = list[i].dev /\ list'[i].ip = list[i].ip
        BY <3>1, <3>2, BoundsAssumption DEF Entry
      <4> QED BY <3>1, <4>1
    <3> QED BY <2>4, <3>1, <3>2
  <2>6. list' \in Seq(Entry)
    BY <2>2, <2>3, <2>4, <2>5
  <2>7. inbox' \in Seq(Datagram) /\ \A i \in DOMAIN inbox' : Held(inbox'[i].from, inbox'[i].ip)
    BY <2>1, TakenFact DEF IInv
  <2>8. TypeOK'
    BY <1>0, <2>1, <2>6, <2>7 DEF IInv, TypeOK, Entry
  <2>9. HeldInv'
    BY <2>1, <2>5, <2>7 DEF IInv, HeldInv, Held, Present
  <2> QED BY <2>1, <2>8, <2>9, CallFrame DEF IInv, exchange
<1>2. CASE MonitorProbes
  <2>1. /\ inbox # <<>> /\ inbox' = Tail(inbox) /\ monitor' = "probing"
        /\ offers' = { FromDev(d) : d \in Present } /\ waited' = 0
        /\ UNCHANGED <<list, alive, wire, answer, done, at, holders, nmove, call>>
    BY <1>2 DEF MonitorProbes, TakesPacket, exchange, moves
  <2>2. inbox' \in Seq(Datagram) /\ \A i \in DOMAIN inbox' : Held(inbox'[i].from, inbox'[i].ip)
    BY <2>1, TakenFact DEF IInv
  <2>3. \A o \in offers' : o \in Datagram /\ Held(o.from, o.ip)
    BY <2>1, FromFact DEF IInv
  <2>4. TypeOK'
    BY <1>0, <2>1, <2>2, <2>3 DEF IInv, TypeOK
  <2>5. HeldInv'
    BY <2>1, <2>2, <2>3 DEF IInv, HeldInv, Held, Present
  <2> QED BY <2>1, <2>4, <2>5, CallFrame DEF IInv, exchange
<1>3. ASSUME NEW o \in offers, RegisterDevice(o) PROVE IInv'
  <2>1. /\ list' = Entered(o) /\ offers' = offers \ {o}
        /\ UNCHANGED <<monitor, waited, alive, inbox, wire, answer, done, at, holders, nmove, call>>
    BY <1>3 DEF RegisterDevice, exchange, moves
  <2>2. o \in Datagram /\ Held(o.from, o.ip)
    BY DEF IInv, TypeOK, HeldInv
  <2>3. list' \in Seq(Entry) /\ \A i \in DOMAIN list' : Held(list'[i].dev, list'[i].ip)
    BY <2>1, <2>2, EnteredFact DEF IInv
  <2>4. TypeOK'
    BY <2>1, <2>3 DEF IInv, TypeOK, Entry
  <2>5. HeldInv'
    BY <2>1, <2>3 DEF IInv, HeldInv, Held, Present
  <2> QED BY <2>1, <2>4, <2>5, CallFrame DEF IInv, exchange
<1>4. CASE ProbeEnd
  <2>1. /\ offers' = {} /\ monitor' = "select"
        /\ UNCHANGED <<list, waited, alive, inbox, wire, answer, done, at, holders, nmove, call>>
    BY <1>4 DEF ProbeEnd, exchange, moves
  <2>2. TypeOK' /\ HeldInv'
    BY <2>1 DEF IInv, TypeOK, HeldInv, Held, Present
  <2> QED BY <2>1, <2>2, CallFrame DEF IInv, exchange
<1>5. CASE MonitorTimeout
  <2>1. /\ Sweep /\ alive' = Present /\ waited' = 0
        /\ UNCHANGED <<monitor, inbox, offers, wire, answer, done, at, holders, nmove>>
    BY <1>5 DEF MonitorTimeout, exchange, moves
  <2>2. list' \in Seq(Entry) /\ \A i \in DOMAIN list' : Held(list'[i].dev, list'[i].ip)
    BY <2>1, SweepFact DEF IInv
  <2>3. /\ call' \in CallType
        /\ call'.pc = call.pc /\ call'.dev = call.dev /\ call'.ip = call.ip /\ call'.result = call.result
        /\ ~call'.freed => ~call.freed
    <3>1. call \in CallType
      BY DEF IInv, TypeOK, CallType
    <3>2. PICK b \in BOOLEAN : call' = [call EXCEPT !.freed = call.freed \/ b]
      BY <1>5 DEF MonitorTimeout
    <3> QED BY <3>1, <3>2 DEF CallType
  <2>4. TypeOK'
    BY <1>0, <2>1, <2>2, <2>3 DEF IInv, TypeOK, Entry, CallType, Present
  <2>5. HeldInv'
    BY <2>1, <2>2 DEF IInv, HeldInv, Held, Present
  <2>6. CallInv' /\ OkMeansDone'
    BY <2>1, <2>3 DEF IInv, CallInv, OkMeansDone, Held, Shared
  <2> QED BY <2>4, <2>5, <2>6 DEF IInv
<1>6. CASE SecondPasses
  <2>1. /\ waited' = waited + 1 /\ waited + 1 < SelectSecs
        /\ UNCHANGED <<list, monitor, alive, inbox, offers, wire, answer, done, at, holders, nmove, call>>
    BY <1>6 DEF SecondPasses, mail, exchange, moves
  <2>2. waited' \in 0..(SelectSecs - 1)
    <3>1. waited \in 0..(SelectSecs - 1)
      BY DEF IInv, TypeOK
    <3> QED BY <2>1, <3>1, SelectAssumption
  <2>3. TypeOK'
    BY <2>1, <2>2 DEF IInv, TypeOK
  <2>4. HeldInv'
    BY <2>1 DEF IInv, HeldInv, Held, Present
  <2> QED BY <2>1, <2>3, <2>4, CallFrame DEF IInv, exchange
<1> QED BY <1>1, <1>2, <1>3, <1>4, <1>5, <1>6 DEF Monitor

(* The asynchronous thread does something. *)
LEMMA AsyncStep == IInv /\ Async => IInv'
<1> SUFFICES ASSUME IInv, Async PROVE IInv'
  OBVIOUS
<1>1. ASSUME UNCHANGED <<driver, mail, moves>>, call' \in CallType, wire' \in Places,
             answer' \in {"none", "result", "empty", "failed"}, done' \subseteq Devs
      PROVE  TypeOK' /\ HeldInv'
  BY <1>1 DEF IInv, TypeOK, HeldInv, Held, Present, CallType, driver, mail, moves
<1>2. ASSUME NEW d \in Devs, AsyncProbe(d) PROVE IInv'
  <2>1. /\ d \in Present /\ list' = Entered(FromDev(d))
        /\ UNCHANGED <<monitor, waited, alive, inbox, offers, wire, answer, done, at, holders, nmove, call>>
    BY <1>2 DEF AsyncProbe, mail, exchange, moves
  <2>2. FromDev(d) \in Datagram /\ Held(FromDev(d).from, FromDev(d).ip)
    BY <2>1, FromFact DEF IInv
  <2>3. list' \in Seq(Entry) /\ \A i \in DOMAIN list' : Held(list'[i].dev, list'[i].ip)
    BY <2>1, <2>2, EnteredFact DEF IInv
  <2>4. TypeOK'
    BY <2>1, <2>3 DEF IInv, TypeOK, Entry
  <2>5. HeldInv'
    BY <2>1, <2>3 DEF IInv, HeldInv, Held, Present
  <2> QED BY <2>1, <2>4, <2>5, CallFrame DEF IInv, exchange
<1>3. ASSUME NEW d \in Targets, CallBegins(d) PROVE IInv'
  <2>1. /\ call.pc = "idle" /\ d \in Devs
        /\ UNCHANGED <<driver, mail, moves, wire, answer, done, holders>>
    BY <1>3, TargetsAssumption DEF CallBegins, exchange, moves
  <2>2. wire = "none" /\ answer = "none" /\ done = {}
    BY <2>1 DEF IInv, CallInv
  <2>3. call' \in CallType /\ call'.dev = d /\ call'.result # "HSB_E_OK"
    <3>1. \A i \in DOMAIN list : list[i].ip \in Addrs
      BY DEF IInv, HeldInv, Held
    <3> QED BY <1>3, <2>1, <3>1 DEF CallBegins, Idle, CallType, Listed, Places
  <2>4. /\ call'.pc = "found" => Held(d, call'.ip) /\ call'.result = "none"
        /\ call'.pc \in {"found", "returned"}
    BY <1>3 DEF CallBegins, Idle, Listed, IInv, HeldInv
  <2>5. TypeOK' /\ HeldInv'
    BY <1>1, <2>1, <2>3 DEF IInv, TypeOK
  <2>6. CallInv' /\ OkMeansDone'
    BY <2>1, <2>2, <2>3, <2>4 DEF CallInv, OkMeansDone, Held
  <2> QED BY <2>5, <2>6 DEF IInv
<1>4. ASSUME NEW c \in CallType, NEW x \in CallType, x = [c EXCEPT !.pc = "waiting", !.ip = "none"]
      PROVE  x.pc = "waiting" /\ x.dev = c.dev /\ x.freed = c.freed /\ x.result = c.result
  BY <1>4 DEF CallType
<1>5. call \in CallType
  BY DEF IInv, TypeOK, CallType
<1>6. CASE Transfer
  <2>1. /\ call.pc = "found" /\ call' = [call EXCEPT !.pc = "waiting", !.ip = "none"]
        /\ UNCHANGED <<driver, mail, moves, answer, done, holders>>
        /\ wire' \in IF call.freed THEN Addrs ELSE {call.ip}
    BY <1>6 DEF Transfer, moves
  <2>2. /\ call' \in CallType /\ call'.pc = "waiting" /\ call'.dev = call.dev
        /\ call'.freed = call.freed /\ call'.result = call.result
    <3>1. call' \in CallType
      BY <1>5, <2>1 DEF Places, CallType
    <3> QED BY <1>4, <1>5, <2>1, <3>1
  <2>3. Held(call.dev, call.ip) /\ call.dev \in Devs
    BY <2>1 DEF IInv, CallInv
  <2>4. wire' \in Addrs /\ (~call.freed => wire' = call.ip)
    BY <2>1, <2>3 DEF Held
  <2>5. TypeOK' /\ HeldInv'
    BY <1>1, <2>1, <2>2, <2>4 DEF IInv, TypeOK, Places
  <2>6. CallInv' /\ OkMeansDone'
    BY <2>1, <2>2, <2>3, <2>4 DEF IInv, CallInv, OkMeansDone, Held, Shared
  <2> QED BY <2>5, <2>6 DEF IInv
<1>7. CASE CallReturns
  <2>1. PICK a \in {answer, "none"} : call' = [call EXCEPT !.pc = "returned", !.result = Verdict(a)]
    BY <1>7 DEF CallReturns
  <2>2. /\ call.pc = "waiting" /\ wire' = "none" /\ answer' = "none"
        /\ UNCHANGED <<driver, mail, moves, done, holders>>
    BY <1>7 DEF CallReturns, moves
  <2>3. /\ Verdict(a) \in {"HSB_E_OK", "HSB_E_ACT_FAILED", "HSB_E_INVALID_MSG"}
        /\ Verdict(a) = "HSB_E_OK" => done # {}
    BY <2>1 DEF Verdict, IInv, CallInv
  <2>4. /\ call' \in CallType /\ call'.pc = "returned" /\ call'.dev = call.dev
        /\ call'.freed = call.freed /\ call'.result = Verdict(a)
    <3>1. PICK r : r = Verdict(a)
      OBVIOUS
    <3>2. call' = [call EXCEPT !.pc = "returned", !.result = r]
      BY <2>1, <3>1
    <3>3. call' \in CallType
      BY <1>5, <2>3, <3>1, <3>2 DEF CallType
    <3>4. call'.pc = "returned" /\ call'.dev = call.dev /\ call'.freed = call.freed /\ call'.result = r
      BY <1>5, <3>2 DEF CallType
    <3> QED BY <3>1, <3>3, <3>4
  <2>5. TypeOK' /\ HeldInv'
    BY <1>1, <2>2, <2>4 DEF IInv, TypeOK, Places
  <2>6. CallInv' /\ OkMeansDone'
    BY <2>2, <2>3, <2>4 DEF IInv, CallInv, OkMeansDone, Shared
  <2> QED BY <2>5, <2>6 DEF IInv
<1>8. CASE CallOver
  <2>1. /\ call.pc = "returned" /\ call' = Idle /\ done' = {}
        /\ UNCHANGED <<driver, mail, moves, wire, answer>>
    BY <1>8 DEF CallOver
  <2>2. wire = "none" /\ answer = "none"
    BY <2>1 DEF IInv, CallInv
  <2>3. TypeOK' /\ HeldInv'
    BY <1>1, <2>1, IdleFact DEF IInv, TypeOK
  <2> QED BY <2>1, <2>2, <2>3, IdleFact DEF IInv, CallInv, OkMeansDone
<1> QED BY <1>2, <1>3, <1>6, <1>7, <1>8 DEF Async

LEMMA IStep == IInv /\ [Next]_vars => IInv'
<1>1. IInv /\ UNCHANGED vars => IInv'
  BY DEF vars, driver, mail, exchange, moves, IInv, TypeOK, HeldInv, Held, Present, CallInv, OkMeansDone,
         Shared
<1> QED BY <1>1, DeviceStep, MonitorStep, AsyncStep DEF Next

LEMMA Invariance == Spec => []IInv
  BY IInit, IStep, PTL DEF Spec

-----------------------------------------------------------------------------
(* Every variable keeps its type, and idle_time its bound. *)
THEOREM TypeCorrect == Spec => []TypeOK
<1>1. IInv => TypeOK
  BY DEF IInv
<1> QED BY <1>1, Invariance, PTL

(* virtual_switch_set_status and its like report HSB_E_OK only for what    *)
(* has been carried out, and a command reaches another device only at an   *)
(* address both have had, whatever _remove_timeout_dev, _register_device   *)
(* and the network do meanwhile.                                           *)
THEOREM OkCorrect == Spec => []OkMeansDone
<1>1. IInv => OkMeansDone
  BY DEF IInv
<1> QED BY <1>1, Invariance, PTL

(* The monitor takes a message for another device's only at an address     *)
(* that both have had, though entries are never updated.                   *)
THEOREM EventsCorrect == Spec => []EventsAttributed
<1>1. IInv => EventsAttributed
  <2> SUFFICES ASSUME IInv, inbox # <<>>, NEW i \in FindDevByIp(Head(inbox).ip)
               PROVE  {list[i].dev, Head(inbox).from} \subseteq holders[Head(inbox).ip]
    BY DEF EventsAttributed
  <2>1. inbox \in Seq(Datagram)
    BY DEF IInv, TypeOK
  <2>2. Head(inbox) = inbox[1] /\ 1 \in DOMAIN inbox
    BY <2>1, QueueFact
  <2>3. Held(Head(inbox).from, Head(inbox).ip)
    BY <2>2 DEF IInv, HeldInv
  <2>4. i \in DOMAIN list /\ list[i].ip = Head(inbox).ip
    BY DEF FindDevByIp
  <2>5. Held(list[i].dev, Head(inbox).ip)
    BY <2>4 DEF IInv, HeldInv
  <2> QED BY <2>3, <2>5 DEF Held
<1> QED BY <1>1, Invariance, PTL
=============================================================================
