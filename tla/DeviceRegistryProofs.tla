------------------------- MODULE DeviceRegistryProofs -------------------------
(* Theorems about DeviceRegistry, for any number of devices and ids and    *)
(* any limit of silence.                                                   *)
EXTENDS DeviceRegistry, FiniteSetTheorems, TLAPS

Holding == {"push", "announce", "enlist"}
Working == {"scan", "create", "found"} \cup Holding
Dropping == {"announce_off", "unlist"}
Sweepers == {"sweep"} \cup Dropping
MacsOn(d) == IF d = "cz" THEN CZMacs ELSE VSMacs
vs_monitor == pc["vs_monitor"]

(* Races or not: a thread in _register_device has a device of its driver   *)
(* at hand, and only the monitor sweeps.                                   *)
LocalOk(t) ==
    /\ pc[t] \in Working => loc[t].mac \in MacsOf(t)
    /\ pc[t] \in Holding \cup {"found"} => loc[t].dev \in Ids
    /\ pc[t] = "found" => loc[t].idx # 0
    /\ pc[t] \in Sweepers => t = "vs_monitor"

LocalInv ==
    /\ \A t \in Threads : LocalOk(t)
    /\ vs_monitor \in Sweepers => sweep.pos # 0
    /\ vs_monitor \in Dropping => sweep.pos \in DOMAIN drvq["vs"]

(* Without a race: one thread at a time is inside the virtual-switch       *)
(* driver, and one pops offq.                                              *)
Alone ==
    /\ \A t, u \in VSThreads : Busy(t) /\ Busy(u) => t = u
    /\ \A t, u \in Threads : pc[t] = "found" /\ pc[u] = "found" => t = u

MacInv == \A m, n \in 1..Len(macOf) : macOf[m] = macOf[n] => m = n

NoDup(s) == \A i, j \in DOMAIN s : s[i] = s[j] => i = j

(* A device is online, offline or in hand. *)
PlaceInv ==
    /\ NoDup(queue) /\ NoDup(offq)
    /\ \A i \in DOMAIN queue : queue[i] \in 1..Len(macOf)
    /\ \A i \in DOMAIN offq : offq[i] \in 1..Len(macOf)
    /\ \A n \in 1..Len(macOf) :
         /\ In(n, queue) \/ In(n, offq) \/ InHand(n)
         /\ ~(In(n, queue) /\ In(n, offq))
         /\ InHand(n) => ~In(n, queue) /\ ~In(n, offq)

(* What a thread knows of the device it registers. *)
WorkOk(t) ==
    /\ pc[t] \in Working => Unlisted(DrvOf(t), loc[t].mac)
    /\ pc[t] = "create" => \A n \in 1..Len(macOf) : macOf[n] # loc[t].mac
    /\ pc[t] = "found" => loc[t].idx \in DOMAIN offq /\ offq[loc[t].idx] = loc[t].dev
    /\ pc[t] \in Holding \cup {"found"} =>
          loc[t].dev \in 1..Len(macOf) /\ macOf[loc[t].dev] = loc[t].mac
    /\ pc[t] \in {"announce", "enlist"} => In(loc[t].dev, queue)

WorkInv == \A t \in Threads : WorkOk(t)

ListedSomewhere(n) == \E d \in Drivers : \E i \in DOMAIN drvq[d] : drvq[d][i].id = n
Arriving(n) == \E t \in Threads : pc[t] \in {"announce", "enlist"} /\ loc[t].dev = n

(* The drivers list what is online, except for what is just coming or      *)
(* going.                                                                  *)
ListInv ==
    /\ \A d \in Drivers : \A i \in DOMAIN drvq[d] :
         /\ drvq[d][i].id \in 1..Len(macOf) /\ macOf[drvq[d][i].id] = drvq[d][i].mac
         /\ drvq[d][i].mac \in MacsOn(d)
         /\ In(drvq[d][i].id, queue) \/ (d = "vs" /\ vs_monitor \in Dropping /\ i = sweep.pos)
         /\ \A j \in DOMAIN drvq[d] : drvq[d][i].mac = drvq[d][j].mac => i = j
    /\ vs_monitor \in Dropping => In(SweepEntry.id, offq)
    /\ \A n \in 1..Len(macOf) : In(n, queue) => ListedSomewhere(n) \/ Arriving(n)

(* The sweep has counted the entries it has passed. *)
IdleInv ==
    /\ \A i \in DOMAIN drvq["vs"] :
         quiet[drvq["vs"][i].mac] =
             IF vs_monitor \in Sweepers /\ i >= sweep.pos THEN drvq["vs"][i].idle + 1
             ELSE drvq["vs"][i].idle
    /\ vs_monitor \in Sweepers => Len(drvq["vs"]) <= sweep.len
    /\ vs_monitor \in Dropping => SweepEntry.idle = IdleLimit + 1

(* The pads know of a device that is offline. *)
ToldInv ==
    \A n \in 1..Len(macOf) :
        /\ told[n] = "OFFLINE" => \/ In(n, offq) \/ InHand(n)
                                  \/ \E t \in Threads : pc[t] = "announce" /\ loc[t].dev = n
        /\ In(n, offq) => told[n] = "OFFLINE" \/ (vs_monitor = "announce_off" /\ SweepEntry.id = n)

RInv == Alone /\ MacInv /\ PlaceInv /\ WorkInv /\ ListInv /\ IdleInv /\ ToldInv

IInv == TypeOK /\ LocalInv /\ (~race => RInv)

-----------------------------------------------------------------------------
(* Lists. *)
LEMMA AppendFact ==
    ASSUME NEW S, NEW s \in Seq(S), NEW x \in S
    PROVE  /\ Append(s, x) \in Seq(S) /\ Len(Append(s, x)) = Len(s) + 1 /\ Len(s) \in Nat
           /\ Len(s) + 1 \in DOMAIN Append(s, x) /\ Append(s, x)[Len(s) + 1] = x
           /\ \A i \in DOMAIN s : i \in DOMAIN Append(s, x) /\ Append(s, x)[i] = s[i]
           /\ \A i \in DOMAIN Append(s, x) : i = Len(s) + 1 \/ (i \in DOMAIN s /\ i < Len(s) + 1)
  OBVIOUS

LEMMA AppendIn ==
    ASSUME NEW S, NEW s \in Seq(S), NEW x \in S
    PROVE  /\ \A y : In(y, Append(s, x)) <=> In(y, s) \/ y = x
           /\ NoDup(s) /\ ~In(x, s) => NoDup(Append(s, x))
<1>1. PICK q : q = Append(s, x)
  OBVIOUS
<1>2. /\ Len(s) + 1 \in DOMAIN q /\ q[Len(s) + 1] = x
      /\ \A i \in DOMAIN s : i \in DOMAIN q /\ q[i] = s[i]
      /\ \A i \in DOMAIN q : i = Len(s) + 1 \/ i \in DOMAIN s
  BY <1>1, AppendFact
<1>3. \A y : In(y, q) <=> In(y, s) \/ y = x
  BY <1>2 DEF In
<1>4. NoDup(s) /\ ~In(x, s) => NoDup(q)
  BY <1>2 DEF In, NoDup
<1> QED BY <1>1, <1>3, <1>4

LEMMA PopFact ==
    ASSUME NEW S, NEW s \in Seq(S), NEW n \in DOMAIN s
    PROVE  /\ PopNth(s, n) \in Seq(S) /\ Len(PopNth(s, n)) = Len(s) - 1
           /\ \A i \in DOMAIN PopNth(s, n) :
                 \/ i < n /\ i \in DOMAIN s /\ PopNth(s, n)[i] = s[i]
                 \/ i >= n /\ i + 1 \in DOMAIN s /\ i + 1 # n /\ PopNth(s, n)[i] = s[i + 1]
           /\ \A i \in DOMAIN s :
                 \/ i = n
                 \/ i < n /\ i \in DOMAIN PopNth(s, n) /\ PopNth(s, n)[i] = s[i]
                 \/ i > n /\ i - 1 \in DOMAIN PopNth(s, n) /\ PopNth(s, n)[i - 1] = s[i]
<1>1. PICK q : q = PopNth(s, n)
  OBVIOUS
<1>2. n \in 1..Len(s) /\ Len(s) \in Nat /\ DOMAIN s = 1..Len(s) /\ Len(s) - 1 \in Nat
  OBVIOUS
<1>3. q = [i \in 1..(Len(s) - 1) |-> IF i < n THEN s[i] ELSE s[i + 1]]
  BY <1>1, <1>2 DEF PopNth
<1>4. DOMAIN q = 1..(Len(s) - 1) /\ \A i \in 1..(Len(s) - 1) : q[i] = IF i < n THEN s[i] ELSE s[i + 1]
  BY <1>3
<1>5. \A i \in 1..(Len(s) - 1) : q[i] \in S
  BY <1>2, <1>4
<1>6. q \in Seq(S) /\ Len(q) = Len(s) - 1
  BY <1>2, <1>3, <1>5
<1>7. \A i \in DOMAIN q : \/ i < n /\ i \in DOMAIN s /\ q[i] = s[i]
                          \/ i >= n /\ i + 1 \in DOMAIN s /\ i + 1 # n /\ q[i] = s[i + 1]
  BY <1>2, <1>4
<1>8. \A i \in DOMAIN s : \/ i = n
                          \/ i < n /\ i \in DOMAIN q /\ q[i] = s[i]
                          \/ i > n /\ i - 1 \in DOMAIN q /\ q[i - 1] = s[i]
  BY <1>2, <1>4
<1> QED BY <1>1, <1>6, <1>7, <1>8

LEMMA PopIn ==
    ASSUME NEW S, NEW s \in Seq(S), NEW n \in DOMAIN s, NoDup(s)
    PROVE  /\ \A y : In(y, PopNth(s, n)) <=> In(y, s) /\ y # s[n]
           /\ NoDup(PopNth(s, n))
<1>1. PICK q : q = PopNth(s, n)
  OBVIOUS
<1>2. /\ \A i \in DOMAIN q : \/ i < n /\ i \in DOMAIN s /\ q[i] = s[i]
                             \/ i >= n /\ i + 1 \in DOMAIN s /\ i + 1 # n /\ q[i] = s[i + 1]
      /\ \A i \in DOMAIN s : \/ i = n
                             \/ i < n /\ i \in DOMAIN q /\ q[i] = s[i]
                             \/ i > n /\ i - 1 \in DOMAIN q /\ q[i - 1] = s[i]
      /\ q \in Seq(S) /\ n \in Int
  BY <1>1, PopFact
<1>3. \A i \in DOMAIN q : \E j \in DOMAIN s : j # n /\ q[i] = s[j]
  BY <1>2
<1>4. \A j \in DOMAIN s : j # n => \E i \in DOMAIN q : q[i] = s[j]
  BY <1>2
<1>5. \A y : In(y, q) <=> In(y, s) /\ y # s[n]
  BY <1>3, <1>4 DEF In, NoDup
<1>6. NoDup(q)
  <2> SUFFICES ASSUME NEW i \in DOMAIN q, NEW j \in DOMAIN q, q[i] = q[j] PROVE i = j
    BY DEF NoDup
  <2>1. i \in Int /\ j \in Int
    BY <1>2
  <2>2. PICK a \in DOMAIN s : s[a] = q[i] /\ ((i < n /\ a = i) \/ (i >= n /\ a = i + 1))
    BY <1>2
  <2>3. PICK b \in DOMAIN s : s[b] = q[j] /\ ((j < n /\ b = j) \/ (j >= n /\ b = j + 1))
    BY <1>2
  <2>4. a = b
    BY <2>2, <2>3 DEF NoDup
  <2> QED BY <1>2, <2>1, <2>2, <2>3, <2>4
<1> QED BY <1>1, <1>5, <1>6

(* Threads and drivers. *)
LEMMA ThreadFacts ==
    /\ "vs_monitor" \in VSThreads /\ "cz_monitor" \notin VSThreads
    /\ VSThreads \subseteq Threads
    /\ \A t \in Threads : t \in VSThreads \/ t = "cz_monitor"
    /\ \A t \in Threads : DrvOf(t) \in Drivers /\ MacsOf(t) = MacsOn(DrvOf(t)) /\ MacsOf(t) \subseteq Macs
    /\ \A t \in Threads : (DrvOf(t) = "vs" <=> t \in VSThreads)
    /\ "vs" \in Drivers /\ "cz" \in Drivers
    /\ \A d, e \in Drivers : \A m : m \in MacsOn(d) /\ m \in MacsOn(e) => d = e
<1>1. \A d, e \in Drivers : \A m : m \in MacsOn(d) /\ m \in MacsOn(e) => d = e
  BY MacsAssumption DEF Drivers, MacsOn
<1> QED BY <1>1 DEF VSThreads, Threads, DrvOf, MacsOf, MacsOn, Drivers, Macs

LocType == [mac : Macs \cup {"none"}, idx : Nat, dev : 0..MaxId]

LEMMA TypeFacts ==
    ASSUME TypeOK
    PROVE  /\ queue \in Seq(Ids) /\ offq \in Seq(Ids) /\ macOf \in Seq(Macs) /\ Len(macOf) \in Nat
           /\ drvq \in [Drivers -> Seq(Entry)] /\ \A d \in Drivers : drvq[d] \in Seq(Entry)
           /\ pc \in [Threads -> Labels] /\ loc \in [Threads -> LocType]
           /\ \A t \in Threads : loc[t] \in LocType /\ loc[t].idx \in Nat
           /\ sweep.pos \in Nat /\ sweep.len \in Nat
           /\ quiet \in [VSMacs -> Nat]
<1>1. drvq \in [Drivers -> Seq(Entry)]
  BY DEF TypeOK
<1>2. loc \in [Threads -> LocType]
  BY DEF TypeOK, LocType
<1>3. \A x \in LocType : x.idx \in Nat
  BY DEF LocType
<1>4. sweep.pos \in Nat /\ sweep.len \in Nat
  BY DEF TypeOK
<1> QED BY <1>1, <1>2, <1>3, <1>4 DEF TypeOK

(* The initial state satisfies the invariant. *)
LEMMA IInit == Init => IInv
<1> SUFFICES ASSUME Init PROVE IInv
  OBVIOUS
<1>1. TypeOK
  <2>1. queue \in Seq(Ids) /\ offq \in Seq(Ids) /\ macOf \in Seq(Macs) /\ Len(macOf) <= MaxId
    BY LimitsAssumption DEF Init
  <2>2. drvq \in [Drivers -> Seq(Entry)] /\ told \in [Ids -> Updates]
    BY DEF Init, Updates
  <2>3. pc \in [Threads -> Labels]
    BY DEF Init, Labels
  <2>4. loc \in [Threads -> LocType]
    BY LimitsAssumption DEF Init, LocType, NoLocals
  <2>5. sweep \in [pos : Nat, len : Nat] /\ quiet \in [VSMacs -> Nat]
    BY DEF Init
  <2>6. race \in BOOLEAN
    BY DEF Init
  <2> QED BY <2>1, <2>2, <2>3, <2>4, <2>5, <2>6 DEF TypeOK, LocType
<1>2. \A t \in Threads : pc[t] \in {"start", "idle", "probing"}
  BY DEF Init
<1>3. vs_monitor \in {"start", "idle", "probing"}
  BY <1>2, ThreadFacts DEF vs_monitor
<1>4. LocalInv
  BY <1>2, <1>3 DEF LocalInv, LocalOk, Working, Holding, Sweepers, Dropping
<1>5. queue = <<>> /\ offq = <<>> /\ macOf = <<>> /\ \A d \in Drivers : drvq[d] = <<>>
  BY DEF Init
<1>6. Alone /\ MacInv /\ WorkInv
  BY <1>2, <1>5, ThreadFacts DEF Alone, Busy, MacInv, WorkInv, WorkOk, Working, Holding
<1>7. PlaceInv /\ ToldInv
  BY <1>5 DEF PlaceInv, NoDup, ToldInv
<1>8. ListInv /\ IdleInv
  BY <1>3, <1>5, ThreadFacts DEF ListInv, IdleInv, Sweepers, Dropping
<1> QED BY <1>1, <1>4, <1>6, <1>7, <1>8 DEF IInv, RInv

-----------------------------------------------------------------------------
(* Types, races or not. *)
Labelled == Working \cup Sweepers \cup {"start", "idle", "probing"}

LEMMA LabelFacts ==
    /\ Labelled = Labels
    /\ \A l : l \in {"start", "idle", "probing"} => l \notin Working /\ l \notin Sweepers
    /\ \A l \in Working : l \notin Sweepers
    /\ Dropping \subseteq Sweepers /\ Holding \subseteq Working /\ "found" \in Working /\ "found" \notin Holding
  BY DEF Labelled, Labels, Working, Holding, Sweepers, Dropping

LEMMA GotoFact ==
    ASSUME TypeOK, NEW t \in Threads, NEW l \in Labels, Goto(t, l)
    PROVE  /\ pc' \in [Threads -> Labels] /\ pc'[t] = l
           /\ \A u \in Threads : u # t => pc'[u] = pc[u]
           /\ t # "vs_monitor" => vs_monitor' = vs_monitor
           /\ t = "vs_monitor" => vs_monitor' = l /\ vs_monitor = pc[t]
<1>1. pc \in [Threads -> Labels]
  BY TypeFacts
<1>2. /\ pc' \in [Threads -> Labels] /\ pc'[t] = l
      /\ \A u \in Threads : u # t => pc'[u] = pc[u]
  BY <1>1 DEF Goto
<1>3. "vs_monitor" \in Threads
  BY ThreadFacts
<1> QED BY <1>2, <1>3 DEF vs_monitor

LEMMA LocalMove ==
    ASSUME TypeOK, LocalInv, NEW t \in Threads, NEW l \in Labels \ Sweepers, Goto(t, l),
           \A u \in Threads : u # t => loc'[u] = loc[u],
           l \in Working => loc'[t].mac \in MacsOf(t),
           l \in Holding \cup {"found"} => loc'[t].dev \in Ids,
           l = "found" => loc'[t].idx # 0,
           sweep' = sweep, DOMAIN drvq["vs"] \subseteq DOMAIN drvq'["vs"]
    PROVE  LocalInv'
<1>1. /\ pc'[t] = l /\ \A u \in Threads : u # t => pc'[u] = pc[u]
      /\ t # "vs_monitor" => vs_monitor' = vs_monitor
      /\ t = "vs_monitor" => vs_monitor' = l
  BY GotoFact
<1>2. \A u \in Threads : u # t => LocalOk(u)'
  BY <1>1 DEF LocalInv, LocalOk
<1>3. LocalOk(t)'
  BY <1>1 DEF LocalOk
<1>4. vs_monitor' \in Sweepers => vs_monitor' = vs_monitor
  BY <1>1
<1> QED BY <1>2, <1>3, <1>4, LabelFacts DEF LocalInv

LEMMA ProbeTypes ==
    ASSUME TypeOK, LocalInv, NEW t \in Threads, ProbeBegin(t) \/ ProbeEnd(t) \/ (MonitorProbes /\ t = "vs_monitor")
    PROVE  TypeOK' /\ LocalInv'
<1>1. /\ UNCHANGED <<queue, offq, macOf, drvq, told, loc, sweep, quiet>>
      /\ Goto(t, "probing") \/ Goto(t, "idle")
      /\ race' \in BOOLEAN
  BY DEF ProbeBegin, ProbeEnd, MonitorProbes, TypeOK
<1>2. {"probing", "idle"} \subseteq Labels \ Sweepers
  BY DEF Labels, Sweepers, Dropping
<1>3. "probing" \notin Working /\ "idle" \notin Working
  BY LabelFacts
<1>4. LocalInv'
  BY <1>1, <1>2, <1>3, LocalMove, LabelFacts
<1>5. pc' \in [Threads -> Labels]
  BY <1>1, <1>2, GotoFact
<1> QED BY <1>1, <1>4, <1>5 DEF TypeOK

LEMMA RegisterTypes ==
    ASSUME TypeOK, LocalInv, NEW t \in Threads, NEW m \in Macs, RegisterDevice(t, m)
    PROVE  TypeOK' /\ LocalInv' /\ loc'[t] = [mac |-> m, idx |-> 0, dev |-> 0]
           /\ \A u \in Threads : u # t => loc'[u] = loc[u]
<1>1. PICK x : x = [mac |-> m, idx |-> 0, dev |-> 0]
  OBVIOUS
<1>2. /\ UNCHANGED <<queue, offq, macOf, drvq, told, sweep, quiet>>
      /\ Goto(t, "scan") /\ m \in MacsOf(t) /\ loc' = [loc EXCEPT ![t] = x]
  BY <1>1 DEF RegisterDevice
<1>3. race' \in BOOLEAN
  BY DEF RegisterDevice
<1>4. x \in LocType /\ x.mac = m
  BY <1>1, LimitsAssumption DEF LocType
<1>5. loc' \in [Threads -> LocType] /\ loc'[t] = x /\ \A u \in Threads : u # t => loc'[u] = loc[u]
  BY <1>2, <1>4, TypeFacts
<1>6. "scan" \in Labels \ Sweepers /\ "scan" \notin Holding \cup {"found"}
  BY DEF Labels, Sweepers, Dropping, Holding
<1>7. LocalInv'
  BY <1>2, <1>4, <1>5, <1>6, LocalMove
<1>8. pc' \in [Threads -> Labels]
  BY <1>2, <1>6, GotoFact
<1> QED BY <1>1, <1>2, <1>3, <1>5, <1>7, <1>8 DEF TypeOK, LocType

(* The first place of the device in offq. *)
LEMMA ScanTypes ==
    ASSUME TypeOK, LocalInv, NEW t \in Threads, ScanOffline(t)
    PROVE  /\ TypeOK' /\ LocalInv'
           /\ \A u \in Threads : u # t => loc'[u] = loc[u]
           /\ loc'[t].mac = loc[t].mac
           /\ \/ Goto(t, "create") /\ loc' = loc /\ OfflineIndex(loc[t].mac) = {}
              \/ /\ Goto(t, "found") /\ loc'[t].idx \in OfflineIndex(loc[t].mac)
                 /\ loc'[t].dev = offq[loc'[t].idx]
<1>1. /\ UNCHANGED <<queue, offq, macOf, drvq, told, sweep, quiet>> /\ pc[t] = "scan"
  BY DEF ScanOffline
<1>2. race' \in BOOLEAN
  BY DEF ScanOffline
<1>3. {"create", "found"} \subseteq Labels \ Sweepers /\ "create" \notin Holding \cup {"found"}
  BY DEF Labels, Sweepers, Dropping, Holding
<1>4. loc[t].mac \in MacsOf(t)
  BY <1>1 DEF LocalInv, LocalOk, Working
<1>5. loc \in [Threads -> LocType] /\ loc[t] \in LocType
  BY TypeFacts
<1>6. CASE OfflineIndex(loc[t].mac) = {} /\ Goto(t, "create") /\ loc' = loc
  <2>1. LocalInv'
    BY <1>1, <1>3, <1>4, <1>6, LocalMove
  <2>2. pc' \in [Threads -> Labels]
    BY <1>3, <1>6, GotoFact
  <2>3. TypeOK'
    BY <1>1, <1>2, <1>6, <2>2 DEF TypeOK
  <2> QED BY <1>6, <2>1, <2>3
<1>7. ASSUME NEW i \in OfflineIndex(loc[t].mac), Goto(t, "found"),
             loc' = [loc EXCEPT ![t].idx = i, ![t].dev = offq[i]]
      PROVE  /\ TypeOK' /\ LocalInv' /\ loc'[t].mac = loc[t].mac /\ loc'[t].idx = i
             /\ loc'[t].dev = offq[i] /\ \A u \in Threads : u # t => loc'[u] = loc[u]
  <2>1. i \in DOMAIN offq /\ offq[i] \in Ids /\ i \in Nat /\ i # 0
    BY <1>7, TypeFacts DEF OfflineIndex
  <2>2. offq[i] \in 0..MaxId
    BY <2>1 DEF Ids
  <2>3. PICK y, x : y = [loc[t] EXCEPT !.idx = i] /\ x = [y EXCEPT !.dev = offq[i]]
    OBVIOUS
  <2>4. y \in LocType /\ y.mac = loc[t].mac /\ y.idx = i
    BY <1>5, <2>1, <2>3 DEF LocType
  <2>5. x \in LocType /\ x.mac = loc[t].mac /\ x.idx = i /\ x.dev = offq[i]
    BY <2>2, <2>3, <2>4 DEF LocType
  <2>6. loc' \in [Threads -> LocType] /\ loc'[t] = x /\ \A u \in Threads : u # t => loc'[u] = loc[u]
    <3>1. loc' = [[loc EXCEPT ![t] = y] EXCEPT ![t] = x]
      BY <1>5, <1>7, <2>3
    <3> QED BY <1>5, <2>5, <3>1
  <2>7. LocalInv'
    BY <1>1, <1>3, <1>4, <1>7, <2>1, <2>5, <2>6, LocalMove
  <2>8. pc' \in [Threads -> Labels]
    BY <1>3, <1>7, GotoFact
  <2>9. TypeOK'
    BY <1>1, <1>2, <2>6, <2>8 DEF TypeOK, LocType
  <2> QED BY <2>5, <2>6, <2>7, <2>9
<1> QED BY <1>6, <1>7 DEF ScanOffline

LEMMA CreateTypes ==
    ASSUME TypeOK, LocalInv, NEW t \in Threads, CreateDev(t)
    PROVE  /\ TypeOK' /\ LocalInv'
           /\ \A u \in Threads : u # t => loc'[u] = loc[u]
           /\ loc'[t].mac = loc[t].mac /\ loc'[t].dev = Len(macOf) + 1
<1>1. /\ UNCHANGED <<queue, offq, drvq, told, sweep, race, quiet>> /\ pc[t] = "create" /\ Goto(t, "push")
      /\ Len(macOf) + 1 <= MaxId /\ macOf' = Append(macOf, loc[t].mac)
      /\ loc' = [loc EXCEPT ![t].dev = Len(macOf) + 1]
  BY DEF CreateDev, dev_id
<1>2. loc[t].mac \in MacsOf(t) /\ loc[t].mac \in Macs
  BY <1>1, ThreadFacts DEF LocalInv, LocalOk, Working
<1>3. Len(macOf) \in Nat /\ macOf \in Seq(Macs) /\ loc \in [Threads -> LocType] /\ loc[t] \in LocType
  BY TypeFacts
<1>4. Len(macOf) + 1 \in Ids /\ Len(macOf) + 1 \in 0..MaxId
  BY <1>1, <1>3, LimitsAssumption DEF Ids
<1>5. PICK x : x = [loc[t] EXCEPT !.dev = Len(macOf) + 1]
  OBVIOUS
<1>6. x \in LocType /\ x.mac = loc[t].mac /\ x.dev = Len(macOf) + 1
  BY <1>3, <1>4, <1>5 DEF LocType
<1>7. loc' \in [Threads -> LocType] /\ loc'[t] = x /\ \A u \in Threads : u # t => loc'[u] = loc[u]
  BY <1>1, <1>3, <1>5, <1>6
<1>8. "push" \in Labels \ Sweepers
  BY DEF Labels, Sweepers, Dropping
<1>9. LocalInv'
  BY <1>1, <1>2, <1>4, <1>6, <1>7, <1>8, LocalMove
<1>10. pc' \in [Threads -> Labels]
  BY <1>1, <1>8, GotoFact
<1>11. macOf' \in Seq(Macs) /\ Len(macOf') <= MaxId
  BY <1>1, <1>2, <1>3, AppendFact
<1> QED BY <1>1, <1>6, <1>7, <1>9, <1>10, <1>11 DEF TypeOK, LocType

LEMMA PopTypes ==
    ASSUME TypeOK, LocalInv, NEW t \in Threads, PopOffline(t)
    PROVE  TypeOK' /\ LocalInv'
<1>1. /\ UNCHANGED <<queue, macOf, drvq, told, loc, sweep, race, quiet>> /\ pc[t] = "found"
      /\ Goto(t, "push") /\ offq' = PopNth(offq, loc[t].idx)
  BY DEF PopOffline
<1>2. loc[t].mac \in MacsOf(t) /\ loc[t].dev \in Ids /\ loc[t].idx # 0
  BY <1>1 DEF LocalInv, LocalOk, Working
<1>3. "push" \in Labels \ Sweepers
  BY DEF Labels, Sweepers, Dropping
<1>4. LocalInv'
  BY <1>1, <1>2, <1>3, LocalMove
<1>5. pc' \in [Threads -> Labels]
  BY <1>1, <1>3, GotoFact
<1>6. offq' \in Seq(Ids)
  <2>1. offq \in Seq(Ids) /\ loc[t].idx \in Nat
    BY TypeFacts
  <2>2. CASE loc[t].idx > Len(offq)
    BY <1>1, <2>1, <2>2 DEF PopNth
  <2>3. CASE loc[t].idx <= Len(offq)
    <3>1. loc[t].idx \in DOMAIN offq
      BY <1>2, <2>1, <2>3
    <3> QED BY <1>1, <2>1, <3>1, PopFact
  <2> QED BY <2>1, <2>2, <2>3
<1> QED BY <1>1, <1>4, <1>5, <1>6 DEF TypeOK

LEMMA PushTypes ==
    ASSUME TypeOK, LocalInv, NEW t \in Threads, PushOnline(t)
    PROVE  TypeOK' /\ LocalInv'
<1>1. /\ UNCHANGED <<offq, macOf, drvq, told, loc, sweep, race, quiet>> /\ pc[t] = "push"
      /\ Goto(t, "announce") /\ queue' = Append(queue, loc[t].dev)
  BY DEF PushOnline
<1>2. loc[t].mac \in MacsOf(t) /\ loc[t].dev \in Ids
  BY <1>1 DEF LocalInv, LocalOk, Working, Holding
<1>3. "announce" \in Labels \ Sweepers /\ "announce" # "found"
  BY DEF Labels, Sweepers, Dropping
<1>4. LocalInv'
  BY <1>1, <1>2, <1>3, LocalMove
<1>5. pc' \in [Threads -> Labels]
  BY <1>1, <1>3, GotoFact
<1>6. queue' \in Seq(Ids)
  BY <1>1, <1>2, TypeFacts, AppendFact
<1> QED BY <1>1, <1>4, <1>5, <1>6 DEF TypeOK

LEMMA AnnounceTypes ==
    ASSUME TypeOK, LocalInv, NEW t \in Threads, AnnounceOnline(t)
    PROVE  TypeOK' /\ LocalInv'
<1>1. /\ UNCHANGED <<queue, offq, macOf, drvq, loc, sweep, race, quiet>> /\ pc[t] = "announce"
      /\ Goto(t, "enlist")
      /\ told' = [told EXCEPT ![loc[t].dev] = IF loc[t].idx = 0 THEN "NEW_ADD" ELSE "ONLINE"]
  BY DEF AnnounceOnline
<1>2. loc[t].mac \in MacsOf(t) /\ loc[t].dev \in Ids
  BY <1>1 DEF LocalInv, LocalOk, Working, Holding
<1>3. "enlist" \in Labels \ Sweepers /\ "enlist" # "found"
  BY DEF Labels, Sweepers, Dropping
<1>4. LocalInv'
  BY <1>1, <1>2, <1>3, LocalMove
<1>5. pc' \in [Threads -> Labels]
  BY <1>1, <1>3, GotoFact
<1>6. told' \in [Ids -> Updates]
  BY <1>1 DEF TypeOK, Updates
<1> QED BY <1>1, <1>4, <1>5, <1>6 DEF TypeOK

LEMMA EnlistTypes ==
    ASSUME TypeOK, LocalInv, NEW t \in Threads, Enlist(t)
    PROVE  /\ TypeOK' /\ LocalInv'
           /\ \A u \in Threads : u # t => loc'[u] = loc[u]
           /\ \E e \in Entry :
                 /\ e.id = loc[t].dev /\ e.mac = loc[t].mac /\ e.idle = 0
                 /\ drvq'[DrvOf(t)] = Append(drvq[DrvOf(t)], e)
                 /\ \A d \in Drivers : d # DrvOf(t) => drvq'[d] = drvq[d]
<1>1. PICK e : e = [id |-> loc[t].dev, mac |-> loc[t].mac, idle |-> 0]
  OBVIOUS
<1>2. /\ UNCHANGED <<queue, offq, macOf, told, sweep, race>> /\ pc[t] = "enlist" /\ Goto(t, "probing")
      /\ drvq' = [drvq EXCEPT ![DrvOf(t)] = Append(drvq[DrvOf(t)], e)]
      /\ quiet' = [m \in VSMacs |-> IF m = loc[t].mac THEN 0 ELSE quiet[m]]
      /\ loc' = [loc EXCEPT ![t] = NoLocals]
  BY <1>1 DEF Enlist
<1>3. loc[t].mac \in Macs /\ loc[t].dev \in Ids
  BY <1>2, ThreadFacts DEF LocalInv, LocalOk, Working, Holding
<1>4. 0 \in 0..(IdleLimit + 1)
  BY LimitsAssumption
<1>5. e \in Entry /\ e.id = loc[t].dev /\ e.mac = loc[t].mac /\ e.idle = 0
  BY <1>1, <1>3, <1>4 DEF Entry
<1>6. DrvOf(t) \in Drivers /\ drvq \in [Drivers -> Seq(Entry)] /\ drvq[DrvOf(t)] \in Seq(Entry)
  BY ThreadFacts, TypeFacts
<1>7. PICK q : q = Append(drvq[DrvOf(t)], e)
  OBVIOUS
<1>8. q \in Seq(Entry) /\ DOMAIN drvq[DrvOf(t)] \subseteq DOMAIN q
  BY <1>5, <1>6, <1>7, AppendFact
<1>9. /\ drvq' \in [Drivers -> Seq(Entry)] /\ drvq'[DrvOf(t)] = q
      /\ \A d \in Drivers : d # DrvOf(t) => drvq'[d] = drvq[d]
  BY <1>2, <1>6, <1>7, <1>8
<1>10. NoLocals \in LocType
  BY LimitsAssumption DEF NoLocals, LocType
<1>11. loc' \in [Threads -> LocType] /\ \A u \in Threads : u # t => loc'[u] = loc[u]
  BY <1>2, <1>10, TypeFacts
<1>12. "probing" \in Labels \ Sweepers /\ "probing" \notin Working
  BY DEF Labels, Sweepers, Dropping, Working, Holding
<1>13. DOMAIN drvq["vs"] \subseteq DOMAIN drvq'["vs"]
  BY <1>8, <1>9, ThreadFacts
<1>14. LocalInv'
  BY <1>2, <1>11, <1>12, <1>13, LocalMove, LabelFacts
<1>15. pc' \in [Threads -> Labels]
  BY <1>2, <1>12, GotoFact
<1>16. quiet' \in [VSMacs -> Nat]
  BY <1>2, TypeFacts
<1>17. TypeOK'
  BY <1>2, <1>9, <1>11, <1>15, <1>16 DEF TypeOK, LocType
<1> QED BY <1>5, <1>7, <1>9, <1>11, <1>14, <1>17

(* One idle time changes. *)
LEMMA IdleSet ==
    ASSUME TypeOK, NEW i \in DOMAIN drvq["vs"], NEW k \in 0..(IdleLimit + 1),
           drvq' = [drvq EXCEPT !["vs"][i].idle = k]
    PROVE  /\ drvq' \in [Drivers -> Seq(Entry)] /\ drvq'["cz"] = drvq["cz"]
           /\ DOMAIN drvq'["vs"] = DOMAIN drvq["vs"] /\ Len(drvq'["vs"]) = Len(drvq["vs"])
           /\ \A j \in DOMAIN drvq["vs"] :
                 /\ drvq'["vs"][j].id = drvq["vs"][j].id /\ drvq'["vs"][j].mac = drvq["vs"][j].mac
                 /\ drvq'["vs"][j].idle = IF j = i THEN k ELSE drvq["vs"][j].idle
<1>1. PICK s : s = drvq["vs"]
  OBVIOUS
<1>2. s \in Seq(Entry) /\ i \in DOMAIN s /\ s[i] \in Entry /\ \A j \in DOMAIN s : s[j] \in Entry
  BY <1>1, TypeFacts, ThreadFacts
<1>3. PICK e : e = [s[i] EXCEPT !.idle = k]
  OBVIOUS
<1>4. e \in Entry /\ e.id = s[i].id /\ e.mac = s[i].mac /\ e.idle = k
  BY <1>2, <1>3 DEF Entry
<1>5. PICK q : q = [s EXCEPT ![i] = e]
  OBVIOUS
<1>6. q \in Seq(Entry) /\ Len(q) = Len(s) /\ DOMAIN q = DOMAIN s
  BY <1>2, <1>4, <1>5
<1>7. \A j \in DOMAIN s : q[j] = IF j = i THEN e ELSE s[j]
  BY <1>2, <1>5
<1>8. drvq' = [drvq EXCEPT !["vs"] = q]
  BY <1>1, <1>3, <1>5
<1>9. drvq' \in [Drivers -> Seq(Entry)] /\ drvq'["cz"] = drvq["cz"] /\ drvq'["vs"] = q
  BY <1>6, <1>8, TypeFacts, ThreadFacts
<1>10. \A j \in DOMAIN s : /\ q[j].id = s[j].id /\ q[j].mac = s[j].mac
                           /\ q[j].idle = IF j = i THEN k ELSE s[j].idle
  BY <1>4, <1>7
<1> QED BY <1>1, <1>6, <1>9, <1>10

LEMMA SweepMove ==
    ASSUME TypeOK, LocalInv, NEW l \in Sweepers \cup {"idle"}, Goto("vs_monitor", l), loc' = loc,
           l \in Sweepers => sweep'.pos # 0,
           l \in Dropping => sweep'.pos \in DOMAIN drvq'["vs"]
    PROVE  LocalInv' /\ pc' \in [Threads -> Labels]
<1>1. l \in Labels /\ l \notin Working /\ "vs_monitor" \in Threads
  BY ThreadFacts DEF Labels, Sweepers, Dropping, Working, Holding
<1>2. /\ pc' \in [Threads -> Labels] /\ pc'["vs_monitor"] = l /\ vs_monitor' = l
      /\ \A u \in Threads : u # "vs_monitor" => pc'[u] = pc[u]
  BY <1>1, GotoFact
<1>3. \A u \in Threads : u # "vs_monitor" => LocalOk(u)'
  BY <1>2 DEF LocalInv, LocalOk
<1>4. LocalOk("vs_monitor")'
  BY <1>1, <1>2, LabelFacts DEF LocalOk
<1> QED BY <1>2, <1>3, <1>4 DEF LocalInv

LEMMA HearsTypes ==
    ASSUME TypeOK, LocalInv, NEW i \in DOMAIN drvq["vs"], MonitorHears(i)
    PROVE  TypeOK' /\ LocalInv'
<1>1. /\ UNCHANGED <<queue, offq, macOf, told, pc, loc, sweep>>
      /\ drvq' = [drvq EXCEPT !["vs"][i].idle = 0]
      /\ quiet' = [quiet EXCEPT ![drvq["vs"][i].mac] = 0]
  BY DEF MonitorHears, Refreshed
<1>2. race' \in BOOLEAN
  BY DEF MonitorHears
<1>3. 0 \in 0..(IdleLimit + 1)
  BY LimitsAssumption
<1>4. drvq' \in [Drivers -> Seq(Entry)] /\ DOMAIN drvq'["vs"] = DOMAIN drvq["vs"]
  BY <1>1, <1>3, IdleSet
<1>5. quiet' \in [VSMacs -> Nat]
  BY <1>1, TypeFacts
<1>6. LocalInv'
  BY <1>1, <1>4 DEF LocalInv, LocalOk, vs_monitor
<1> QED BY <1>1, <1>2, <1>4, <1>5, <1>6 DEF TypeOK

LEMMA BeginTypes ==
    ASSUME TypeOK, LocalInv, SweepBegin
    PROVE  /\ TypeOK' /\ LocalInv' /\ sweep'.pos = 1 /\ sweep'.len = Len(drvq["vs"])
<1>1. /\ UNCHANGED <<queue, offq, macOf, drvq, told, loc>> /\ Goto("vs_monitor", "sweep")
      /\ sweep' = [pos |-> 1, len |-> Len(drvq["vs"])]
      /\ quiet' = [m \in VSMacs |-> IF Unlisted("vs", m) THEN 0 ELSE quiet[m] + 1]
  BY DEF SweepBegin
<1>2. race' \in BOOLEAN
  BY DEF SweepBegin
<1>3. Len(drvq["vs"]) \in Nat
  BY TypeFacts, ThreadFacts
<1>4. sweep' \in [pos : Nat, len : Nat] /\ sweep'.pos = 1 /\ sweep'.len = Len(drvq["vs"])
  BY <1>1, <1>3
<1>5. quiet' \in [VSMacs -> Nat]
  BY <1>1, TypeFacts
<1>6. "sweep" \in Sweepers /\ "sweep" \notin Dropping
  BY DEF Sweepers, Dropping
<1>7. LocalInv' /\ pc' \in [Threads -> Labels]
  BY <1>1, <1>4, <1>6, SweepMove
<1> QED BY <1>1, <1>2, <1>4, <1>5, <1>7 DEF TypeOK

LEMMA SweepingFact ==
    ASSUME TypeOK, LocalInv, Sweeping
    PROVE  /\ sweep.pos \in DOMAIN drvq["vs"] /\ SweepEntry \in Entry /\ vs_monitor = "sweep"
           /\ sweep.pos # 0 /\ sweep.pos \in Nat
<1>1. drvq["vs"] \in Seq(Entry) /\ sweep.pos \in Nat /\ vs_monitor = "sweep"
  BY TypeFacts, ThreadFacts DEF Sweeping, vs_monitor
<1>2. sweep.pos # 0
  BY <1>1 DEF LocalInv, Sweepers
<1>3. sweep.pos \in DOMAIN drvq["vs"]
  BY <1>1, <1>2 DEF Sweeping
<1> QED BY <1>1, <1>2, <1>3 DEF SweepEntry

LEMMA IdleTypes ==
    ASSUME TypeOK, LocalInv, SweepIdle
    PROVE  /\ TypeOK' /\ LocalInv' /\ sweep'.pos = sweep.pos + 1 /\ sweep'.len = sweep.len
           /\ SweepEntry.idle + 1 \in 0..(IdleLimit + 1)
           /\ drvq' = [drvq EXCEPT !["vs"][sweep.pos].idle = SweepEntry.idle + 1]
<1>1. /\ UNCHANGED <<queue, offq, macOf, told, pc, loc, race, quiet>> /\ Sweeping
      /\ SweepEntry.idle <= IdleLimit
      /\ drvq' = [drvq EXCEPT !["vs"][sweep.pos].idle = SweepEntry.idle + 1]
      /\ sweep' = [sweep EXCEPT !.pos = sweep.pos + 1]
  BY DEF SweepIdle, SweepEntry
<1>2. sweep.pos \in DOMAIN drvq["vs"] /\ SweepEntry \in Entry /\ vs_monitor = "sweep" /\ sweep.pos \in Nat
  BY <1>1, SweepingFact
<1>3. SweepEntry.idle \in 0..(IdleLimit + 1)
  BY <1>2 DEF Entry
<1>4. SweepEntry.idle + 1 \in 0..(IdleLimit + 1)
  BY <1>1, <1>3, LimitsAssumption
<1>5. drvq' \in [Drivers -> Seq(Entry)]
  BY <1>1, <1>2, <1>4, IdleSet
<1>6. sweep \in [pos : Nat, len : Nat]
  BY DEF TypeOK
<1>7. sweep' \in [pos : Nat, len : Nat] /\ sweep'.pos = sweep.pos + 1 /\ sweep'.len = sweep.len
  BY <1>1, <1>6
<1>8. vs_monitor' = "sweep" /\ "sweep" \notin Dropping
  BY <1>1, <1>2 DEF vs_monitor, Dropping
<1>9. LocalInv'
  BY <1>1, <1>2, <1>7, <1>8 DEF LocalInv, LocalOk
<1> QED BY <1>1, <1>4, <1>5, <1>7, <1>9 DEF TypeOK

LEMMA OfflineTypes ==
    ASSUME TypeOK, LocalInv, SweepOffline
    PROVE  TypeOK' /\ LocalInv'
<1>1. /\ UNCHANGED <<macOf, drvq, told, loc, sweep, quiet>> /\ Sweeping
  BY DEF SweepOffline
<1>2. race' \in BOOLEAN
  BY DEF SweepOffline
<1>3. sweep.pos \in DOMAIN drvq["vs"] /\ SweepEntry \in Entry /\ sweep.pos # 0
  BY <1>1, SweepingFact
<1>4. SweepEntry.id \in Ids
  BY <1>3 DEF Entry
<1>5. queue' \in Seq(Ids) /\ offq' \in Seq(Ids)
  <2>1. queue \in Seq(Ids) /\ offq \in Seq(Ids)
    BY TypeFacts
  <2>2. CASE MovedOffline(SweepEntry.id)
    <3>1. PICK i \in DOMAIN queue : queue' = PopNth(queue, i) /\ offq' = Append(offq, SweepEntry.id)
      BY <2>2 DEF MovedOffline
    <3> QED BY <1>4, <2>1, <3>1, PopFact, AppendFact
  <2>3. CASE UNCHANGED <<queue, offq>>
    BY <2>1, <2>3
  <2> QED BY <2>2, <2>3 DEF SweepOffline
<1>6. {"announce_off", "unlist"} \subseteq Sweepers
  BY DEF Sweepers, Dropping
<1>7. Goto("vs_monitor", "announce_off") \/ Goto("vs_monitor", "unlist")
  BY DEF SweepOffline
<1>8. LocalInv' /\ pc' \in [Threads -> Labels]
  BY <1>1, <1>3, <1>6, <1>7, SweepMove
<1> QED BY <1>1, <1>2, <1>5, <1>8 DEF TypeOK

LEMMA DroppingFact ==
    ASSUME TypeOK, LocalInv, vs_monitor \in Dropping
    PROVE  /\ sweep.pos \in DOMAIN drvq["vs"] /\ SweepEntry \in Entry /\ SweepEntry.id \in Ids
           /\ sweep.pos # 0
<1>1. sweep.pos \in DOMAIN drvq["vs"] /\ sweep.pos # 0
  BY LabelFacts DEF LocalInv
<1>2. SweepEntry \in Entry
  BY <1>1, TypeFacts, ThreadFacts DEF SweepEntry
<1>3. SweepEntry.id \in Ids
  BY <1>2 DEF Entry
<1> QED BY <1>1, <1>2, <1>3

LEMMA AnnounceOffTypes ==
    ASSUME TypeOK, LocalInv, AnnounceOffline
    PROVE  TypeOK' /\ LocalInv'
<1>1. /\ UNCHANGED <<queue, offq, macOf, drvq, loc, sweep, race, quiet>> /\ vs_monitor \in Dropping
      /\ told' = [told EXCEPT ![SweepEntry.id] = "OFFLINE"] /\ Goto("vs_monitor", "unlist")
  BY DEF AnnounceOffline, vs_monitor, Dropping
<1>2. sweep.pos \in DOMAIN drvq["vs"] /\ sweep.pos # 0
  BY <1>1, DroppingFact
<1>3. "unlist" \in Sweepers
  BY DEF Sweepers, Dropping
<1>4. LocalInv' /\ pc' \in [Threads -> Labels]
  BY <1>1, <1>2, <1>3, SweepMove
<1>5. told' \in [Ids -> Updates]
  BY <1>1 DEF TypeOK, Updates
<1> QED BY <1>1, <1>4, <1>5 DEF TypeOK

LEMMA UnlistTypes ==
    ASSUME TypeOK, LocalInv, Unlist
    PROVE  /\ TypeOK' /\ LocalInv'
           /\ drvq'["vs"] = PopNth(drvq["vs"], sweep.pos) /\ drvq'["cz"] = drvq["cz"]
<1>1. /\ UNCHANGED <<queue, offq, macOf, told, loc, sweep, race, quiet>> /\ vs_monitor \in Dropping
      /\ drvq' = [drvq EXCEPT !["vs"] = PopNth(drvq["vs"], sweep.pos)] /\ Goto("vs_monitor", "sweep")
  BY DEF Unlist, vs_monitor, Dropping
<1>2. sweep.pos \in DOMAIN drvq["vs"] /\ sweep.pos # 0
  BY <1>1, DroppingFact
<1>3. drvq["vs"] \in Seq(Entry) /\ drvq \in [Drivers -> Seq(Entry)] /\ "vs" \in Drivers /\ "cz" \in Drivers
  BY TypeFacts, ThreadFacts
<1>4. PICK q : q = PopNth(drvq["vs"], sweep.pos)
  OBVIOUS
<1>5. q \in Seq(Entry)
  BY <1>2, <1>3, <1>4, PopFact
<1>6. drvq' \in [Drivers -> Seq(Entry)] /\ drvq'["vs"] = q /\ drvq'["cz"] = drvq["cz"]
  BY <1>1, <1>3, <1>4, <1>5
<1>7. "sweep" \in Sweepers /\ "sweep" \notin Dropping
  BY DEF Sweepers, Dropping
<1>8. LocalInv' /\ pc' \in [Threads -> Labels]
  BY <1>1, <1>2, <1>7, SweepMove
<1> QED BY <1>1, <1>4, <1>6, <1>8 DEF TypeOK

LEMMA EndTypes ==
    ASSUME TypeOK, LocalInv, SweepEnd
    PROVE  TypeOK' /\ LocalInv'
<1>1. /\ UNCHANGED <<queue, offq, macOf, drvq, told, loc, race, quiet>>
      /\ sweep' = [pos |-> 0, len |-> 0] /\ Goto("vs_monitor", "idle")
  BY DEF SweepEnd
<1>2. "idle" \notin Sweepers /\ "idle" \notin Dropping
  BY DEF Sweepers, Dropping
<1>3. LocalInv' /\ pc' \in [Threads -> Labels]
  BY <1>1, <1>2, SweepMove
<1> QED BY <1>1, <1>3 DEF TypeOK

-----------------------------------------------------------------------------
(* Without a race. *)
Calm == {"start", "idle", "probing"}

(* What a thread outside of the sweep does leaves the sweep where it is. *)
LEMMA MoveFact ==
    ASSUME TypeOK, NEW t \in Threads, NEW l \in Labels \ Sweepers, pc[t] \notin Sweepers, Goto(t, l)
    PROVE  /\ pc'[t] = l /\ \A u \in Threads : u # t => pc'[u] = pc[u]
           /\ vs_monitor' \in Sweepers <=> vs_monitor \in Sweepers
           /\ vs_monitor' \in Dropping <=> vs_monitor \in Dropping
           /\ vs_monitor' = "announce_off" <=> vs_monitor = "announce_off"
<1>1. /\ pc'[t] = l /\ \A u \in Threads : u # t => pc'[u] = pc[u]
      /\ t # "vs_monitor" => vs_monitor' = vs_monitor
      /\ t = "vs_monitor" => vs_monitor' = l /\ vs_monitor = pc[t]
  BY GotoFact
<1>2. l \notin Dropping /\ pc[t] \notin Dropping /\ l # "announce_off" /\ pc[t] # "announce_off"
  BY DEF Sweepers, Dropping
<1> QED BY <1>1, <1>2

LEMMA AloneMove ==
    ASSUME TypeOK, Alone, NEW t \in Threads, NEW l \in Labels, Goto(t, l),
           l \in Calm \/ pc[t] \notin Calm \/ ~OtherVSBusy(t),
           l # "found" \/ ~OtherPopping(t)
    PROVE  Alone'
<1>1. /\ pc'[t] = l /\ \A u \in Threads : u # t => pc'[u] = pc[u]
  BY GotoFact
<1>2. \A u \in VSThreads : u \in Threads
  BY ThreadFacts
<1>3. ASSUME NEW a \in VSThreads, NEW b \in VSThreads, Busy(a)', Busy(b)' PROVE a = b
  <2>1. pc'[a] \notin Calm /\ pc'[b] \notin Calm
    BY <1>3 DEF Busy, Calm
  <2>2. \A u \in VSThreads : pc[u] \notin Calm <=> Busy(u)
    BY DEF Busy, Calm
  <2>3. CASE a # t /\ b # t
    BY <1>1, <1>2, <2>1, <2>2, <2>3 DEF Alone
  <2>4. CASE a = t \/ b = t
    BY <1>1, <1>2, <2>1, <2>2, <2>4 DEF Alone, OtherVSBusy
  <2> QED BY <2>3, <2>4
<1>4. ASSUME NEW a \in Threads, NEW b \in Threads, pc'[a] = "found", pc'[b] = "found" PROVE a = b
  BY <1>1, <1>4 DEF Alone, OtherPopping
<1> QED BY <1>3, <1>4 DEF Alone

(* One device is registered by one thread, and one driver runs on one. *)
LEMMA OneWorker ==
    ASSUME LocalInv, Alone, NEW t \in Threads, NEW u \in Threads, pc[t] \in Working, pc[u] \in Working,
           loc[t].mac = loc[u].mac \/ DrvOf(t) = DrvOf(u)
    PROVE  t = u
<1>1. loc[t].mac \in MacsOn(DrvOf(t)) /\ loc[u].mac \in MacsOn(DrvOf(u))
  BY ThreadFacts DEF LocalInv, LocalOk
<1>2. DrvOf(t) = DrvOf(u)
  BY <1>1, ThreadFacts
<1>3. CASE t \in VSThreads
  <2>1. u \in VSThreads
    BY <1>2, <1>3, ThreadFacts
  <2>2. Busy(t) /\ Busy(u)
    BY LabelFacts DEF Busy
  <2> QED BY <1>3, <2>1, <2>2 DEF Alone
<1>4. CASE t \notin VSThreads
  BY <1>2, <1>4, ThreadFacts
<1> QED BY <1>3, <1>4

(* While a thread is inside the virtual-switch driver nothing is swept. *)
LEMMA NoSweep ==
    ASSUME LocalInv, Alone, NEW t \in VSThreads, pc[t] \in Working
    PROVE  vs_monitor \notin Sweepers
<1>1. SUFFICES ASSUME vs_monitor \in Sweepers PROVE FALSE
  OBVIOUS
<1>2. Busy(t) /\ Busy("vs_monitor")
  BY <1>1, LabelFacts DEF Busy, vs_monitor
<1>3. t = "vs_monitor"
  BY <1>2, ThreadFacts DEF Alone
<1> QED BY <1>1, <1>3, LabelFacts DEF vs_monitor

(* The entry of a device is not the one a thread is about to enlist. *)
LEMMA NotListed ==
    ASSUME LocalInv, WorkInv, ListInv, NEW t \in Threads, pc[t] \in Working,
           NEW d \in Drivers, NEW i \in DOMAIN drvq[d]
    PROVE  drvq[d][i].mac # loc[t].mac
<1>1. loc[t].mac \in MacsOn(DrvOf(t)) /\ DrvOf(t) \in Drivers
  BY ThreadFacts DEF LocalInv, LocalOk
<1>2. drvq[d][i].mac \in MacsOn(d)
  BY DEF ListInv
<1>3. Unlisted(DrvOf(t), loc[t].mac)
  BY DEF WorkInv, WorkOk
<1>4. SUFFICES ASSUME drvq[d][i].mac = loc[t].mac PROVE FALSE
  OBVIOUS
<1>5. d = DrvOf(t)
  BY <1>1, <1>2, <1>4, ThreadFacts
<1> QED BY <1>3, <1>4, <1>5 DEF Unlisted

(* Moves before create_dev and dev_online change no list. *)
LEMMA Frame ==
    ASSUME TypeOK, RInv, NEW t \in Threads, NEW l \in Labels \ (Sweepers \cup Holding),
           pc[t] \notin Sweepers \cup Holding, Goto(t, l),
           \A u \in Threads : u # t => loc'[u] = loc[u],
           UNCHANGED <<queue, offq, macOf, drvq, told, sweep, quiet>>
    PROVE  /\ MacInv' /\ PlaceInv' /\ ListInv' /\ IdleInv' /\ ToldInv'
           /\ \A u \in Threads : u # t => WorkOk(u)'
<1>1. /\ pc'[t] = l /\ \A u \in Threads : u # t => pc'[u] = pc[u]
      /\ vs_monitor' \in Sweepers <=> vs_monitor \in Sweepers
      /\ vs_monitor' \in Dropping <=> vs_monitor \in Dropping
      /\ vs_monitor' = "announce_off" <=> vs_monitor = "announce_off"
  BY MoveFact
<1>2. /\ l \notin {"push", "announce", "enlist"} /\ pc[t] \notin {"push", "announce", "enlist"}
  BY DEF Holding
<1>3. \A n : InHand(n)' <=> InHand(n)
  BY <1>1, <1>2 DEF InHand
<1>4. \A n : Arriving(n)' <=> Arriving(n)
  BY <1>1, <1>2 DEF Arriving
<1>5. \A n : (\E u \in Threads : pc'[u] = "announce" /\ loc'[u].dev = n)
                <=> \E u \in Threads : pc[u] = "announce" /\ loc[u].dev = n
  BY <1>1, <1>2
<1>6. SweepEntry' = SweepEntry
  BY DEF SweepEntry
<1>7. MacInv'
  BY DEF RInv, MacInv
<1>8. PlaceInv'
  BY <1>3 DEF RInv, PlaceInv
<1>9. ListInv'
  BY <1>1, <1>4, <1>6 DEF RInv, ListInv, ListedSomewhere
<1>10. IdleInv'
  BY <1>1, <1>6 DEF RInv, IdleInv
<1>11. ToldInv'
  BY <1>1, <1>3, <1>5, <1>6 DEF RInv, ToldInv
<1>12. ASSUME NEW u \in Threads, u # t PROVE WorkOk(u)'
  <2>1. WorkOk(u)
    BY DEF RInv, WorkInv
  <2> QED BY <1>1, <1>12, <2>1 DEF WorkOk, Unlisted
<1> QED BY <1>7, <1>8, <1>9, <1>10, <1>11, <1>12

LEMMA ProbeStep ==
    ASSUME TypeOK, LocalInv, RInv, NEW t \in Threads,
           ProbeBegin(t) \/ ProbeEnd(t) \/ (MonitorProbes /\ t = "vs_monitor")
    PROVE  RInv'
<1>1. /\ UNCHANGED <<queue, offq, macOf, drvq, told, loc, sweep, quiet>>
      /\ Goto(t, "probing") \/ Goto(t, "idle")
      /\ pc[t] \in Calm
  BY DEF ProbeBegin, ProbeEnd, MonitorProbes, Calm
<1>2. PICK l \in {"probing", "idle"} : Goto(t, l)
  BY <1>1
<1>3. /\ l \in Calm /\ l \in Labels /\ l \notin Sweepers \cup Holding /\ l \notin Working /\ l # "found"
      /\ pc[t] \notin Sweepers \cup Holding
  BY <1>1, <1>2 DEF Calm, Labels, Sweepers, Dropping, Working, Holding
<1>4. Alone'
  BY <1>2, <1>3, AloneMove DEF RInv
<1>5. /\ MacInv' /\ PlaceInv' /\ ListInv' /\ IdleInv' /\ ToldInv'
      /\ \A u \in Threads : u # t => WorkOk(u)'
  BY <1>1, <1>2, <1>3, Frame
<1>6. pc'[t] = l
  BY <1>2, <1>3, GotoFact
<1>7. WorkOk(t)'
  BY <1>3, <1>6, LabelFacts DEF WorkOk, Working, Holding
<1>8. WorkInv'
  BY <1>5, <1>7 DEF WorkInv
<1> QED BY <1>4, <1>5, <1>8 DEF RInv

LEMMA RegisterStep ==
    ASSUME TypeOK, LocalInv, RInv, NEW t \in Threads, NEW m \in Macs, RegisterDevice(t, m), ~race'
    PROVE  RInv'
<1>1. /\ UNCHANGED <<queue, offq, macOf, drvq, told, sweep, quiet>>
      /\ Goto(t, "scan") /\ pc[t] = "probing" /\ Unlisted(DrvOf(t), m) /\ ~OtherVSBusy(t)
  BY DEF RegisterDevice
<1>2. loc'[t].mac = m /\ \A u \in Threads : u # t => loc'[u] = loc[u]
  <2>1. loc'[t] = [mac |-> m, idx |-> 0, dev |-> 0] /\ \A u \in Threads : u # t => loc'[u] = loc[u]
    BY RegisterTypes
  <2> QED BY <2>1
<1>3. /\ "scan" \in Labels /\ "scan" \notin Sweepers \cup Holding /\ "scan" # "found"
      /\ pc[t] \notin Sweepers \cup Holding
  BY <1>1 DEF Labels, Sweepers, Dropping, Holding
<1>4. Alone'
  BY <1>1, <1>3, AloneMove DEF RInv
<1>5. /\ MacInv' /\ PlaceInv' /\ ListInv' /\ IdleInv' /\ ToldInv'
      /\ \A u \in Threads : u # t => WorkOk(u)'
  BY <1>1, <1>2, <1>3, Frame
<1>6. pc'[t] = "scan"
  BY <1>1, <1>3, GotoFact
<1>7. WorkOk(t)'
  BY <1>1, <1>2, <1>3, <1>6 DEF WorkOk, Unlisted, Holding
<1>8. WorkInv'
  BY <1>5, <1>7 DEF WorkInv
<1> QED BY <1>4, <1>5, <1>8 DEF RInv

(* A device that is neither listed by its driver nor offline is new. *)
LEMMA UnknownMac ==
    ASSUME TypeOK, LocalInv, RInv, NEW t \in Threads, pc[t] = "scan", OfflineIndex(loc[t].mac) = {},
           NEW n \in 1..Len(macOf)
    PROVE  macOf[n] # loc[t].mac
<1>1. SUFFICES ASSUME macOf[n] = loc[t].mac PROVE FALSE
  OBVIOUS
<1>2. pc[t] \in Working
  BY DEF Working
<1>3. ~In(n, offq)
  BY <1>1 DEF In, OfflineIndex
<1>4. ASSUME NEW u \in Threads, pc[u] \in Holding, loc[u].dev = n PROVE FALSE
  <2>1. macOf[n] = loc[u].mac /\ pc[u] \in Working
    BY <1>4, LabelFacts DEF RInv, WorkInv, WorkOk
  <2>2. u = t
    BY <1>1, <1>2, <2>1, OneWorker DEF RInv
  <2> QED BY <1>4, <2>2 DEF Holding
<1>5. ~InHand(n)
  BY <1>4 DEF InHand, Holding
<1>6. ~Arriving(n)
  BY <1>4 DEF Arriving, Holding
<1>7. In(n, queue)
  BY <1>3, <1>5 DEF RInv, PlaceInv
<1>8. PICK d \in Drivers : \E i \in DOMAIN drvq[d] : drvq[d][i].id = n
  BY <1>6, <1>7 DEF RInv, ListInv, ListedSomewhere
<1>9. PICK i \in DOMAIN drvq[d] : drvq[d][i].id = n
  BY <1>8
<1>10. drvq[d][i].mac = loc[t].mac
  BY <1>1, <1>9 DEF RInv, ListInv
<1> QED BY <1>2, <1>10, NotListed DEF RInv

LEMMA ScanStep ==
    ASSUME TypeOK, LocalInv, RInv, NEW t \in Threads, ScanOffline(t), ~race'
    PROVE  RInv'
<1>1. UNCHANGED <<queue, offq, macOf, drvq, told, sweep, quiet>> /\ pc[t] = "scan" /\ ~OtherPopping(t)
  BY DEF ScanOffline
<1>2. /\ \A u \in Threads : u # t => loc'[u] = loc[u]
      /\ loc'[t].mac = loc[t].mac
      /\ \/ Goto(t, "create") /\ loc' = loc /\ OfflineIndex(loc[t].mac) = {}
         \/ /\ Goto(t, "found") /\ loc'[t].idx \in OfflineIndex(loc[t].mac)
            /\ loc'[t].dev = offq[loc'[t].idx]
  BY ScanTypes
<1>3. PICK l \in {"create", "found"} : Goto(t, l)
  BY <1>2
<1>4. /\ l \in Labels /\ l \notin Sweepers \cup Holding /\ pc[t] \notin Calm
      /\ pc[t] \notin Sweepers \cup Holding /\ pc[t] \in Working
  BY <1>1, <1>3 DEF Labels, Sweepers, Dropping, Holding, Calm, Working
<1>5. Alone'
  BY <1>1, <1>3, <1>4, AloneMove DEF RInv
<1>6. /\ MacInv' /\ PlaceInv' /\ ListInv' /\ IdleInv' /\ ToldInv'
      /\ \A u \in Threads : u # t => WorkOk(u)'
  BY <1>1, <1>2, <1>3, <1>4, Frame
<1>7. Unlisted(DrvOf(t), loc[t].mac)
  BY <1>4 DEF RInv, WorkInv, WorkOk
<1>8. Unlisted(DrvOf(t), loc[t].mac)'
  BY <1>1, <1>2, <1>7 DEF Unlisted
<1>9. WorkOk(t)'
  <2>1. CASE Goto(t, "create") /\ loc' = loc /\ OfflineIndex(loc[t].mac) = {}
    <3>1. pc'[t] = "create"
      BY <2>1, GotoFact DEF Labels
    <3>2. \A n \in 1..Len(macOf) : macOf[n] # loc[t].mac
      BY <1>1, <2>1, UnknownMac
    <3> QED BY <1>1, <1>8, <2>1, <3>1, <3>2 DEF WorkOk, Holding
  <2>2. CASE /\ Goto(t, "found") /\ loc'[t].idx \in OfflineIndex(loc[t].mac)
             /\ loc'[t].dev = offq[loc'[t].idx]
    <3>1. pc'[t] = "found"
      BY <2>2, GotoFact DEF Labels
    <3>2. loc'[t].idx \in DOMAIN offq /\ macOf[loc'[t].dev] = loc[t].mac
      BY <2>2 DEF OfflineIndex
    <3>3. loc'[t].dev \in 1..Len(macOf)
      BY <2>2, <3>2 DEF RInv, PlaceInv
    <3> QED BY <1>1, <1>2, <1>8, <2>2, <3>1, <3>2, <3>3 DEF WorkOk
  <2> QED BY <1>2, <2>1, <2>2
<1>10. WorkInv'
  BY <1>6, <1>9 DEF WorkInv
<1> QED BY <1>5, <1>6, <1>10 DEF RInv

LEMMA CreateStep ==
    ASSUME TypeOK, LocalInv, RInv, NEW t \in Threads, CreateDev(t)
    PROVE  RInv'
<1>1. /\ UNCHANGED <<queue, offq, drvq, told, sweep, race, quiet>> /\ pc[t] = "create" /\ Goto(t, "push")
      /\ macOf' = Append(macOf, loc[t].mac)
  BY DEF CreateDev
<1>2. /\ \A u \in Threads : u # t => loc'[u] = loc[u]
      /\ loc'[t].mac = loc[t].mac /\ loc'[t].dev = Len(macOf) + 1
  BY CreateTypes
<1>3. /\ "push" \in Labels /\ "push" \notin Sweepers /\ "push" # "found" /\ pc[t] \notin Calm
      /\ pc[t] \notin Sweepers \cup Holding /\ pc[t] \in Working
  BY <1>1 DEF Labels, Sweepers, Dropping, Holding, Calm, Working
<1>4. Alone'
  BY <1>1, <1>3, AloneMove DEF RInv
<1>5. /\ pc'[t] = "push" /\ \A u \in Threads : u # t => pc'[u] = pc[u]
      /\ vs_monitor' \in Sweepers <=> vs_monitor \in Sweepers
      /\ vs_monitor' \in Dropping <=> vs_monitor \in Dropping
      /\ vs_monitor' = "announce_off" <=> vs_monitor = "announce_off"
  BY <1>1, <1>3, MoveFact
<1>6. loc[t].mac \in Macs /\ macOf \in Seq(Macs) /\ Len(macOf) \in Nat
  BY <1>3, ThreadFacts, TypeFacts DEF LocalInv, LocalOk
<1>7. PICK N : N = Len(macOf) + 1
  OBVIOUS
<1>8. /\ 1..Len(macOf') = (1..Len(macOf)) \cup {N} /\ N \notin 1..Len(macOf)
      /\ macOf'[N] = loc[t].mac /\ \A n \in 1..Len(macOf) : macOf'[n] = macOf[n]
  <2>1. /\ Len(macOf') = Len(macOf) + 1 /\ macOf'[Len(macOf) + 1] = loc[t].mac
        /\ \A n \in DOMAIN macOf : macOf'[n] = macOf[n]
    BY <1>1, <1>6, AppendFact
  <2>2. DOMAIN macOf = 1..Len(macOf)
    BY <1>6
  <2> QED BY <1>6, <1>7, <2>1, <2>2
<1>9. \A n \in 1..Len(macOf) : macOf[n] # loc[t].mac
  BY <1>1 DEF RInv, WorkInv, WorkOk
<1>10. MacInv'
  BY <1>8, <1>9 DEF RInv, MacInv
<1>11. ~In(N, queue) /\ ~In(N, offq)
  BY <1>8 DEF RInv, PlaceInv, In
<1>12. \A n : InHand(n)' <=> InHand(n) \/ n = N
  BY <1>1, <1>2, <1>5, <1>7 DEF InHand
<1>13. PlaceInv'
  <2>1. NoDup(queue)' /\ NoDup(offq)'
    BY <1>1 DEF RInv, PlaceInv, NoDup
  <2>2. /\ \A i \in DOMAIN queue' : queue'[i] \in 1..Len(macOf')
        /\ \A i \in DOMAIN offq' : offq'[i] \in 1..Len(macOf')
    BY <1>1, <1>8 DEF RInv, PlaceInv
  <2>3. \A n \in 1..Len(macOf') : /\ In(n, queue)' \/ In(n, offq)' \/ InHand(n)'
                                  /\ ~(In(n, queue)' /\ In(n, offq)')
                                  /\ InHand(n)' => ~In(n, queue)' /\ ~In(n, offq)'
    <3>1. \A n : (In(n, queue)' <=> In(n, queue)) /\ (In(n, offq)' <=> In(n, offq))
      BY <1>1 DEF In
    <3> QED BY <1>8, <1>11, <1>12, <3>1 DEF RInv, PlaceInv
  <2> QED BY <2>1, <2>2, <2>3 DEF PlaceInv
<1>14. ASSUME NEW u \in Threads PROVE WorkOk(u)'
  <2>1. WorkOk(u)
    BY DEF RInv, WorkInv
  <2>2. \A d, m : Unlisted(d, m)' <=> Unlisted(d, m)
    BY <1>1 DEF Unlisted
  <2>3. CASE u = t
    <3>1. Unlisted(DrvOf(t), loc[t].mac)
      BY <1>3, <2>1, <2>3 DEF WorkOk
    <3>2. "push" \notin {"announce", "enlist"} /\ "push" # "create"
      OBVIOUS
    <3> QED BY <1>2, <1>3, <1>5, <1>7, <1>8, <2>2, <2>3, <3>1, <3>2 DEF WorkOk
  <2>4. CASE u # t
    <3>1. pc'[u] = pc[u] /\ loc'[u] = loc[u]
      BY <1>2, <1>5, <2>4
    <3>2. pc[u] = "create" => loc[u].mac # loc[t].mac
      BY <1>3, <2>4, OneWorker DEF RInv, Working
    <3> QED BY <1>1, <1>8, <2>1, <2>2, <3>1, <3>2 DEF WorkOk, In
  <2> QED BY <2>3, <2>4
<1>15. ListInv'
  <2>1. \A d \in Drivers : \A i \in DOMAIN drvq[d] :
           drvq[d][i].id \in 1..Len(macOf') /\ macOf'[drvq[d][i].id] = drvq[d][i].mac
    BY <1>8 DEF RInv, ListInv
  <2>2. \A n : (In(n, queue)' <=> In(n, queue)) /\ (In(n, offq)' <=> In(n, offq))
    BY <1>1 DEF In
  <2>3. \A d \in Drivers : \A i \in DOMAIN drvq[d] :
         /\ drvq[d][i].mac \in MacsOn(d)
         /\ In(drvq[d][i].id, queue)' \/ (d = "vs" /\ vs_monitor' \in Dropping /\ i = sweep'.pos)
         /\ \A j \in DOMAIN drvq[d] : drvq[d][i].mac = drvq[d][j].mac => i = j
    BY <1>1, <1>5, <2>2 DEF RInv, ListInv
  <2>4. vs_monitor' \in Dropping => In(SweepEntry.id, offq)'
    BY <1>1, <1>5, <2>2 DEF RInv, ListInv, SweepEntry
  <2>5. \A n : Arriving(n) => Arriving(n)'
    BY <1>2, <1>3, <1>5 DEF Arriving, Holding
  <2>6. \A n \in 1..Len(macOf') : In(n, queue)' => ListedSomewhere(n)' \/ Arriving(n)'
    BY <1>1, <1>8, <1>11, <2>2, <2>5 DEF RInv, ListInv, ListedSomewhere
  <2> QED BY <1>1, <2>1, <2>3, <2>4, <2>6 DEF ListInv
<1>16. IdleInv'
  BY <1>1, <1>5 DEF RInv, IdleInv, SweepEntry
<1>17. ToldInv'
  <2>1. \A n : (In(n, offq)' <=> In(n, offq))
    BY <1>1 DEF In
  <2>2. \A n : (\E u \in Threads : pc[u] = "announce" /\ loc[u].dev = n)
                 => \E u \in Threads : pc'[u] = "announce" /\ loc'[u].dev = n
    BY <1>2, <1>3, <1>5 DEF Holding
  <2>3. SweepEntry' = SweepEntry
    BY <1>1 DEF SweepEntry
  <2> QED BY <1>1, <1>5, <1>8, <1>11, <1>12, <2>1, <2>2, <2>3 DEF RInv, ToldInv
<1>18. WorkInv'
  BY <1>14 DEF WorkInv
<1> QED BY <1>4, <1>10, <1>13, <1>15, <1>16, <1>17, <1>18 DEF RInv

LEMMA PopStep ==
    ASSUME TypeOK, LocalInv, RInv, NEW t \in Threads, PopOffline(t)
    PROVE  RInv'
<1>1. /\ UNCHANGED <<queue, macOf, drvq, told, loc, sweep, race, quiet>> /\ pc[t] = "found"
      /\ Goto(t, "push") /\ offq' = PopNth(offq, loc[t].idx)
  BY DEF PopOffline
<1>2. /\ "push" \in Labels /\ "push" \notin Sweepers /\ "push" # "found" /\ pc[t] \notin Calm
      /\ pc[t] \notin Sweepers \cup Holding /\ pc[t] \in Working
  BY <1>1 DEF Labels, Sweepers, Dropping, Holding, Calm, Working
<1>3. Alone'
  BY <1>1, <1>2, AloneMove DEF RInv
<1>4. /\ pc'[t] = "push" /\ \A u \in Threads : u # t => pc'[u] = pc[u]
      /\ vs_monitor' \in Sweepers <=> vs_monitor \in Sweepers
      /\ vs_monitor' \in Dropping <=> vs_monitor \in Dropping
      /\ vs_monitor' = "announce_off" <=> vs_monitor = "announce_off"
  BY <1>1, <1>2, MoveFact
<1>5. PICK D : D = loc[t].dev
  OBVIOUS
<1>6. /\ loc[t].idx \in DOMAIN offq /\ offq[loc[t].idx] = D /\ D \in 1..Len(macOf) /\ macOf[D] = loc[t].mac
      /\ Unlisted(DrvOf(t), loc[t].mac)
  BY <1>1, <1>2, <1>5 DEF RInv, WorkInv, WorkOk
<1>7. NoDup(offq') /\ \A y : In(y, offq') <=> In(y, offq) /\ y # D
  BY <1>1, <1>6, PopIn, TypeFacts DEF RInv, PlaceInv
<1>8. \A y : In(y, offq)' <=> In(y, offq) /\ y # D
  BY <1>7 DEF In
<1>9. \A n : InHand(n)' <=> InHand(n) \/ n = D
  BY <1>1, <1>4, <1>5 DEF InHand
<1>10. In(D, offq)
  BY <1>6 DEF In
<1>11. \A n : In(n, queue)' <=> In(n, queue)
  BY <1>1 DEF In
<1>12. MacInv'
  BY <1>1 DEF RInv, MacInv
<1>13. PlaceInv'
  <2>1. NoDup(queue)' /\ NoDup(offq)'
    BY <1>1, <1>7 DEF RInv, PlaceInv, NoDup
  <2>2. \A i \in DOMAIN queue' : queue'[i] \in 1..Len(macOf')
    BY <1>1 DEF RInv, PlaceInv
  <2>3. ASSUME NEW i \in DOMAIN offq' PROVE offq'[i] \in 1..Len(macOf')
    <3>1. In(offq'[i], offq)
      BY <1>7 DEF In
    <3> QED BY <1>1, <3>1 DEF RInv, PlaceInv, In
  <2>4. \A n \in 1..Len(macOf') : /\ In(n, queue)' \/ In(n, offq)' \/ InHand(n)'
                                  /\ ~(In(n, queue)' /\ In(n, offq)')
                                  /\ InHand(n)' => ~In(n, queue)' /\ ~In(n, offq)'
    BY <1>1, <1>8, <1>9, <1>10, <1>11 DEF RInv, PlaceInv
  <2> QED BY <2>1, <2>2, <2>3, <2>4 DEF PlaceInv
<1>14. ASSUME NEW u \in Threads PROVE WorkOk(u)'
  <2>1. WorkOk(u)
    BY DEF RInv, WorkInv
  <2>2. \A d, m : Unlisted(d, m)' <=> Unlisted(d, m)
    BY <1>1 DEF Unlisted
  <2>3. CASE u = t
    <3>1. "push" \notin {"announce", "enlist"} /\ "push" # "create"
      OBVIOUS
    <3> QED BY <1>1, <1>2, <1>4, <1>5, <1>6, <2>2, <2>3, <3>1 DEF WorkOk
  <2>4. CASE u # t
    <3>1. pc'[u] = pc[u] /\ pc[u] # "found"
      BY <1>1, <1>4, <2>4 DEF RInv, Alone
    <3> QED BY <1>1, <1>11, <2>1, <2>2, <3>1 DEF WorkOk
  <2> QED BY <2>3, <2>4
<1>15. ListInv'
  <2>1. \A d \in Drivers : \A i \in DOMAIN drvq[d] :
         /\ drvq[d][i].id \in 1..Len(macOf) /\ macOf[drvq[d][i].id] = drvq[d][i].mac
         /\ drvq[d][i].mac \in MacsOn(d)
         /\ In(drvq[d][i].id, queue)' \/ (d = "vs" /\ vs_monitor' \in Dropping /\ i = sweep'.pos)
         /\ \A j \in DOMAIN drvq[d] : drvq[d][i].mac = drvq[d][j].mac => i = j
    BY <1>1, <1>4, <1>11 DEF RInv, ListInv
  <2>2. ASSUME vs_monitor' \in Dropping PROVE In(SweepEntry.id, offq)'
    <3>1. vs_monitor \in Dropping /\ sweep.pos \in DOMAIN drvq["vs"]
      BY <1>4, <2>2, DroppingFact
    <3>2. In(SweepEntry.id, offq) /\ macOf[SweepEntry.id] = SweepEntry.mac
      BY <3>1, ThreadFacts DEF RInv, ListInv, SweepEntry
    <3>3. SweepEntry.mac # loc[t].mac
      BY <1>2, <3>1, NotListed, ThreadFacts DEF RInv, SweepEntry
    <3>4. SweepEntry' = SweepEntry /\ SweepEntry.id # D
      BY <1>1, <1>6, <3>2, <3>3 DEF SweepEntry
    <3> QED BY <1>7, <3>2, <3>4
  <2>3. \A n : Arriving(n) => Arriving(n)'
    BY <1>1, <1>2, <1>4 DEF Arriving, Holding
  <2>4. \A n \in 1..Len(macOf) : In(n, queue)' => ListedSomewhere(n)' \/ Arriving(n)'
    BY <1>1, <1>11, <2>3 DEF RInv, ListInv, ListedSomewhere
  <2> QED BY <1>1, <2>1, <2>2, <2>4 DEF ListInv
<1>16. IdleInv'
  BY <1>1, <1>4 DEF RInv, IdleInv, SweepEntry
<1>17. ToldInv'
  <2>1. \A n : (\E u \in Threads : pc[u] = "announce" /\ loc[u].dev = n)
                 => \E u \in Threads : pc'[u] = "announce" /\ loc'[u].dev = n
    BY <1>1, <1>2, <1>4 DEF Holding
  <2>2. SweepEntry' = SweepEntry
    BY <1>1 DEF SweepEntry
  <2> QED BY <1>1, <1>4, <1>8, <1>9, <2>1, <2>2 DEF RInv, ToldInv
<1>18. WorkInv'
  BY <1>14 DEF WorkInv
<1> QED BY <1>3, <1>12, <1>13, <1>15, <1>16, <1>17, <1>18 DEF RInv

LEMMA PushStep ==
    ASSUME TypeOK, LocalInv, RInv, NEW t \in Threads, PushOnline(t)
    PROVE  RInv'
<1>1. /\ UNCHANGED <<offq, macOf, drvq, told, loc, sweep, race, quiet>> /\ pc[t] = "push"
      /\ Goto(t, "announce") /\ queue' = Append(queue, loc[t].dev)
  BY DEF PushOnline
<1>2. /\ "announce" \in Labels /\ "announce" \notin Sweepers /\ "announce" # "found" /\ pc[t] \notin Calm
      /\ pc[t] \notin Sweepers /\ pc[t] \in Working /\ pc[t] \in Holding
  BY <1>1 DEF Labels, Sweepers, Dropping, Holding, Calm, Working
<1>3. Alone'
  BY <1>1, <1>2, AloneMove DEF RInv
<1>4. /\ pc'[t] = "announce" /\ \A u \in Threads : u # t => pc'[u] = pc[u]
      /\ vs_monitor' \in Sweepers <=> vs_monitor \in Sweepers
      /\ vs_monitor' \in Dropping <=> vs_monitor \in Dropping
      /\ vs_monitor' = "announce_off" <=> vs_monitor = "announce_off"
  BY <1>1, <1>2, MoveFact
<1>5. PICK D : D = loc[t].dev
  OBVIOUS
<1>6. /\ D \in 1..Len(macOf) /\ macOf[D] = loc[t].mac /\ Unlisted(DrvOf(t), loc[t].mac)
  BY <1>1, <1>2, <1>5 DEF RInv, WorkInv, WorkOk
<1>7. InHand(D) /\ ~In(D, queue) /\ ~In(D, offq)
  BY <1>1, <1>5, <1>6 DEF RInv, PlaceInv, InHand
<1>8. D \in Ids
  BY <1>2, <1>5 DEF LocalInv, LocalOk
<1>9. NoDup(queue') /\ \A y : In(y, queue') <=> In(y, queue) \/ y = D
  BY <1>1, <1>5, <1>7, <1>8, AppendIn, TypeFacts DEF RInv, PlaceInv
<1>10. \A y : (In(y, queue)' <=> In(y, queue) \/ y = D) /\ (In(y, offq)' <=> In(y, offq))
  BY <1>1, <1>9 DEF In
<1>11. ASSUME NEW u \in Threads, pc[u] = "push", loc[u].dev = D PROVE u = t
  <2>1. pc[u] \in Holding /\ pc[u] \in Working
    BY <1>11 DEF Holding, Working
  <2>2. loc[u].mac = loc[t].mac
    BY <1>6, <1>11, <2>1 DEF RInv, WorkInv, WorkOk
  <2> QED BY <1>2, <2>1, <2>2, OneWorker DEF RInv
<1>12. \A n : InHand(n)' <=> InHand(n) /\ n # D
  BY <1>1, <1>4, <1>5, <1>11 DEF InHand
<1>13. MacInv'
  BY <1>1 DEF RInv, MacInv
<1>14. PlaceInv'
  <2>1. NoDup(queue)' /\ NoDup(offq)'
    BY <1>1, <1>9 DEF RInv, PlaceInv, NoDup
  <2>2. \A i \in DOMAIN offq' : offq'[i] \in 1..Len(macOf')
    BY <1>1 DEF RInv, PlaceInv
  <2>3. ASSUME NEW i \in DOMAIN queue' PROVE queue'[i] \in 1..Len(macOf')
    <3>1. In(queue'[i], queue) \/ queue'[i] = D
      BY <1>9 DEF In
    <3> QED BY <1>1, <1>6, <3>1 DEF RInv, PlaceInv, In
  <2>4. \A n \in 1..Len(macOf') : /\ In(n, queue)' \/ In(n, offq)' \/ InHand(n)'
                                  /\ ~(In(n, queue)' /\ In(n, offq)')
                                  /\ InHand(n)' => ~In(n, queue)' /\ ~In(n, offq)'
    BY <1>1, <1>7, <1>10, <1>12 DEF RInv, PlaceInv
  <2> QED BY <2>1, <2>2, <2>3, <2>4 DEF PlaceInv
<1>15. ASSUME NEW u \in Threads PROVE WorkOk(u)'
  <2>1. WorkOk(u)
    BY DEF RInv, WorkInv
  <2>2. \A d, m : Unlisted(d, m)' <=> Unlisted(d, m)
    BY <1>1 DEF Unlisted
  <2>3. CASE u = t
    BY <1>1, <1>2, <1>4, <1>5, <1>6, <1>10, <2>2, <2>3 DEF WorkOk
  <2>4. CASE u # t
    BY <1>1, <1>4, <1>10, <2>1, <2>2, <2>4 DEF WorkOk
  <2> QED BY <2>3, <2>4
<1>16. \A n : Arriving(n)' <=> Arriving(n) \/ n = D
  BY <1>1, <1>4, <1>5 DEF Arriving
<1>17. ListInv'
  <2>1. \A d \in Drivers : \A i \in DOMAIN drvq[d] :
         /\ drvq[d][i].id \in 1..Len(macOf) /\ macOf[drvq[d][i].id] = drvq[d][i].mac
         /\ drvq[d][i].mac \in MacsOn(d)
         /\ In(drvq[d][i].id, queue)' \/ (d = "vs" /\ vs_monitor' \in Dropping /\ i = sweep'.pos)
         /\ \A j \in DOMAIN drvq[d] : drvq[d][i].mac = drvq[d][j].mac => i = j
    BY <1>1, <1>4, <1>10 DEF RInv, ListInv
  <2>2. vs_monitor' \in Dropping => In(SweepEntry.id, offq)'
    BY <1>1, <1>4, <1>10 DEF RInv, ListInv, SweepEntry
  <2>3. \A n \in 1..Len(macOf) : In(n, queue)' => ListedSomewhere(n)' \/ Arriving(n)'
    BY <1>1, <1>10, <1>16 DEF RInv, ListInv, ListedSomewhere
  <2> QED BY <1>1, <2>1, <2>2, <2>3 DEF ListInv
<1>18. IdleInv'
  BY <1>1, <1>4 DEF RInv, IdleInv, SweepEntry
<1>19. ToldInv'
  <2>1. \A n : ((\E u \in Threads : pc[u] = "announce" /\ loc[u].dev = n) \/ n = D)
                 => \E u \in Threads : pc'[u] = "announce" /\ loc'[u].dev = n
    BY <1>1, <1>4, <1>5
  <2>2. SweepEntry' = SweepEntry
    BY <1>1 DEF SweepEntry
  <2> QED BY <1>1, <1>4, <1>10, <1>12, <2>1, <2>2 DEF RInv, ToldInv
<1>20. WorkInv'
  BY <1>15 DEF WorkInv
<1> QED BY <1>3, <1>13, <1>14, <1>17, <1>18, <1>19, <1>20 DEF RInv

LEMMA AnnounceStep ==
    ASSUME TypeOK, LocalInv, RInv, NEW t \in Threads, AnnounceOnline(t)
    PROVE  RInv'
<1>1. /\ UNCHANGED <<queue, offq, macOf, drvq, loc, sweep, race, quiet>> /\ pc[t] = "announce"
      /\ Goto(t, "enlist")
      /\ told' = [told EXCEPT ![loc[t].dev] = IF loc[t].idx = 0 THEN "NEW_ADD" ELSE "ONLINE"]
  BY DEF AnnounceOnline
<1>2. /\ "enlist" \in Labels /\ "enlist" \notin Sweepers /\ "enlist" # "found" /\ pc[t] \notin Calm
      /\ pc[t] \notin Sweepers /\ pc[t] \in Working /\ pc[t] \in Holding /\ "enlist" \in Holding
  BY <1>1 DEF Labels, Sweepers, Dropping, Holding, Calm, Working
<1>3. Alone'
  BY <1>1, <1>2, AloneMove DEF RInv
<1>4. /\ pc'[t] = "enlist" /\ \A u \in Threads : u # t => pc'[u] = pc[u]
      /\ vs_monitor' \in Sweepers <=> vs_monitor \in Sweepers
      /\ vs_monitor' \in Dropping <=> vs_monitor \in Dropping
      /\ vs_monitor' = "announce_off" <=> vs_monitor = "announce_off"
  BY <1>1, <1>2, MoveFact
<1>5. PICK D : D = loc[t].dev
  OBVIOUS
<1>6. D \in 1..Len(macOf) /\ In(D, queue)
  BY <1>1, <1>2, <1>5 DEF RInv, WorkInv, WorkOk
<1>7. ~In(D, offq)
  BY <1>6 DEF RInv, PlaceInv
<1>8. \A n : InHand(n)' <=> InHand(n)
  BY <1>1, <1>4 DEF InHand
<1>9. \A n : Arriving(n)' <=> Arriving(n)
  BY <1>1, <1>4 DEF Arriving
<1>10. \A n : (In(n, queue)' <=> In(n, queue)) /\ (In(n, offq)' <=> In(n, offq))
  BY <1>1 DEF In
<1>11. SweepEntry' = SweepEntry
  BY <1>1 DEF SweepEntry
<1>12. MacInv' /\ PlaceInv'
  BY <1>1, <1>8 DEF RInv, MacInv, PlaceInv
<1>13. ASSUME NEW u \in Threads PROVE WorkOk(u)'
  <2>1. WorkOk(u)
    BY DEF RInv, WorkInv
  <2>2. \A d, m : Unlisted(d, m)' <=> Unlisted(d, m)
    BY <1>1 DEF Unlisted
  <2>3. CASE u = t
    BY <1>1, <1>2, <1>4, <1>10, <2>1, <2>2, <2>3 DEF WorkOk
  <2>4. CASE u # t
    BY <1>1, <1>4, <1>10, <2>1, <2>2, <2>4 DEF WorkOk
  <2> QED BY <2>3, <2>4
<1>14. ListInv'
  BY <1>1, <1>4, <1>9, <1>10, <1>11 DEF RInv, ListInv, ListedSomewhere
<1>15. IdleInv'
  BY <1>1, <1>4, <1>11 DEF RInv, IdleInv
<1>16. ToldInv'
  <2>1. Len(macOf) \in Nat /\ \A n \in 1..Len(macOf) : n \in Ids
    BY LimitsAssumption, TypeFacts DEF TypeOK, Ids
  <2>2. \A n \in 1..Len(macOf) : n # D => told'[n] = told[n]
    BY <1>1, <1>5, <2>1 DEF TypeOK
  <2>3. told'[D] # "OFFLINE"
    BY <1>1, <1>5, <1>6, <2>1 DEF TypeOK
  <2>4. \A n : n # D => ((\E u \in Threads : pc[u] = "announce" /\ loc[u].dev = n)
                          => \E u \in Threads : pc'[u] = "announce" /\ loc'[u].dev = n)
    BY <1>1, <1>4, <1>5
  <2>5. ASSUME NEW n \in 1..Len(macOf)
        PROVE  /\ told'[n] = "OFFLINE" => \/ In(n, offq)' \/ InHand(n)'
                                          \/ \E u \in Threads : pc'[u] = "announce" /\ loc'[u].dev = n
               /\ In(n, offq)' => told'[n] = "OFFLINE" \/ (vs_monitor' = "announce_off" /\ SweepEntry'.id = n)
    BY <1>4, <1>7, <1>8, <1>10, <1>11, <2>2, <2>3, <2>4 DEF RInv, ToldInv
  <2> QED BY <1>1, <2>5 DEF ToldInv
<1>17. WorkInv'
  BY <1>13 DEF WorkInv
<1> QED BY <1>3, <1>12, <1>14, <1>15, <1>16, <1>17 DEF RInv

LEMMA EnlistStep ==
    ASSUME TypeOK, LocalInv, RInv, NEW t \in Threads, Enlist(t)
    PROVE  RInv'
<1>1. /\ UNCHANGED <<queue, offq, macOf, told, sweep, race>> /\ pc[t] = "enlist" /\ Goto(t, "probing")
      /\ quiet' = [m \in VSMacs |-> IF m = loc[t].mac THEN 0 ELSE quiet[m]]
  BY DEF Enlist
<1>2. \A u \in Threads : u # t => loc'[u] = loc[u]
  BY EnlistTypes
<1>3. PICK d0 \in Drivers : d0 = DrvOf(t)
  BY ThreadFacts
<1>4. PICK e \in Entry : /\ e.id = loc[t].dev /\ e.mac = loc[t].mac /\ e.idle = 0
                         /\ drvq'[d0] = Append(drvq[d0], e)
                         /\ \A d \in Drivers : d # d0 => drvq'[d] = drvq[d]
  BY <1>3, EnlistTypes
<1>5. /\ "probing" \in Labels /\ "probing" \notin Sweepers /\ "probing" # "found" /\ "probing" \in Calm
      /\ pc[t] \notin Sweepers /\ pc[t] \in Working /\ pc[t] \in Holding /\ "probing" \notin Working
  BY <1>1 DEF Labels, Sweepers, Dropping, Holding, Calm, Working
<1>6. Alone'
  BY <1>1, <1>5, AloneMove DEF RInv
<1>7. /\ pc'[t] = "probing" /\ \A u \in Threads : u # t => pc'[u] = pc[u]
      /\ vs_monitor' \in Sweepers <=> vs_monitor \in Sweepers
      /\ vs_monitor' \in Dropping <=> vs_monitor \in Dropping
      /\ vs_monitor' = "announce_off" <=> vs_monitor = "announce_off"
  BY <1>1, <1>5, MoveFact
<1>8. PICK D : D = loc[t].dev
  OBVIOUS
<1>9. /\ D \in 1..Len(macOf) /\ macOf[D] = loc[t].mac /\ In(D, queue)
      /\ Unlisted(d0, loc[t].mac)
  BY <1>1, <1>3, <1>5, <1>8 DEF RInv, WorkInv, WorkOk
<1>10. loc[t].mac \in MacsOn(d0)
  BY <1>3, <1>5, ThreadFacts DEF LocalInv, LocalOk
<1>11. PICK N : N = Len(drvq[d0]) + 1
  OBVIOUS
<1>12. /\ N \in DOMAIN drvq'[d0] /\ drvq'[d0][N] = e
       /\ \A i \in DOMAIN drvq[d0] : i \in DOMAIN drvq'[d0] /\ drvq'[d0][i] = drvq[d0][i]
       /\ \A i \in DOMAIN drvq'[d0] : i = N \/ i \in DOMAIN drvq[d0]
  BY <1>4, <1>11, AppendFact, TypeFacts
<1>13. \A d \in Drivers : \A i \in DOMAIN drvq[d] : i \in DOMAIN drvq'[d] /\ drvq'[d][i] = drvq[d][i]
  BY <1>4, <1>12
<1>14. \A d \in Drivers : \A i \in DOMAIN drvq'[d] : (d = d0 /\ i = N) \/ i \in DOMAIN drvq[d]
  BY <1>4, <1>12
<1>15. \A n : InHand(n)' <=> InHand(n)
  BY <1>1, <1>2, <1>7 DEF InHand
<1>16. \A n : (In(n, queue)' <=> In(n, queue)) /\ (In(n, offq)' <=> In(n, offq))
  BY <1>1 DEF In
<1>17. vs_monitor \in Sweepers => d0 = "cz"
  <2>1. CASE t \in VSThreads
    BY <1>5, <2>1, NoSweep DEF RInv
  <2>2. CASE t = "cz_monitor"
    BY <1>3, <2>2 DEF DrvOf
  <2> QED BY <2>1, <2>2, ThreadFacts
<1>18. vs_monitor \in Sweepers => drvq'["vs"] = drvq["vs"] /\ SweepEntry' = SweepEntry
  BY <1>1, <1>4, <1>17, ThreadFacts DEF SweepEntry
<1>19. vs_monitor \in Dropping => vs_monitor \in Sweepers
  BY LabelFacts
<1>20. MacInv' /\ PlaceInv'
  BY <1>1, <1>15 DEF RInv, MacInv, PlaceInv
<1>21. ASSUME NEW u \in Threads PROVE WorkOk(u)'
  <2>1. WorkOk(u)
    BY DEF RInv, WorkInv
  <2>2. CASE u = t
    BY <1>5, <1>7, <2>2, LabelFacts DEF WorkOk, Working, Holding
  <2>3. CASE u # t
    <3>1. pc'[u] = pc[u] /\ loc'[u] = loc[u]
      BY <1>2, <1>7, <2>3
    <3>2. ASSUME pc[u] \in Working PROVE Unlisted(DrvOf(u), loc[u].mac)'
      <4>1. DrvOf(u) # d0 /\ DrvOf(u) \in Drivers
        BY <1>3, <1>5, <2>3, <3>2, OneWorker, ThreadFacts DEF RInv
      <4>2. drvq'[DrvOf(u)] = drvq[DrvOf(u)]
        BY <1>4, <4>1
      <4> QED BY <2>1, <3>1, <3>2, <4>2 DEF WorkOk, Unlisted
    <3> QED BY <1>1, <1>16, <2>1, <3>1, <3>2 DEF WorkOk
  <2> QED BY <2>2, <2>3
<1>22. ListInv'
  <2>1. \A i \in DOMAIN drvq[d0] : drvq[d0][i].mac # loc[t].mac
    BY <1>9 DEF Unlisted
  <2>2. ASSUME NEW d \in Drivers, NEW i \in DOMAIN drvq'[d]
        PROVE  /\ drvq'[d][i].id \in 1..Len(macOf) /\ macOf[drvq'[d][i].id] = drvq'[d][i].mac
               /\ drvq'[d][i].mac \in MacsOn(d)
               /\ In(drvq'[d][i].id, queue') \/ (d = "vs" /\ vs_monitor' \in Dropping /\ i = sweep'.pos)
               /\ \A j \in DOMAIN drvq'[d] : drvq'[d][i].mac = drvq'[d][j].mac => i = j
    <3>1. CASE d = d0 /\ i = N
      <4>1. drvq'[d][i] = e
        BY <1>12, <3>1
      <4>2. \A j \in DOMAIN drvq'[d] : drvq'[d][i].mac = drvq'[d][j].mac => i = j
        BY <1>4, <1>12, <2>1, <3>1
      <4> QED BY <1>4, <1>8, <1>9, <1>10, <1>16, <3>1, <4>1, <4>2
    <3>2. CASE i \in DOMAIN drvq[d]
      <4>1. drvq'[d][i] = drvq[d][i]
        BY <1>13, <3>2
      <4>2. \A j \in DOMAIN drvq'[d] : drvq'[d][i].mac = drvq'[d][j].mac => i = j
        <5>1. \A j \in DOMAIN drvq[d] : drvq[d][i].mac = drvq[d][j].mac => i = j
          BY <3>2 DEF RInv, ListInv
        <5> QED BY <1>4, <1>12, <1>13, <1>14, <2>1, <3>2, <4>1, <5>1
      <4> QED BY <1>1, <1>7, <1>16, <3>2, <4>1, <4>2 DEF RInv, ListInv
    <3> QED BY <1>14, <3>1, <3>2
  <2>3. vs_monitor' \in Dropping => In(SweepEntry.id, offq)'
    BY <1>1, <1>7, <1>18, <1>19 DEF RInv, ListInv, In
  <2>4. \A n : ListedSomewhere(n) \/ n = D => ListedSomewhere(n)'
    BY <1>4, <1>8, <1>12, <1>13 DEF ListedSomewhere
  <2>5. \A n : Arriving(n) => Arriving(n)' \/ n = D
    BY <1>2, <1>7, <1>8 DEF Arriving
  <2>6. \A n \in 1..Len(macOf) : In(n, queue)' => ListedSomewhere(n)' \/ Arriving(n)'
    BY <1>16, <2>4, <2>5 DEF RInv, ListInv
  <2> QED BY <1>1, <2>2, <2>3, <2>6 DEF ListInv
<1>23. IdleInv'
  <2>1. CASE d0 = "vs"
    <3>1. vs_monitor' \notin Sweepers /\ vs_monitor \notin Sweepers /\ vs_monitor' \notin Dropping
      BY <1>7, <1>17, <2>1, LabelFacts
    <3>2. \A i \in DOMAIN drvq["vs"] : quiet[drvq["vs"][i].mac] = drvq["vs"][i].idle
      BY <3>1 DEF RInv, IdleInv
    <3>3. \A i \in DOMAIN drvq["vs"] : drvq["vs"][i].mac # loc[t].mac /\ drvq["vs"][i].mac \in VSMacs
      BY <1>9, <2>1, ThreadFacts DEF RInv, ListInv, Unlisted, MacsOn
    <3>4. loc[t].mac \in VSMacs
      BY <1>10, <2>1 DEF MacsOn
    <3>5. \A i \in DOMAIN drvq'["vs"] : quiet'[drvq'["vs"][i].mac] = drvq'["vs"][i].idle
      <4>1. quiet'[e.mac] = e.idle
        BY <1>1, <1>4, <3>4
      <4>2. \A i \in DOMAIN drvq["vs"] : quiet'[drvq["vs"][i].mac] = drvq["vs"][i].idle
        BY <1>1, <3>2, <3>3
      <4> QED BY <1>12, <2>1, <4>1, <4>2
    <3> QED BY <3>1, <3>5 DEF IdleInv
  <2>2. CASE d0 = "cz"
    <3>1. drvq'["vs"] = drvq["vs"]
      BY <1>4, <2>2, ThreadFacts
    <3>2. \A i \in DOMAIN drvq["vs"] : drvq["vs"][i].mac \in VSMacs
      BY ThreadFacts DEF RInv, ListInv, MacsOn
    <3>3. loc[t].mac \notin VSMacs
      BY <1>10, <2>2, MacsAssumption DEF MacsOn
    <3>4. \A i \in DOMAIN drvq["vs"] : quiet'[drvq["vs"][i].mac] = quiet[drvq["vs"][i].mac]
      BY <1>1, <3>2, <3>3
    <3>5. SweepEntry' = SweepEntry
      BY <1>1, <3>1 DEF SweepEntry
    <3> QED BY <1>1, <1>7, <3>1, <3>4, <3>5 DEF RInv, IdleInv
  <2> QED BY <2>1, <2>2 DEF Drivers
<1>24. ToldInv'
  <2>1. \A n : (\E u \in Threads : pc[u] = "announce" /\ loc[u].dev = n)
                 => \E u \in Threads : pc'[u] = "announce" /\ loc'[u].dev = n
    BY <1>1, <1>2, <1>7
  <2>2. vs_monitor = "announce_off" => SweepEntry' = SweepEntry
    BY <1>18 DEF Sweepers, Dropping
  <2> QED BY <1>1, <1>7, <1>15, <1>16, <2>1, <2>2 DEF RInv, ToldInv
<1>25. WorkInv'
  BY <1>21 DEF WorkInv
<1> QED BY <1>6, <1>20, <1>22, <1>23, <1>24, <1>25 DEF RInv

(* Counting silence moves no device. *)
LEMMA SameEntries ==
    ASSUME RInv, UNCHANGED <<queue, offq, macOf, told, pc, loc>>, vs_monitor \notin Dropping,
           drvq'["cz"] = drvq["cz"], DOMAIN drvq'["vs"] = DOMAIN drvq["vs"],
           \A i \in DOMAIN drvq["vs"] :
              drvq'["vs"][i].id = drvq["vs"][i].id /\ drvq'["vs"][i].mac = drvq["vs"][i].mac
    PROVE  Alone' /\ MacInv' /\ PlaceInv' /\ WorkInv' /\ ListInv' /\ ToldInv'
<1>1. vs_monitor' = vs_monitor /\ vs_monitor # "announce_off"
  BY DEF vs_monitor, Dropping
<1>2. Alone' /\ MacInv' /\ PlaceInv'
  BY DEF RInv, Alone, Busy, MacInv, PlaceInv, InHand
<1>3. \A d \in Drivers : /\ DOMAIN drvq'[d] = DOMAIN drvq[d]
                         /\ \A i \in DOMAIN drvq[d] : /\ drvq'[d][i].id = drvq[d][i].id
                                                      /\ drvq'[d][i].mac = drvq[d][i].mac
  BY DEF Drivers
<1>4. \A d \in Drivers : \A m : Unlisted(d, m)' <=> Unlisted(d, m)
  BY <1>3 DEF Unlisted
<1>5. ASSUME NEW t \in Threads PROVE WorkOk(t)'
  <2>1. WorkOk(t) /\ DrvOf(t) \in Drivers
    BY ThreadFacts DEF RInv, WorkInv
  <2>2. pc'[t] \in Working => Unlisted(DrvOf(t), loc[t].mac)'
    BY <1>4, <2>1 DEF WorkOk
  <2> QED BY <2>1, <2>2 DEF WorkOk
<1>6. WorkInv'
  BY <1>5 DEF WorkInv
<1>7. ListInv'
  <2>1. ASSUME NEW d \in Drivers, NEW i \in DOMAIN drvq'[d]
        PROVE  /\ drvq'[d][i].id \in 1..Len(macOf) /\ macOf[drvq'[d][i].id] = drvq'[d][i].mac
               /\ drvq'[d][i].mac \in MacsOn(d)
               /\ In(drvq'[d][i].id, queue')
               /\ \A j \in DOMAIN drvq'[d] : drvq'[d][i].mac = drvq'[d][j].mac => i = j
    BY <1>3 DEF RInv, ListInv
  <2>2. \A n : ListedSomewhere(n)' <=> ListedSomewhere(n)
    BY <1>3 DEF ListedSomewhere
  <2>3. \A n \in 1..Len(macOf) : In(n, queue') => ListedSomewhere(n)' \/ Arriving(n)'
    BY <2>2 DEF RInv, ListInv, Arriving
  <2> QED BY <1>1, <2>1, <2>3 DEF ListInv
<1>8. ToldInv'
  BY <1>1 DEF RInv, ToldInv, InHand
<1> QED BY <1>2, <1>6, <1>7, <1>8

(* What the entries of the virtual-switch driver are. *)
LEMMA EntryFacts ==
    ASSUME TypeOK, RInv
    PROVE  /\ \A i \in DOMAIN drvq["vs"] :
                 /\ i \in Nat /\ drvq["vs"][i].mac \in VSMacs /\ drvq["vs"][i].idle \in 0..(IdleLimit + 1)
                 /\ quiet[drvq["vs"][i].mac] \in Nat
           /\ \A i, j \in DOMAIN drvq["vs"] : drvq["vs"][i].mac = drvq["vs"][j].mac => i = j
           /\ Len(drvq["vs"]) \in Nat /\ DOMAIN drvq["vs"] = 1..Len(drvq["vs"])
<1>1. drvq["vs"] \in Seq(Entry) /\ quiet \in [VSMacs -> Nat]
  BY TypeFacts, ThreadFacts
<1>2. \A i \in DOMAIN drvq["vs"] : drvq["vs"][i].mac \in VSMacs
  BY ThreadFacts DEF RInv, ListInv, MacsOn
<1>3. \A i, j \in DOMAIN drvq["vs"] : drvq["vs"][i].mac = drvq["vs"][j].mac => i = j
  BY ThreadFacts DEF RInv, ListInv
<1>4. \A i \in DOMAIN drvq["vs"] : drvq["vs"][i] \in Entry /\ i \in Nat
  BY <1>1
<1>5. \A e \in Entry : e.idle \in 0..(IdleLimit + 1)
  BY DEF Entry
<1> QED BY <1>1, <1>2, <1>3, <1>4, <1>5

LEMMA HearsStep ==
    ASSUME TypeOK, LocalInv, RInv, NEW i \in DOMAIN drvq["vs"], MonitorHears(i)
    PROVE  RInv'
<1>1. /\ UNCHANGED <<queue, offq, macOf, told, pc, loc, sweep>> /\ vs_monitor = "idle"
      /\ drvq' = [drvq EXCEPT !["vs"][i].idle = 0]
      /\ quiet' = [quiet EXCEPT ![drvq["vs"][i].mac] = 0]
  BY DEF MonitorHears, Refreshed, vs_monitor
<1>2. 0 \in 0..(IdleLimit + 1) /\ vs_monitor \notin Dropping /\ vs_monitor \notin Sweepers /\ vs_monitor' = vs_monitor
  BY <1>1, LimitsAssumption DEF Dropping, Sweepers, vs_monitor
<1>3. /\ drvq'["cz"] = drvq["cz"] /\ DOMAIN drvq'["vs"] = DOMAIN drvq["vs"]
      /\ \A j \in DOMAIN drvq["vs"] :
           /\ drvq'["vs"][j].id = drvq["vs"][j].id /\ drvq'["vs"][j].mac = drvq["vs"][j].mac
           /\ drvq'["vs"][j].idle = IF j = i THEN 0 ELSE drvq["vs"][j].idle
  BY <1>1, <1>2, IdleSet
<1>4. Alone' /\ MacInv' /\ PlaceInv' /\ WorkInv' /\ ListInv' /\ ToldInv'
  BY <1>1, <1>2, <1>3, SameEntries
<1>5. \A j \in DOMAIN drvq["vs"] : quiet[drvq["vs"][j].mac] = drvq["vs"][j].idle
  BY <1>2 DEF RInv, IdleInv
<1>6. /\ \A j \in DOMAIN drvq["vs"] : drvq["vs"][j].mac \in VSMacs
      /\ \A j \in DOMAIN drvq["vs"] : drvq["vs"][i].mac = drvq["vs"][j].mac => i = j
      /\ quiet \in [VSMacs -> Nat]
  BY EntryFacts, TypeFacts
<1>7. \A j \in DOMAIN drvq["vs"] : quiet'[drvq["vs"][j].mac] = IF j = i THEN 0 ELSE quiet[drvq["vs"][j].mac]
  BY <1>1, <1>6
<1>8. \A j \in DOMAIN drvq'["vs"] : quiet'[drvq'["vs"][j].mac] = drvq'["vs"][j].idle
  BY <1>3, <1>5, <1>7
<1>9. IdleInv'
  BY <1>2, <1>8 DEF IdleInv
<1> QED BY <1>4, <1>9 DEF RInv

LEMMA IdleStep ==
    ASSUME TypeOK, LocalInv, RInv, SweepIdle
    PROVE  RInv'
<1>1. UNCHANGED <<queue, offq, macOf, told, pc, loc, race, quiet>> /\ Sweeping
  BY DEF SweepIdle
<1>2. /\ sweep'.pos = sweep.pos + 1 /\ sweep'.len = sweep.len
      /\ SweepEntry.idle + 1 \in 0..(IdleLimit + 1)
      /\ drvq' = [drvq EXCEPT !["vs"][sweep.pos].idle = SweepEntry.idle + 1]
  BY IdleTypes
<1>3. sweep.pos \in DOMAIN drvq["vs"] /\ vs_monitor = "sweep" /\ sweep.pos \in Nat
  BY <1>1, SweepingFact
<1>4. vs_monitor \notin Dropping /\ vs_monitor \in Sweepers /\ vs_monitor' = vs_monitor
  BY <1>1, <1>3 DEF Dropping, Sweepers, vs_monitor
<1>5. /\ drvq'["cz"] = drvq["cz"] /\ DOMAIN drvq'["vs"] = DOMAIN drvq["vs"] /\ Len(drvq'["vs"]) = Len(drvq["vs"])
      /\ \A j \in DOMAIN drvq["vs"] :
           /\ drvq'["vs"][j].id = drvq["vs"][j].id /\ drvq'["vs"][j].mac = drvq["vs"][j].mac
           /\ drvq'["vs"][j].idle = IF j = sweep.pos THEN SweepEntry.idle + 1 ELSE drvq["vs"][j].idle
  BY <1>2, <1>3, IdleSet
<1>6. Alone' /\ MacInv' /\ PlaceInv' /\ WorkInv' /\ ListInv' /\ ToldInv'
  BY <1>1, <1>4, <1>5, SameEntries
<1>7. \A j \in DOMAIN drvq["vs"] :
        quiet[drvq["vs"][j].mac] = IF j >= sweep.pos THEN drvq["vs"][j].idle + 1 ELSE drvq["vs"][j].idle
  BY <1>4 DEF RInv, IdleInv
<1>8. \A j \in DOMAIN drvq["vs"] : j \in Nat
  BY EntryFacts
<1>9. \A j \in DOMAIN drvq["vs"] :
        quiet[drvq["vs"][j].mac] = IF j >= sweep.pos + 1 THEN drvq'["vs"][j].idle + 1 ELSE drvq'["vs"][j].idle
  BY <1>3, <1>5, <1>7, <1>8 DEF SweepEntry
<1>10. Len(drvq["vs"]) <= sweep.len
  BY <1>4 DEF RInv, IdleInv
<1>11. IdleInv'
  BY <1>1, <1>2, <1>4, <1>5, <1>9, <1>10 DEF IdleInv
<1> QED BY <1>6, <1>11 DEF RInv

(* The sweep leaves the threads that register devices where they are. *)
LEMMA SweepThreads ==
    ASSUME TypeOK, NEW l \in Sweepers \cup {"idle"}, vs_monitor \in Sweepers \cup {"idle"},
           Goto("vs_monitor", l), loc' = loc
    PROVE  /\ vs_monitor' = l /\ pc["vs_monitor"] = vs_monitor
           /\ \A u \in Threads : pc'[u] = pc[u] \/ (pc'[u] \notin Working /\ pc[u] \notin Working)
           /\ \A n : (InHand(n)' <=> InHand(n)) /\ (Arriving(n)' <=> Arriving(n))
           /\ \A n : (\E u \in Threads : pc'[u] = "announce" /\ loc'[u].dev = n)
                        <=> \E u \in Threads : pc[u] = "announce" /\ loc[u].dev = n
           /\ l \in Sweepers \cup {"idle"} /\ l \in Labels /\ l # "found"
<1>1. l \in Labels /\ l \notin Working /\ l # "found" /\ "vs_monitor" \in Threads /\ vs_monitor \notin Working
  BY ThreadFacts DEF Labels, Sweepers, Dropping, Working, Holding
<1>2. /\ pc'["vs_monitor"] = l /\ vs_monitor' = l /\ vs_monitor = pc["vs_monitor"]
      /\ \A u \in Threads : u # "vs_monitor" => pc'[u] = pc[u]
  BY <1>1, GotoFact
<1>3. \A u \in Threads : pc'[u] = pc[u] \/ (pc'[u] \notin Working /\ pc[u] \notin Working)
  BY <1>1, <1>2
<1>4. \A u \in Threads : \A k \in {"push", "announce", "enlist"} : pc'[u] = k <=> pc[u] = k
  BY <1>3 DEF Working, Holding
<1>5. \A n : (InHand(n)' <=> InHand(n)) /\ (Arriving(n)' <=> Arriving(n))
  BY <1>4 DEF InHand, Arriving
<1>6. \A n : (\E u \in Threads : pc'[u] = "announce" /\ loc'[u].dev = n)
                <=> \E u \in Threads : pc[u] = "announce" /\ loc[u].dev = n
  BY <1>4
<1> QED BY <1>1, <1>2, <1>3, <1>5, <1>6

LEMMA BeginStep ==
    ASSUME TypeOK, LocalInv, RInv, SweepBegin, ~race'
    PROVE  RInv'
<1>1. /\ UNCHANGED <<queue, offq, macOf, drvq, told, loc>> /\ Goto("vs_monitor", "sweep")
      /\ vs_monitor = "idle" /\ ~OtherVSBusy("vs_monitor")
      /\ quiet' = [m \in VSMacs |-> IF Unlisted("vs", m) THEN 0 ELSE quiet[m] + 1]
  BY DEF SweepBegin, vs_monitor
<1>2. sweep'.pos = 1 /\ sweep'.len = Len(drvq["vs"])
  BY BeginTypes
<1>3. "sweep" \in Sweepers /\ "sweep" \notin Dropping /\ vs_monitor \notin Sweepers /\ vs_monitor \notin Dropping
  BY <1>1 DEF Sweepers, Dropping
<1>4. /\ vs_monitor' = "sweep"
      /\ \A u \in Threads : pc'[u] = pc[u] \/ (pc'[u] \notin Working /\ pc[u] \notin Working)
      /\ \A n : (InHand(n)' <=> InHand(n)) /\ (Arriving(n)' <=> Arriving(n))
      /\ \A n : (\E u \in Threads : pc'[u] = "announce" /\ loc'[u].dev = n)
                   <=> \E u \in Threads : pc[u] = "announce" /\ loc[u].dev = n
  BY <1>1, <1>3, SweepThreads
<1>5. Alone'
  <2>1. "vs_monitor" \in Threads /\ "sweep" \in Labels /\ "sweep" # "found"
    BY ThreadFacts DEF Labels
  <2> QED BY <1>1, <2>1, AloneMove DEF RInv
<1>6. MacInv' /\ PlaceInv'
  BY <1>1, <1>4 DEF RInv, MacInv, PlaceInv
<1>7. ASSUME NEW u \in Threads PROVE WorkOk(u)'
  <2>1. WorkOk(u)
    BY DEF RInv, WorkInv
  <2>2. CASE pc'[u] = pc[u]
    BY <1>1, <2>1, <2>2 DEF WorkOk, Unlisted
  <2>3. CASE pc'[u] \notin Working
    BY <2>3 DEF WorkOk, Working, Holding
  <2> QED BY <1>4, <2>2, <2>3
<1>8. WorkInv'
  BY <1>7 DEF WorkInv
<1>9. ListInv'
  BY <1>1, <1>3, <1>4 DEF RInv, ListInv, ListedSomewhere
<1>10. IdleInv'
  <2>1. \A j \in DOMAIN drvq["vs"] : quiet[drvq["vs"][j].mac] = drvq["vs"][j].idle
    BY <1>3 DEF RInv, IdleInv
  <2>2. \A j \in DOMAIN drvq["vs"] : ~Unlisted("vs", drvq["vs"][j].mac) /\ drvq["vs"][j].mac \in VSMacs
    BY EntryFacts DEF Unlisted
  <2>3. \A j \in DOMAIN drvq["vs"] : quiet'[drvq["vs"][j].mac] = drvq["vs"][j].idle + 1
    BY <1>1, <2>1, <2>2
  <2>4. \A j \in DOMAIN drvq["vs"] : j >= 1
    BY EntryFacts
  <2>5. Len(drvq["vs"]) \in Nat
    BY EntryFacts
  <2> QED BY <1>1, <1>2, <1>3, <1>4, <2>3, <2>4, <2>5 DEF IdleInv
<1>11. ToldInv'
  <2>1. vs_monitor # "announce_off" /\ vs_monitor' # "announce_off"
    BY <1>1, <1>4
  <2> QED BY <1>1, <1>4, <2>1 DEF RInv, ToldInv
<1> QED BY <1>5, <1>6, <1>8, <1>9, <1>10, <1>11 DEF RInv

LEMMA OfflineStep ==
    ASSUME TypeOK, LocalInv, RInv, SweepOffline, ~race'
    PROVE  RInv'
<1>1. /\ UNCHANGED <<macOf, drvq, told, loc, sweep, quiet>> /\ Sweeping /\ SweepEntry.idle > IdleLimit
  BY DEF SweepOffline
<1>2. sweep.pos \in DOMAIN drvq["vs"] /\ vs_monitor = "sweep" /\ SweepEntry \in Entry
  BY <1>1, SweepingFact
<1>3. vs_monitor \in Sweepers /\ vs_monitor \notin Dropping /\ "announce_off" \in Dropping /\ "announce_off" \in Sweepers
  BY <1>2 DEF Sweepers, Dropping
<1>4. PICK D : D = SweepEntry.id
  OBVIOUS
<1>5. /\ D \in 1..Len(macOf) /\ macOf[D] = SweepEntry.mac /\ In(D, queue) /\ SweepEntry.mac \in MacsOn("vs")
  BY <1>2, <1>3, <1>4, ThreadFacts DEF RInv, ListInv, SweepEntry
<1>6. MovedOffline(D) /\ Goto("vs_monitor", "announce_off")
  BY <1>4, <1>5 DEF SweepOffline
<1>7. PICK p \in DOMAIN queue : queue[p] = D /\ queue' = PopNth(queue, p) /\ offq' = Append(offq, D)
  BY <1>6 DEF MovedOffline
<1>8. D \in Ids
  BY <1>2, <1>4 DEF Entry
<1>9. ~In(D, offq) /\ ~InHand(D)
  BY <1>5 DEF RInv, PlaceInv
<1>10. NoDup(queue') /\ \A y : In(y, queue') <=> In(y, queue) /\ y # D
  BY <1>7, PopIn, TypeFacts DEF RInv, PlaceInv
<1>11. NoDup(offq') /\ \A y : In(y, offq') <=> In(y, offq) \/ y = D
  BY <1>7, <1>8, <1>9, AppendIn, TypeFacts DEF RInv, PlaceInv
<1>12. /\ vs_monitor' = "announce_off" /\ pc["vs_monitor"] = "sweep"
       /\ \A u \in Threads : pc'[u] = pc[u] \/ (pc'[u] \notin Working /\ pc[u] \notin Working)
       /\ \A n : (InHand(n)' <=> InHand(n)) /\ (Arriving(n)' <=> Arriving(n))
       /\ \A n : (\E u \in Threads : pc'[u] = "announce" /\ loc'[u].dev = n)
                    <=> \E u \in Threads : pc[u] = "announce" /\ loc[u].dev = n
  BY <1>1, <1>2, <1>3, <1>6, SweepThreads
<1>13. Alone'
  <2>1. "vs_monitor" \in Threads /\ "announce_off" \in Labels /\ "announce_off" # "found" /\ pc["vs_monitor"] \notin Calm
    BY <1>12, ThreadFacts DEF Labels, Calm
  <2> QED BY <1>6, <2>1, AloneMove DEF RInv
<1>14. MacInv'
  BY <1>1 DEF RInv, MacInv
<1>15. PlaceInv'
  <2>1. ASSUME NEW i \in DOMAIN queue' PROVE queue'[i] \in 1..Len(macOf')
    <3>1. In(queue'[i], queue)
      BY <1>10 DEF In
    <3> QED BY <1>1, <3>1 DEF RInv, PlaceInv, In
  <2>2. ASSUME NEW i \in DOMAIN offq' PROVE offq'[i] \in 1..Len(macOf')
    <3>1. In(offq'[i], offq) \/ offq'[i] = D
      BY <1>11 DEF In
    <3> QED BY <1>1, <1>5, <3>1 DEF RInv, PlaceInv, In
  <2>3. \A n \in 1..Len(macOf') : /\ In(n, queue') \/ In(n, offq') \/ InHand(n)'
                                  /\ ~(In(n, queue') /\ In(n, offq'))
                                  /\ InHand(n)' => ~In(n, queue') /\ ~In(n, offq')
    BY <1>1, <1>9, <1>10, <1>11, <1>12 DEF RInv, PlaceInv
  <2> QED BY <1>10, <1>11, <2>1, <2>2, <2>3 DEF PlaceInv
<1>16. ASSUME NEW u \in Threads, pc[u] \in Holding PROVE loc[u].dev # D
  <2>1. pc[u] \in Working /\ macOf[loc[u].dev] = loc[u].mac
    BY <1>16, LabelFacts DEF RInv, WorkInv, WorkOk
  <2>2. SweepEntry.mac # loc[u].mac
    BY <1>2, <2>1, NotListed, ThreadFacts DEF RInv, SweepEntry
  <2> QED BY <1>5, <2>1, <2>2
<1>17. ASSUME NEW u \in Threads PROVE WorkOk(u)'
  <2>1. WorkOk(u)
    BY DEF RInv, WorkInv
  <2>2. CASE pc'[u] = pc[u] /\ pc[u] \in Working
    <3>1. offq \in Seq(Ids)
      BY TypeFacts
    <3>2. \A i \in DOMAIN offq : i \in DOMAIN offq' /\ offq'[i] = offq[i]
      BY <1>7, <1>8, <3>1, AppendFact
    <3>3. pc[u] \in {"announce", "enlist"} => In(loc[u].dev, queue')
      BY <1>10, <1>16, <2>1 DEF WorkOk, Holding
    <3>4. \A d, m : Unlisted(d, m)' <=> Unlisted(d, m)
      BY <1>1 DEF Unlisted
    <3> QED BY <1>1, <2>1, <2>2, <3>2, <3>3, <3>4 DEF WorkOk
  <2>3. CASE pc'[u] \notin Working
    BY <2>3 DEF WorkOk, Working, Holding
  <2> QED BY <1>12, <2>2, <2>3
<1>18. WorkInv'
  BY <1>17 DEF WorkInv
<1>19. ListInv'
  <2>1. ASSUME NEW d \in Drivers, NEW i \in DOMAIN drvq[d]
        PROVE  /\ drvq[d][i].id \in 1..Len(macOf) /\ macOf[drvq[d][i].id] = drvq[d][i].mac
               /\ drvq[d][i].mac \in MacsOn(d)
               /\ In(drvq[d][i].id, queue') \/ (d = "vs" /\ i = sweep.pos)
               /\ \A j \in DOMAIN drvq[d] : drvq[d][i].mac = drvq[d][j].mac => i = j
    <3>1. /\ drvq[d][i].id \in 1..Len(macOf) /\ macOf[drvq[d][i].id] = drvq[d][i].mac
          /\ drvq[d][i].mac \in MacsOn(d) /\ In(drvq[d][i].id, queue)
          /\ \A j \in DOMAIN drvq[d] : drvq[d][i].mac = drvq[d][j].mac => i = j
      BY <1>3 DEF RInv, ListInv
    <3>2. ASSUME drvq[d][i].id = D PROVE d = "vs" /\ i = sweep.pos
      <4>1. drvq[d][i].mac = SweepEntry.mac
        BY <1>5, <3>1, <3>2
      <4>2. d = "vs"
        BY <1>5, <3>1, <4>1, ThreadFacts
      <4> QED BY <1>2, <3>1, <4>1, <4>2 DEF SweepEntry
    <3> QED BY <1>10, <3>1, <3>2
  <2>2. In(SweepEntry.id, offq)'
    BY <1>1, <1>4, <1>11 DEF SweepEntry
  <2>3. \A n \in 1..Len(macOf) : In(n, queue') => ListedSomewhere(n)' \/ Arriving(n)'
    BY <1>1, <1>10, <1>12 DEF RInv, ListInv, ListedSomewhere
  <2> QED BY <1>1, <1>3, <1>12, <2>1, <2>2, <2>3 DEF ListInv
<1>20. IdleInv'
  <2>1. SweepEntry.idle \in 0..(IdleLimit + 1)
    BY <1>2 DEF Entry
  <2>2. SweepEntry.idle = IdleLimit + 1
    BY <1>1, <2>1, LimitsAssumption
  <2>3. SweepEntry' = SweepEntry
    BY <1>1 DEF SweepEntry
  <2> QED BY <1>1, <1>3, <1>12, <2>2, <2>3 DEF RInv, IdleInv
<1>21. ToldInv'
  <2>1. SweepEntry' = SweepEntry /\ vs_monitor # "announce_off"
    BY <1>1, <1>2 DEF SweepEntry
  <2> QED BY <1>1, <1>4, <1>11, <1>12, <2>1 DEF RInv, ToldInv
<1> QED BY <1>13, <1>14, <1>15, <1>18, <1>19, <1>20, <1>21 DEF RInv

LEMMA AnnounceOffStep ==
    ASSUME TypeOK, LocalInv, RInv, AnnounceOffline
    PROVE  RInv'
<1>1. /\ UNCHANGED <<queue, offq, macOf, drvq, loc, sweep, race, quiet>> /\ vs_monitor = "announce_off"
      /\ told' = [told EXCEPT ![SweepEntry.id] = "OFFLINE"] /\ Goto("vs_monitor", "unlist")
  BY DEF AnnounceOffline, vs_monitor
<1>2. vs_monitor \in Dropping /\ vs_monitor \in Sweepers /\ "unlist" \in Dropping /\ "unlist" \in Sweepers
  BY <1>1 DEF Sweepers, Dropping
<1>3. /\ vs_monitor' = "unlist" /\ pc["vs_monitor"] = vs_monitor
      /\ \A u \in Threads : pc'[u] = pc[u] \/ (pc'[u] \notin Working /\ pc[u] \notin Working)
      /\ \A n : (InHand(n)' <=> InHand(n)) /\ (Arriving(n)' <=> Arriving(n))
      /\ \A n : (\E u \in Threads : pc'[u] = "announce" /\ loc'[u].dev = n)
                   <=> \E u \in Threads : pc[u] = "announce" /\ loc[u].dev = n
  BY <1>1, <1>2, SweepThreads
<1>4. Alone'
  <2>1. "vs_monitor" \in Threads /\ "unlist" \in Labels /\ "unlist" # "found" /\ pc["vs_monitor"] \notin Calm
    BY <1>1, <1>3, ThreadFacts DEF Labels, Calm
  <2> QED BY <1>1, <2>1, AloneMove DEF RInv
<1>5. MacInv' /\ PlaceInv'
  BY <1>1, <1>3 DEF RInv, MacInv, PlaceInv
<1>6. ASSUME NEW u \in Threads PROVE WorkOk(u)'
  <2>1. WorkOk(u)
    BY DEF RInv, WorkInv
  <2>2. CASE pc'[u] = pc[u]
    BY <1>1, <2>1, <2>2 DEF WorkOk, Unlisted
  <2>3. CASE pc'[u] \notin Working
    BY <2>3 DEF WorkOk, Working, Holding
  <2> QED BY <1>3, <2>2, <2>3
<1>7. WorkInv'
  BY <1>6 DEF WorkInv
<1>8. SweepEntry' = SweepEntry
  BY <1>1 DEF SweepEntry
<1>9. ListInv'
  BY <1>1, <1>2, <1>3, <1>8 DEF RInv, ListInv, ListedSomewhere
<1>10. IdleInv'
  BY <1>1, <1>2, <1>3, <1>8 DEF RInv, IdleInv
<1>11. ToldInv'
  <2>1. SweepEntry.id \in Ids /\ In(SweepEntry.id, offq)
    BY <1>2, DroppingFact DEF RInv, ListInv
  <2>2. Len(macOf) \in Nat /\ \A n \in 1..Len(macOf) : n \in Ids
    BY LimitsAssumption, TypeFacts DEF TypeOK, Ids
  <2>3. /\ told'[SweepEntry.id] = "OFFLINE"
        /\ \A n \in 1..Len(macOf) : n # SweepEntry.id => told'[n] = told[n]
    BY <1>1, <2>1, <2>2 DEF TypeOK
  <2> QED BY <1>1, <1>3, <2>1, <2>3 DEF RInv, ToldInv
<1> QED BY <1>4, <1>5, <1>7, <1>9, <1>10, <1>11 DEF RInv

LEMMA UnlistStep ==
    ASSUME TypeOK, LocalInv, RInv, Unlist
    PROVE  RInv'
<1>1. /\ UNCHANGED <<queue, offq, macOf, told, loc, sweep, race, quiet>> /\ vs_monitor = "unlist"
      /\ Goto("vs_monitor", "sweep")
  BY DEF Unlist, vs_monitor
<1>2. vs_monitor \in Dropping /\ vs_monitor \in Sweepers /\ "sweep" \notin Dropping /\ "sweep" \in Sweepers
  BY <1>1 DEF Sweepers, Dropping
<1>3. /\ vs_monitor' = "sweep" /\ pc["vs_monitor"] = vs_monitor
      /\ \A u \in Threads : pc'[u] = pc[u] \/ (pc'[u] \notin Working /\ pc[u] \notin Working)
      /\ \A n : (InHand(n)' <=> InHand(n)) /\ (Arriving(n)' <=> Arriving(n))
      /\ \A n : (\E u \in Threads : pc'[u] = "announce" /\ loc'[u].dev = n)
                   <=> \E u \in Threads : pc[u] = "announce" /\ loc[u].dev = n
  BY <1>1, <1>2, SweepThreads
<1>4. Alone'
  <2>1. "vs_monitor" \in Threads /\ "sweep" \in Labels /\ "sweep" # "found" /\ pc["vs_monitor"] \notin Calm
    BY <1>1, <1>3, ThreadFacts DEF Labels, Calm
  <2> QED BY <1>1, <2>1, AloneMove DEF RInv
<1>5. MacInv' /\ PlaceInv'
  BY <1>1, <1>3 DEF RInv, MacInv, PlaceInv
<1>6. PICK p : p = sweep.pos
  OBVIOUS
<1>7. PICK s : s = drvq["vs"]
  OBVIOUS
<1>8. PICK q : q = drvq'["vs"]
  OBVIOUS
<1>9. p \in DOMAIN s /\ s \in Seq(Entry) /\ q = PopNth(s, p) /\ drvq'["cz"] = drvq["cz"]
  BY <1>2, <1>6, <1>7, <1>8, DroppingFact, UnlistTypes, TypeFacts, ThreadFacts
<1>10. /\ q \in Seq(Entry) /\ Len(q) = Len(s) - 1
       /\ \A i \in DOMAIN q : \/ i < p /\ i \in DOMAIN s /\ q[i] = s[i]
                              \/ i >= p /\ i + 1 \in DOMAIN s /\ i + 1 # p /\ q[i] = s[i + 1]
       /\ \A i \in DOMAIN s : \/ i = p
                              \/ i < p /\ i \in DOMAIN q /\ q[i] = s[i]
                              \/ i > p /\ i - 1 \in DOMAIN q /\ q[i - 1] = s[i]
  <2>1. PICK S : S = Entry
    OBVIOUS
  <2>2. s \in Seq(S) /\ p \in DOMAIN s
    BY <1>9, <2>1
  <2>3. /\ PopNth(s, p) \in Seq(S) /\ Len(PopNth(s, p)) = Len(s) - 1
        /\ \A i \in DOMAIN PopNth(s, p) :
              \/ i < p /\ i \in DOMAIN s /\ PopNth(s, p)[i] = s[i]
              \/ i >= p /\ i + 1 \in DOMAIN s /\ i + 1 # p /\ PopNth(s, p)[i] = s[i + 1]
        /\ \A i \in DOMAIN s :
              \/ i = p
              \/ i < p /\ i \in DOMAIN PopNth(s, p) /\ PopNth(s, p)[i] = s[i]
              \/ i > p /\ i - 1 \in DOMAIN PopNth(s, p) /\ PopNth(s, p)[i - 1] = s[i]
    BY <2>2, PopFact
  <2> QED BY <1>9, <2>1, <2>3
<1>11. p \in Nat /\ Len(s) \in Nat /\ \A i \in DOMAIN q : i \in Nat
  BY <1>9, <1>10
<1>12. \A i \in DOMAIN q : \E j \in DOMAIN s : j # p /\ q[i] = s[j]
  BY <1>10, <1>11
<1>13. \A j \in DOMAIN s : j # p => \E i \in DOMAIN q : q[i] = s[j]
  BY <1>10
<1>14. ASSUME NEW d \in Drivers, NEW m, Unlisted(d, m) PROVE Unlisted(d, m)'
  <2>1. CASE d = "vs"
    BY <1>7, <1>8, <1>12, <1>14, <2>1 DEF Unlisted
  <2>2. CASE d = "cz"
    BY <1>9, <1>14, <2>2 DEF Unlisted
  <2> QED BY <2>1, <2>2 DEF Drivers
<1>15. ASSUME NEW u \in Threads PROVE WorkOk(u)'
  <2>1. WorkOk(u) /\ DrvOf(u) \in Drivers
    BY ThreadFacts DEF RInv, WorkInv
  <2>2. CASE pc'[u] = pc[u]
    <3>1. pc'[u] \in Working => Unlisted(DrvOf(u), loc[u].mac)'
      BY <1>1, <1>14, <2>1, <2>2 DEF WorkOk
    <3> QED BY <1>1, <2>1, <2>2, <3>1 DEF WorkOk
  <2>3. CASE pc'[u] \notin Working
    BY <2>3 DEF WorkOk, Working, Holding
  <2> QED BY <1>3, <2>2, <2>3
<1>16. WorkInv'
  BY <1>15 DEF WorkInv
<1>17. s[p].id \in 1..Len(macOf) /\ In(s[p].id, offq)
  BY <1>2, <1>6, <1>7, <1>9, ThreadFacts DEF RInv, ListInv, SweepEntry
<1>18. ~In(s[p].id, queue)
  BY <1>17 DEF RInv, PlaceInv
<1>19. \A i \in DOMAIN s :
         /\ s[i].id \in 1..Len(macOf) /\ macOf[s[i].id] = s[i].mac /\ s[i].mac \in MacsOn("vs")
         /\ i # p => In(s[i].id, queue)
         /\ \A j \in DOMAIN s : s[i].mac = s[j].mac => i = j
  BY <1>6, <1>7, ThreadFacts DEF RInv, ListInv
<1>20. \A i \in DOMAIN q :
         /\ q[i].id \in 1..Len(macOf) /\ macOf[q[i].id] = q[i].mac /\ q[i].mac \in MacsOn("vs")
         /\ In(q[i].id, queue)
  BY <1>12, <1>19
<1>21. ASSUME NEW i \in DOMAIN q, NEW j \in DOMAIN q, q[i].mac = q[j].mac PROVE i = j
  <2>1. PICK a \in DOMAIN s : s[a] = q[i] /\ ((i < p /\ a = i) \/ (i >= p /\ a = i + 1))
    BY <1>10
  <2>2. PICK b \in DOMAIN s : s[b] = q[j] /\ ((j < p /\ b = j) \/ (j >= p /\ b = j + 1))
    BY <1>10
  <2>3. a = b
    BY <1>19, <1>21, <2>1, <2>2
  <2>4. i \in Nat /\ j \in Nat
    BY <1>11
  <2> QED BY <1>11, <2>1, <2>2, <2>3, <2>4
<1>22. ListInv'
  <2>1. ASSUME NEW d \in Drivers, NEW i \in DOMAIN drvq'[d]
        PROVE  /\ drvq'[d][i].id \in 1..Len(macOf) /\ macOf[drvq'[d][i].id] = drvq'[d][i].mac
               /\ drvq'[d][i].mac \in MacsOn(d)
               /\ In(drvq'[d][i].id, queue)
               /\ \A j \in DOMAIN drvq'[d] : drvq'[d][i].mac = drvq'[d][j].mac => i = j
    <3>1. CASE d = "vs"
      BY <1>8, <1>20, <1>21, <3>1
    <3>2. CASE d = "cz"
      BY <1>9, <3>2 DEF RInv, ListInv
    <3> QED BY <3>1, <3>2 DEF Drivers
  <2>2. ASSUME NEW n, In(n, queue), ListedSomewhere(n) PROVE ListedSomewhere(n)'
    <3>1. PICK d \in Drivers : \E i \in DOMAIN drvq[d] : drvq[d][i].id = n
      BY <2>2 DEF ListedSomewhere
    <3>2. CASE d = "vs"
      <4>1. PICK i \in DOMAIN s : s[i].id = n
        BY <1>7, <3>1, <3>2
      <4>2. \E k \in DOMAIN q : q[k].id = n
        BY <1>13, <1>18, <2>2, <4>1
      <4> QED BY <1>8, <4>2, ThreadFacts DEF ListedSomewhere
    <3>3. CASE d = "cz"
      BY <1>9, <3>1, <3>3 DEF ListedSomewhere
    <3> QED BY <3>1, <3>2, <3>3 DEF Drivers
  <2>3. \A n \in 1..Len(macOf) : In(n, queue) => ListedSomewhere(n)' \/ Arriving(n)'
    BY <1>3, <2>2 DEF RInv, ListInv
  <2> QED BY <1>1, <1>2, <1>3, <2>1, <2>3 DEF ListInv
<1>23. IdleInv'
  <2>1. \A i \in DOMAIN s : quiet[s[i].mac] = IF i >= p THEN s[i].idle + 1 ELSE s[i].idle
    BY <1>2, <1>6, <1>7 DEF RInv, IdleInv
  <2>2. ASSUME NEW i \in DOMAIN q PROVE quiet[q[i].mac] = IF i >= p THEN q[i].idle + 1 ELSE q[i].idle
    <3>1. CASE i < p /\ i \in DOMAIN s /\ q[i] = s[i]
      BY <1>11, <2>1, <3>1
    <3>2. CASE i >= p /\ i + 1 \in DOMAIN s /\ i + 1 # p /\ q[i] = s[i + 1]
      <4>1. i + 1 >= p
        BY <1>11, <3>2
      <4> QED BY <2>1, <3>2, <4>1
    <3> QED BY <1>10, <3>1, <3>2
  <2>3. Len(s) <= sweep.len /\ sweep.len \in Nat
    BY <1>2, <1>7, TypeFacts DEF RInv, IdleInv
  <2>4. Len(q) <= sweep.len
    BY <1>10, <1>11, <2>3
  <2> QED BY <1>1, <1>2, <1>3, <1>6, <1>8, <2>2, <2>4 DEF IdleInv
<1>24. ToldInv'
  <2>1. vs_monitor # "announce_off"
    BY <1>1
  <2> QED BY <1>1, <1>3, <2>1 DEF RInv, ToldInv
<1> QED BY <1>4, <1>5, <1>16, <1>22, <1>23, <1>24 DEF RInv

LEMMA EndStep ==
    ASSUME TypeOK, LocalInv, RInv, SweepEnd
    PROVE  RInv'
<1>1. /\ UNCHANGED <<queue, offq, macOf, drvq, told, loc, race, quiet>> /\ vs_monitor = "sweep"
      /\ ~Sweeping /\ Goto("vs_monitor", "idle")
  BY DEF SweepEnd, vs_monitor
<1>2. vs_monitor \notin Dropping /\ vs_monitor \in Sweepers /\ "idle" \notin Dropping /\ "idle" \notin Sweepers
  BY <1>1 DEF Sweepers, Dropping
<1>3. /\ vs_monitor' = "idle" /\ pc["vs_monitor"] = vs_monitor
      /\ \A u \in Threads : pc'[u] = pc[u] \/ (pc'[u] \notin Working /\ pc[u] \notin Working)
      /\ \A n : (InHand(n)' <=> InHand(n)) /\ (Arriving(n)' <=> Arriving(n))
      /\ \A n : (\E u \in Threads : pc'[u] = "announce" /\ loc'[u].dev = n)
                   <=> \E u \in Threads : pc[u] = "announce" /\ loc[u].dev = n
  BY <1>1, <1>2, SweepThreads
<1>4. Alone'
  <2>1. "vs_monitor" \in Threads /\ "idle" \in Labels /\ "idle" # "found" /\ "idle" \in Calm
    BY ThreadFacts DEF Labels, Calm
  <2> QED BY <1>1, <2>1, AloneMove DEF RInv
<1>5. MacInv' /\ PlaceInv'
  BY <1>1, <1>3 DEF RInv, MacInv, PlaceInv
<1>6. ASSUME NEW u \in Threads PROVE WorkOk(u)'
  <2>1. WorkOk(u)
    BY DEF RInv, WorkInv
  <2>2. CASE pc'[u] = pc[u]
    BY <1>1, <2>1, <2>2 DEF WorkOk, Unlisted
  <2>3. CASE pc'[u] \notin Working
    BY <2>3 DEF WorkOk, Working, Holding
  <2> QED BY <1>3, <2>2, <2>3
<1>7. WorkInv'
  BY <1>6 DEF WorkInv
<1>8. ListInv'
  BY <1>1, <1>2, <1>3 DEF RInv, ListInv, ListedSomewhere
<1>9. IdleInv'
  <2>1. /\ \A i \in DOMAIN drvq["vs"] :
             quiet[drvq["vs"][i].mac] = IF i >= sweep.pos THEN drvq["vs"][i].idle + 1 ELSE drvq["vs"][i].idle
        /\ Len(drvq["vs"]) <= sweep.len
    BY <1>2 DEF RInv, IdleInv
  <2>2. /\ DOMAIN drvq["vs"] = 1..Len(drvq["vs"]) /\ Len(drvq["vs"]) \in Nat
        /\ sweep.pos \in Nat /\ sweep.len \in Nat
    BY EntryFacts, TypeFacts
  <2>3. sweep.pos > Len(drvq["vs"])
    BY <1>1, <1>3, <2>1, <2>2 DEF Sweeping
  <2>4. \A i \in DOMAIN drvq["vs"] : ~(i >= sweep.pos)
    BY <2>2, <2>3
  <2> QED BY <1>1, <1>2, <1>3, <2>1, <2>4 DEF IdleInv
<1>10. ToldInv'
  <2>1. vs_monitor # "announce_off"
    BY <1>1
  <2> QED BY <1>1, <1>3, <2>1 DEF RInv, ToldInv
<1> QED BY <1>4, <1>5, <1>7, <1>8, <1>9, <1>10 DEF RInv

LEMMA StutterStep ==
    ASSUME IInv, UNCHANGED vars
    PROVE  IInv'
<1>1. UNCHANGED <<queue, offq, macOf, drvq, told, pc, loc, sweep, quiet, race>>
  BY DEF vars
<1>2. TypeOK' /\ LocalInv'
  BY <1>1 DEF IInv, TypeOK, LocalInv, LocalOk, vs_monitor
<1>3. SUFFICES ASSUME RInv PROVE RInv'
  BY <1>1, <1>2 DEF IInv
<1>4. vs_monitor' = vs_monitor /\ SweepEntry' = SweepEntry
  BY <1>1 DEF vs_monitor, SweepEntry
<1>5. Alone' /\ MacInv' /\ PlaceInv'
  BY <1>1, <1>3 DEF RInv, Alone, Busy, MacInv, PlaceInv, InHand
<1>6. WorkInv'
  BY <1>1, <1>3 DEF RInv, WorkInv, WorkOk, Unlisted
<1>7. ListInv'
  BY <1>1, <1>3, <1>4 DEF RInv, ListInv, ListedSomewhere, Arriving
<1>8. IdleInv' /\ ToldInv'
  BY <1>1, <1>3, <1>4 DEF RInv, IdleInv, ToldInv, InHand
<1> QED BY <1>5, <1>6, <1>7, <1>8 DEF RInv

-----------------------------------------------------------------------------
(* Every step keeps the invariant. *)
LEMMA IStep == IInv /\ [Next]_vars => IInv'
<1> SUFFICES ASSUME IInv, [Next]_vars PROVE IInv'
  OBVIOUS
<1>1. TypeOK /\ LocalInv /\ race \in BOOLEAN
  BY DEF IInv, TypeOK
<1>2. ~race => RInv
  BY DEF IInv
<1>3. ASSUME NEW t \in Threads, ProbeBegin(t) \/ ProbeEnd(t) \/ (MonitorProbes /\ t = "vs_monitor") PROVE IInv'
  <2>1. ~race' => ~race
    BY <1>3 DEF ProbeBegin, ProbeEnd, MonitorProbes
  <2> QED BY <1>1, <1>2, <1>3, <2>1, ProbeTypes, ProbeStep DEF IInv
<1>4. ASSUME NEW t \in Threads, NEW m \in Macs, RegisterDevice(t, m) PROVE IInv'
  <2>1. ~race' => ~race
    BY <1>4 DEF RegisterDevice
  <2> QED BY <1>1, <1>2, <1>4, <2>1, RegisterTypes, RegisterStep DEF IInv
<1>5. ASSUME NEW t \in Threads, ScanOffline(t) PROVE IInv'
  <2>1. ~race' => ~race
    BY <1>5 DEF ScanOffline
  <2> QED BY <1>1, <1>2, <1>5, <2>1, ScanTypes, ScanStep DEF IInv
<1>6. ASSUME NEW t \in Threads, CreateDev(t) PROVE IInv'
  <2>1. ~race' => ~race
    BY <1>6 DEF CreateDev
  <2> QED BY <1>1, <1>2, <1>6, <2>1, CreateTypes, CreateStep DEF IInv
<1>7. ASSUME NEW t \in Threads, PopOffline(t) PROVE IInv'
  <2>1. ~race' => ~race
    BY <1>7 DEF PopOffline
  <2> QED BY <1>1, <1>2, <1>7, <2>1, PopTypes, PopStep DEF IInv
<1>8. ASSUME NEW t \in Threads, PushOnline(t) PROVE IInv'
  <2>1. ~race' => ~race
    BY <1>8 DEF PushOnline
  <2> QED BY <1>1, <1>2, <1>8, <2>1, PushTypes, PushStep DEF IInv
<1>9. ASSUME NEW t \in Threads, AnnounceOnline(t) PROVE IInv'
  <2>1. ~race' => ~race
    BY <1>9 DEF AnnounceOnline
  <2> QED BY <1>1, <1>2, <1>9, <2>1, AnnounceTypes, AnnounceStep DEF IInv
<1>10. ASSUME NEW t \in Threads, Enlist(t) PROVE IInv'
  <2>1. ~race' => ~race
    BY <1>10 DEF Enlist
  <2> QED BY <1>1, <1>2, <1>10, <2>1, EnlistTypes, EnlistStep DEF IInv
<1>11. ASSUME NEW i \in DOMAIN drvq["vs"], MonitorHears(i) PROVE IInv'
  <2>1. ~race' => ~race
    BY <1>11 DEF MonitorHears
  <2> QED BY <1>1, <1>2, <1>11, <2>1, HearsTypes, HearsStep DEF IInv
<1>12. CASE SweepBegin
  <2>1. ~race' => ~race
    BY <1>12 DEF SweepBegin
  <2> QED BY <1>1, <1>2, <1>12, <2>1, BeginTypes, BeginStep DEF IInv
<1>13. CASE SweepIdle
  <2>1. ~race' => ~race
    BY <1>13 DEF SweepIdle
  <2> QED BY <1>1, <1>2, <1>13, <2>1, IdleTypes, IdleStep DEF IInv
<1>14. CASE SweepOffline
  <2>1. ~race' => ~race
    BY <1>14 DEF SweepOffline
  <2> QED BY <1>1, <1>2, <1>14, <2>1, OfflineTypes, OfflineStep DEF IInv
<1>15. CASE AnnounceOffline
  <2>1. ~race' => ~race
    BY <1>15 DEF AnnounceOffline
  <2> QED BY <1>1, <1>2, <1>15, <2>1, AnnounceOffTypes, AnnounceOffStep DEF IInv
<1>16. CASE Unlist
  <2>1. ~race' => ~race
    BY <1>16 DEF Unlist
  <2> QED BY <1>1, <1>2, <1>16, <2>1, UnlistTypes, UnlistStep DEF IInv
<1>17. CASE SweepEnd
  <2>1. ~race' => ~race
    BY <1>17 DEF SweepEnd
  <2> QED BY <1>1, <1>2, <1>17, <2>1, EndTypes, EndStep DEF IInv
<1>18. CASE UNCHANGED vars
  BY <1>18, StutterStep
<1>19. CASE MonitorProbes
  BY <1>3, <1>19, ThreadFacts
<1>20. ASSUME NEW t \in Threads, Register(t) PROVE IInv'
  BY <1>4, <1>5, <1>6, <1>7, <1>8, <1>9, <1>10, <1>20 DEF Register
<1>21. CASE Sweep
  BY <1>12, <1>13, <1>14, <1>15, <1>16, <1>17, <1>21 DEF Sweep
<1>22. CASE Next
  BY <1>3, <1>11, <1>19, <1>20, <1>21, <1>22 DEF Next
<1> QED BY <1>18, <1>22

LEMMA Invariance == Spec => []IInv
  BY IInit, IStep, PTL DEF Spec

(* In a list without repetitions a device occurs once or not at all. *)
LEMMA TimesFact ==
    ASSUME NEW s, NoDup(s), NEW n
    PROVE  Times(n, s) = IF In(n, s) THEN 1 ELSE 0
<1>1. CASE In(n, s)
  <2>1. PICK i \in DOMAIN s : s[i] = n
    BY <1>1 DEF In
  <2>2. { j \in DOMAIN s : s[j] = n } = {i}
    BY <2>1 DEF NoDup
  <2>3. Cardinality({i}) = 1
    BY FS_Singleton
  <2> QED BY <1>1, <2>2, <2>3 DEF Times
<1>2. CASE ~In(n, s)
  <2>1. { j \in DOMAIN s : s[j] = n } = {}
    BY <1>2 DEF In
  <2>2. Cardinality({}) = 0
    BY FS_EmptySet
  <2> QED BY <1>2, <2>1, <2>2 DEF Times
<1> QED BY <1>1, <1>2

(* The registry's variables keep their types, even after two threads have  *)
(* been in the unprotected code of device.c and the drivers at once: no    *)
(* list ever holds an id that alloc_dev_id does not hand out.              *)
THEOREM TypeCorrect == Spec => []TypeOK
<1>1. IInv => TypeOK
  BY DEF IInv
<1> QED BY <1>1, Invariance, PTL

(* dev_online finds a device that was seen before in offq, so that without *)
(* a race no two ids are ever allocated for one mac.                       *)
THEOREM IdCorrect == Spec => []OneIdPerMac
<1>1. IInv => OneIdPerMac
  BY DEF IInv, RInv, MacInv, OneIdPerMac
<1> QED BY <1>1, Invariance, PTL

(* Without a race dev_online and dev_offline neither lose a device nor     *)
(* list it twice.                                                          *)
THEOREM HomeCorrect == Spec => []OneHome
<1>1. ASSUME IInv PROVE OneHome
  <2>1. SUFFICES ASSUME ~race, NEW n \in 1..Len(macOf)
                 PROVE  Times(n, queue) + Times(n, offq) = IF InHand(n) THEN 0 ELSE 1
    BY DEF OneHome
  <2>2. PlaceInv
    BY <1>1, <2>1 DEF IInv, RInv
  <2>3. /\ Times(n, queue) = IF In(n, queue) THEN 1 ELSE 0
        /\ Times(n, offq) = IF In(n, offq) THEN 1 ELSE 0
    BY <2>2, TimesFact DEF PlaceInv
  <2>4. CASE InHand(n)
    <3>1. Times(n, queue) = 0 /\ Times(n, offq) = 0
      BY <2>2, <2>3, <2>4 DEF PlaceInv
    <3> QED BY <2>4, <3>1
  <2>5. CASE ~InHand(n) /\ In(n, queue)
    <3>1. Times(n, queue) = 1 /\ Times(n, offq) = 0
      BY <2>2, <2>3, <2>5 DEF PlaceInv
    <3> QED BY <2>5, <3>1
  <2>6. CASE ~InHand(n) /\ ~In(n, queue)
    <3>1. Times(n, queue) = 0 /\ Times(n, offq) = 1
      BY <2>2, <2>3, <2>6 DEF PlaceInv
    <3> QED BY <2>6, <3>1
  <2> QED BY <2>4, <2>5, <2>6
<1> QED BY <1>1, Invariance, PTL

(* The virtual-switch driver's list and gl_dev_cb.queue agree on which of  *)
(* its devices are online whenever no thread is between the two lists.     *)
THEOREM DriverCorrect == Spec => []DriverAgrees
<1>1. ASSUME IInv PROVE DriverAgrees
  <2>1. SUFFICES ASSUME ~race, \A t \in VSThreads : pc[t] \in {"start", "idle", "probing", "sweep"}
                 PROVE  { drvq["vs"][i].id : i \in DOMAIN drvq["vs"] }
                          = { n \in 1..Len(macOf) : macOf[n] \in VSMacs /\ In(n, queue) }
    BY DEF DriverAgrees
  <2>2. ListInv /\ WorkInv /\ LocalInv
    BY <1>1, <2>1 DEF IInv, RInv
  <2>3. vs_monitor \notin Dropping
    BY <2>1, ThreadFacts DEF vs_monitor, Dropping
  <2>4. \A i \in DOMAIN drvq["vs"] : /\ drvq["vs"][i].id \in 1..Len(macOf) /\ In(drvq["vs"][i].id, queue)
                                     /\ macOf[drvq["vs"][i].id] \in VSMacs
    BY <2>2, <2>3, ThreadFacts DEF ListInv, MacsOn
  <2>5. ASSUME NEW n \in 1..Len(macOf), macOf[n] \in VSMacs, In(n, queue)
        PROVE  \E i \in DOMAIN drvq["vs"] : drvq["vs"][i].id = n
    <3>1. macOf[n] \notin CZMacs
      BY <2>5, MacsAssumption
    <3>2. ~Arriving(n)
      <4>1. SUFFICES ASSUME NEW t \in Threads, pc[t] \in {"announce", "enlist"}, loc[t].dev = n PROVE FALSE
        BY DEF Arriving
      <4>2. t = "cz_monitor"
        BY <2>1, <4>1, ThreadFacts
      <4>3. macOf[n] = loc[t].mac /\ loc[t].mac \in MacsOf(t)
        BY <2>2, <4>1 DEF WorkInv, WorkOk, LocalInv, LocalOk, Holding, Working
      <4> QED BY <3>1, <4>2, <4>3 DEF MacsOf
    <3>3. PICK d \in Drivers : \E i \in DOMAIN drvq[d] : drvq[d][i].id = n
      BY <2>2, <2>5, <3>2 DEF ListInv, ListedSomewhere
    <3>4. d # "cz"
      BY <2>2, <3>1, <3>3 DEF ListInv, MacsOn
    <3> QED BY <3>3, <3>4 DEF Drivers
  <2> QED BY <2>4, <2>5
<1> QED BY <1>1, Invariance, PTL

(* The last dev_updated event the pads got about a device tells whether it *)
(* is offline, whenever no thread is in the middle of moving a device.     *)
THEOREM PadsCorrect == Spec => []PadsKnow
<1>1. ASSUME IInv PROVE PadsKnow
  <2>1. SUFFICES ASSUME ~race, \A t \in Threads : pc[t] \in {"start", "idle", "probing", "sweep"},
                        NEW n \in 1..Len(macOf)
                 PROVE  told[n] = "OFFLINE" <=> In(n, offq)
    BY DEF PadsKnow
  <2>2. ToldInv
    BY <1>1, <2>1 DEF IInv, RInv
  <2>3. vs_monitor # "announce_off" /\ \A t \in Threads : pc[t] # "announce" /\ pc[t] # "push"
    BY <2>1, ThreadFacts DEF vs_monitor
  <2> QED BY <2>2, <2>3 DEF ToldInv, InHand
<1> QED BY <1>1, Invariance, PTL

(* _remove_timeout_dev drops a device at the sweep IdleLimit + 2 after the *)
(* monitor last heard from it, although it reads the length of its list    *)
(* once and removes entries while it walks it.                             *)
THEOREM DropCorrect == Spec => []DroppedOnTime
<1>1. ASSUME IInv PROVE DroppedOnTime
  <2>1. SUFFICES ASSUME ~race
                 PROVE  /\ vs_monitor = "announce_off" => quiet[SweepEntry.mac] = IdleLimit + 2
                        /\ vs_monitor = "idle" =>
                              \A i \in DOMAIN drvq["vs"] : quiet[drvq["vs"][i].mac] <= IdleLimit + 1
    BY DEF DroppedOnTime, vs_monitor
  <2>2. TypeOK /\ LocalInv /\ RInv /\ IdleInv
    BY <1>1, <2>1 DEF IInv, RInv
  <2>3. ASSUME vs_monitor = "announce_off" PROVE quiet[SweepEntry.mac] = IdleLimit + 2
    <3>1. vs_monitor \in Dropping /\ vs_monitor \in Sweepers
      BY <2>3 DEF Dropping, Sweepers
    <3>2. sweep.pos \in DOMAIN drvq["vs"] /\ sweep.pos \in Nat
      BY <2>2, <3>1, DroppingFact, TypeFacts
    <3>3. sweep.pos >= sweep.pos
      BY <3>2
    <3>4. SweepEntry.idle = IdleLimit + 1 /\ quiet[SweepEntry.mac] = SweepEntry.idle + 1
      BY <2>2, <3>1, <3>2, <3>3 DEF IdleInv, SweepEntry
    <3> QED BY <3>4, LimitsAssumption
  <2>4. ASSUME vs_monitor = "idle", NEW i \in DOMAIN drvq["vs"]
        PROVE  quiet[drvq["vs"][i].mac] <= IdleLimit + 1
    <3>1. vs_monitor \notin Sweepers
      BY <2>4 DEF Dropping, Sweepers
    <3>2. quiet[drvq["vs"][i].mac] = drvq["vs"][i].idle
      BY <2>2, <3>1 DEF IdleInv
    <3>3. drvq["vs"][i].idle \in 0..(IdleLimit + 1)
      BY <2>2, EntryFacts
    <3> QED BY <3>2, <3>3, LimitsAssumption
  <2> QED BY <2>3, <2>4
<1> QED BY <1>1, Invariance, PTL
=============================================================================
