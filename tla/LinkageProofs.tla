---------------------------- MODULE LinkageProofs ----------------------------
(* Theorems about Linkage, for any devices, modes, linkages, number of     *)
(* slots and number of handlers.                                           *)
EXTENDS Linkage, TLAPS

(* The invariant says whose slots handlers and the monitor are in          *)
(* (PlaceInv), that what a pad has asked for is what is being written      *)
(* (AskedInv), how far a handler that is alone in its slot has come        *)
(* (WriteInv), that no slot of the device being checked is torn unless the *)
(* check says so, and that the linkage about to act still matches          *)
(* (CheckInv), and which linkages an undisturbed check has acted on so far *)
(* (ProgressInv).                                                          *)

In(h, d, s) == hand[h].pc > 0 /\ hand[h].dev = d /\ hand[h].slot = s

PlaceInv ==
    /\ \A h \in Handlers : hand[h].pc > 0 => hand[h].dev \in Devs /\ hand[h].slot \in Slots
    /\ chk.pc = "idle" => chk = NoCheck
    /\ chk.pc # "idle" => chk.dev \in Devs /\ chk.slot \in Slots

AskedInv ==
    /\ \A h \in Handlers : hand[h].pc > 0 => hand[h].rule = Blank \/ hand[h].rule \in given[hand[h].dev]
    /\ \A d \in Devs, s \in Slots : kept[d][s] = Blank \/ kept[d][s] \in given[d]

WriteInv ==
    \A h \in Handlers, d \in Devs, s \in Slots :
        In(h, d, s) /\ mixed[d][s] # "overlap" =>
            /\ \A g \in Handlers : In(g, d, s) => g = h
            /\ mixed[d][s] = "no" => ~active[d][s]
            /\ hand[h].pc > 1 => /\ link[d][s].modes = hand[h].rule.modes
                                 /\ link[d][s].evt = hand[h].rule.evt
            /\ hand[h].pc > 2 => link[d][s].act = hand[h].rule.act

CheckInv ==
    chk.pc # "idle" /\ ~chk.torn =>
        /\ \A s \in Slots : mixed[chk.dev][s] = "no"
        /\ chk.pc = "act" => Matches(chk.dev, chk.slot, chk.evt, chk.mode)

(* How many slots the check has been through. *)
Through == IF chk.pc = "done" THEN NSlot ELSE chk.slot - 1

ProgressInv ==
    chk.pc # "idle" /\ ~chk.touched /\ ~chk.torn =>
        /\ \A h \in Handlers, s \in Slots : ~In(h, chk.dev, s)
        /\ ActsOfMatches(chk.pushed, Through, chk.dev, chk.evt, chk.mode)

IInv == TypeOK /\ PlaceInv /\ AskedInv /\ WriteInv /\ LinkageKept /\ CheckInv /\ ActsHaveCause
        /\ ProgressInv

-----------------------------------------------------------------------------
(* The constant records have their types, and a linkage is never blank. *)
LEMMA RuleFacts ==
    /\ Blank \in Rule /\ Free \in HandType /\ NoCheck \in CheckType
    /\ \A d \in Devs : \A r \in Rules[d] : r \in Rule /\ r # Blank
<1>1. Blank \in Rule
  BY DEF Blank, Rule, NoAct
<1>2. Free \in HandType
  BY <1>1, NSlotAssumption DEF Free, HandType
<1>3. NoCheck \in CheckType
  BY NSlotAssumption DEF NoCheck, CheckType
<1>4. ASSUME NEW d \in Devs, NEW r \in Rules[d] PROVE r \in Rule /\ r # Blank
  <2>1. r \in [modes : SUBSET Modes, evt : Events, act : Acts]
    BY RulesAssumption
  <2> QED BY <2>1 DEF Rule, Blank, Events, Vals
<1> QED BY <1>1, <1>2, <1>3, <1>4

(* The initial state satisfies the invariant. *)
LEMMA IInit == Init => IInv
<1> SUFFICES ASSUME Init PROVE IInv
  OBVIOUS
<1> USE NSlotAssumption, BoundsAssumption, NamesAssumption, RuleFacts
<1>1. TypeOK
  <2>1. /\ work_mode \in Modes /\ online \subseteq Devs /\ status \in [Devs -> Vals]
        /\ nset \in 0..MaxSet /\ ncause \in 0..MaxCause /\ noff \in 0..MaxOff
    BY DEF Init, Vals
  <2>2. link \in [Devs -> [Slots -> Rule]] /\ kept \in [Devs -> [Slots -> Rule]]
    BY DEF Init, OfEach
  <2>3. /\ active \in [Devs -> [Slots -> BOOLEAN]]
        /\ mixed \in [Devs -> [Slots -> {"no", "rewrite", "overlap"}]]
    BY DEF Init, OfEach
  <2>4. hand \in [Handlers -> HandType] /\ chk \in CheckType
    BY DEF Init
  <2>5. msgs \in Seq([dev : Devs, evt : Vals]) /\ acts \in Seq(Acts \cup {NoAct})
    BY DEF Init
  <2>6. given \in [Devs -> SUBSET Rule] /\ \A d \in Devs : given[d] \subseteq Rules[d]
    BY DEF Init
  <2> QED BY <2>1, <2>2, <2>3, <2>4, <2>5, <2>6 DEF TypeOK
<1>2. PlaceInv
  BY DEF Init, PlaceInv, Free, NoCheck
<1>3. AskedInv
  BY DEF Init, AskedInv, OfEach, Free
<1>4. WriteInv /\ LinkageKept
  <2>1. \A h \in Handlers, d \in Devs, s \in Slots : ~In(h, d, s)
    BY DEF Init, In, Free
  <2>2. \A d \in Devs, s \in Slots : active[d][s] = FALSE /\ link[d][s] = Blank /\ kept[d][s] = Blank
    BY DEF Init, OfEach
  <2> QED BY <2>1, <2>2 DEF WriteInv, LinkageKept
<1>5. CheckInv /\ ActsHaveCause /\ ProgressInv
  BY DEF Init, CheckInv, ActsHaveCause, ProgressInv, NoCheck
<1> QED BY <1>1, <1>2, <1>3, <1>4, <1>5 DEF IInv

-----------------------------------------------------------------------------
(* The fields of what a handler and the monitor are at. *)
LEMMA HandFields ==
    ASSUME TypeOK, NEW h \in Handlers
    PROVE  /\ hand[h] \in HandType
           /\ hand[h].pc \in 0..3 /\ hand[h].rule \in Rule
  BY DEF TypeOK, HandType

LEMMA CheckFields ==
    ASSUME TypeOK
    PROVE  /\ chk.pc \in {"idle", "match", "act", "done"} /\ chk.slot \in 0..NSlot
           /\ chk.evt \in Events \cup {-1} /\ chk.mode \in Modes \cup {"none"}
           /\ chk.pushed \in Seq(Acts \cup {NoAct})
           /\ chk.touched \in BOOLEAN /\ chk.torn \in BOOLEAN
  BY DEF TypeOK, CheckType

(* What a queue that is not empty holds. *)
LEMMA QueueFact ==
    ASSUME NEW S, NEW q \in Seq(S), q # <<>>
    PROVE  Head(q) \in S /\ Tail(q) \in Seq(S)
  OBVIOUS

(* What the handler stores, step by step: the condition, the act, the flag. *)
StoresCond(h, d, s, r) ==
    /\ hand[h].pc = 1
    /\ link' = [link EXCEPT ![d][s] = [modes |-> r.modes, evt |-> r.evt, act |-> link[d][s].act]]
    /\ active' = active /\ kept' = kept /\ mixed' = mixed
    /\ hand' = [hand EXCEPT ![h].pc = 2]

StoresAct(h, d, s, r) ==
    /\ hand[h].pc = 2
    /\ link' = [link EXCEPT ![d][s] = [modes |-> link[d][s].modes, evt |-> link[d][s].evt, act |-> r.act]]
    /\ active' = active /\ kept' = kept /\ mixed' = mixed
    /\ hand' = [hand EXCEPT ![h].pc = 3]

StoresFlag(h, d, s, r) ==
    /\ hand[h].pc = 3
    /\ link' = link
    /\ active' = [active EXCEPT ![d][s] = (r # Blank)]
    /\ kept' = [kept EXCEPT ![d][s] = r]
    /\ mixed' = IF mixed[d][s] # "overlap" THEN [mixed EXCEPT ![d][s] = "no"] ELSE mixed
    /\ hand' = [hand EXCEPT ![h] = Free]

Stored(h, d, s, r) ==
    /\ d \in Devs /\ s \in Slots /\ r \in Rule /\ r = hand[h].rule
    /\ hand[h].pc > 0 /\ hand[h].dev = d /\ hand[h].slot = s
    /\ StoresCond(h, d, s, r) \/ StoresAct(h, d, s, r) \/ StoresFlag(h, d, s, r)

(* A step of a handler in its slot is one of the three. *)
LEMMA StoresFacts ==
    ASSUME TypeOK, PlaceInv, NEW h \in Handlers, HandlerStores(h)
    PROVE  Stored(h, hand[h].dev, hand[h].slot, hand[h].rule)
<1> DEFINE d == hand[h].dev
           s == hand[h].slot
           r == hand[h].rule
<1>1. d \in Devs /\ s \in Slots /\ r \in Rule /\ hand[h].pc \in 1..3
  BY HandFields DEF HandlerStores, PlaceInv
<1>2. Len(Stores) = 3 /\ Stores[1] = "cond" /\ Stores[2] = "act" /\ Stores[3] = "active"
  BY DEF Stores
<1>3. link[d][s] \in Rule /\ link \in [Devs -> [Slots -> Rule]] /\ hand \in [Handlers -> HandType]
  BY <1>1 DEF TypeOK
<1>7. hand' = IF hand[h].pc = Len(Stores) THEN [hand EXCEPT ![h] = Free] ELSE [hand EXCEPT ![h].pc = @ + 1]
  BY DEF HandlerStores
<1>4. CASE hand[h].pc = 1
  <2>1. link' = [link EXCEPT ![d][s] = [modes |-> r.modes, evt |-> r.evt, act |-> link[d][s].act]]
    BY <1>1, <1>2, <1>3, <1>4 DEF HandlerStores
  <2>2. hand' = [hand EXCEPT ![h].pc = 2]
    BY <1>2, <1>4, <1>7
  <2>3. StoresCond(h, d, s, r)
    BY <1>1, <1>2, <1>4, <2>1, <2>2 DEF HandlerStores, StoresCond
  <2> QED BY <1>1, <2>3 DEF Stored
<1>5. CASE hand[h].pc = 2
  <2>1. link' = [link EXCEPT ![d][s] = [@ EXCEPT !.act = r.act]]
    BY <1>1, <1>2, <1>5 DEF HandlerStores
  <2>2. [link[d][s] EXCEPT !.act = r.act]
           = [modes |-> link[d][s].modes, evt |-> link[d][s].evt, act |-> r.act]
    BY <1>3 DEF Rule
  <2>3. hand' = [hand EXCEPT ![h].pc = 3]
    BY <1>2, <1>5, <1>7
  <2>4. link' = [link EXCEPT ![d][s] = [modes |-> link[d][s].modes, evt |-> link[d][s].evt, act |-> r.act]]
    BY <1>1, <1>3, <2>1, <2>2
  <2>5. StoresAct(h, d, s, r)
    BY <1>1, <1>2, <1>5, <2>3, <2>4 DEF HandlerStores, StoresAct
  <2> QED BY <1>1, <2>5 DEF Stored
<1>6. CASE hand[h].pc = 3
  <2>1. StoresFlag(h, d, s, r)
    BY <1>1, <1>2, <1>3, <1>6 DEF HandlerStores, StoresFlag
  <2> QED BY <1>1, <2>1 DEF Stored
<1> QED BY <1>1, <1>4, <1>5, <1>6

(* Where ToNext goes. *)
LEMMA ToNextFacts ==
    ASSUME NEW c \in CheckType, c.slot \in Slots
    PROVE  /\ ToNext(c) \in CheckType /\ ToNext(c).slot \in Slots
           /\ ToNext(c).pc \in {"match", "done"}
           /\ ToNext(c).pc = "done" => c.slot = NSlot /\ ToNext(c).slot = c.slot
           /\ ToNext(c).pc = "match" => c.slot < NSlot /\ ToNext(c).slot = c.slot + 1
           /\ ToNext(c).dev = c.dev /\ ToNext(c).evt = c.evt /\ ToNext(c).mode = c.mode
           /\ ToNext(c).pushed = c.pushed /\ ToNext(c).touched = c.touched /\ ToNext(c).torn = c.torn
<1>1. CASE c.slot = NSlot
  BY <1>1 DEF ToNext, CheckType
<1>2. CASE c.slot # NSlot
  <2>1. c.slot + 1 \in Slots /\ c.slot + 1 \in 0..NSlot /\ c.slot < NSlot
    BY <1>2, NSlotAssumption DEF Slots
  <2>2. ToNext(c) = [c EXCEPT !.pc = "match", !.slot = c.slot + 1]
    BY <1>2 DEF ToNext
  <2> QED BY <2>1, <2>2 DEF CheckType
<1> QED BY <1>1, <1>2

(* How a check starts. *)
LEMMA BeginsFacts ==
    ASSUME TypeOK, NEW d \in Devs, NEW e \in Events, CheckBegins(d, e)
    PROVE  /\ chk' \in CheckType
           /\ chk'.pc = "match" /\ chk'.dev = d /\ chk'.slot = 1 /\ chk'.pushed = <<>>
           /\ ~chk'.torn => \A s \in Slots : mixed[d][s] = "no"
           /\ ~chk'.touched => \A s \in Slots : InSlot(d, s) = {}
  BY NSlotAssumption DEF CheckBegins, CheckType, TypeOK

(* Only the acts pushed change when one more is pushed. *)
LEMMA PushedFacts ==
    ASSUME NEW c \in CheckType, NEW p \in Seq(Acts \cup {NoAct})
    PROVE  /\ [c EXCEPT !.pushed = p] \in CheckType
           /\ [c EXCEPT !.pushed = p].pushed = p /\ [c EXCEPT !.pushed = p].slot = c.slot
           /\ [c EXCEPT !.pushed = p].dev = c.dev /\ [c EXCEPT !.pushed = p].evt = c.evt
           /\ [c EXCEPT !.pushed = p].mode = c.mode
           /\ [c EXCEPT !.pushed = p].touched = c.touched /\ [c EXCEPT !.pushed = p].torn = c.torn
  BY DEF CheckType

(* The next act of the asynchronous thread is well formed. *)
LEMMA ActFacts ==
    ASSUME NEW a \in Acts \cup {NoAct}
    PROVE  /\ a.dev \in Devs => a.val \in Vals
           /\ a.dev \in Devs \cup {Box}
  BY NamesAssumption DEF Acts, NoAct

(* A device that has a new status. *)
LEMMA BecomesFacts ==
    ASSUME TypeOK, NEW d \in Devs, NEW v \in Vals, Becomes(d, v)
    PROVE  status' \in [Devs -> Vals] /\ msgs' \in Seq([dev : Devs, evt : Vals])
<1>1. status' \in [Devs -> Vals]
  BY DEF Becomes, TypeOK
<1>2. Append(msgs, [dev |-> d, evt |-> v]) \in Seq([dev : Devs, evt : Vals])
  BY DEF TypeOK
<1> QED BY <1>1, <1>2 DEF Becomes, TypeOK

(* Every step keeps the types and the places. *)
LEMMA TypeStep == TypeOK /\ PlaceInv /\ [Next]_vars => TypeOK' /\ PlaceInv'
<1> SUFFICES ASSUME TypeOK, PlaceInv, [Next]_vars PROVE TypeOK' /\ PlaceInv'
  OBVIOUS
<1>1. ASSUME NEW h \in Handlers, NEW d \in Devs, NEW s \in Slots, NEW r \in Rules[d] \cup {Blank},
             HandlerBegins(h, d, s, r)
      PROVE  TypeOK' /\ PlaceInv'
  <2>1. hand' \in [Handlers -> HandType]
    <3>1. [pc |-> 1, dev |-> d, slot |-> s, rule |-> r] \in HandType
      BY RuleFacts, NSlotAssumption DEF HandType, Slots
    <3> QED BY <1>1, <3>1 DEF HandlerBegins, TypeOK
  <2>2. mixed' \in [Devs -> [Slots -> {"no", "rewrite", "overlap"}]]
    BY <1>1 DEF HandlerBegins, TypeOK
  <2>3. chk' \in CheckType /\ chk'.pc = chk.pc /\ chk'.dev = chk.dev /\ chk'.slot = chk.slot
    BY <1>1 DEF HandlerBegins, TypeOK, CheckType
  <2>4. given' \in [Devs -> SUBSET Rule] /\ \A x \in Devs : given'[x] \subseteq Rules[x]
    BY <1>1, RuleFacts DEF HandlerBegins, TypeOK
  <2>5. nset' \in 0..MaxSet
    BY <1>1, BoundsAssumption DEF HandlerBegins, TypeOK
  <2>6. TypeOK'
    BY <1>1, <2>1, <2>2, <2>3, <2>4, <2>5 DEF HandlerBegins, TypeOK, registry
  <2>7. PlaceInv'
    <3>1. chk'.pc = "idle" => chk' = NoCheck
      <4>1. chk.pc = "idle" => chk = NoCheck /\ chk.dev # d
        BY NamesAssumption DEF PlaceInv, NoCheck
      <4>2. chk.dev # d => chk' = chk
        BY <1>1 DEF HandlerBegins
      <4> QED BY <2>3, <4>1, <4>2
    <3>2. \A g \in Handlers : hand'[g].pc > 0 => hand'[g].dev \in Devs /\ hand'[g].slot \in Slots
      <4>1. hand \in [Handlers -> HandType]
        BY DEF TypeOK
      <4>2. hand' = [hand EXCEPT ![h] = [pc |-> 1, dev |-> d, slot |-> s, rule |-> r]]
        BY <1>1 DEF HandlerBegins
      <4> QED BY <4>1, <4>2 DEF PlaceInv
    <3> QED BY <2>3, <3>1, <3>2 DEF PlaceInv
  <2> QED BY <2>6, <2>7
<1>2. ASSUME NEW h \in Handlers, HandlerStores(h) PROVE TypeOK' /\ PlaceInv'
  <2>0. PICK d, s, r : Stored(h, d, s, r)
    BY <1>2, StoresFacts
  <2>1. d \in Devs /\ s \in Slots /\ r \in Rule
    BY <2>0 DEF Stored
  <2>2. hand' \in [Handlers -> HandType]
    <3>1. hand[h] \in HandType /\ hand \in [Handlers -> HandType]
      BY HandFields DEF TypeOK
    <3>2. [hand[h] EXCEPT !.pc = 2] \in HandType /\ [hand[h] EXCEPT !.pc = 3] \in HandType
      BY <3>1 DEF HandType
    <3>3. \E x \in HandType : hand' = [hand EXCEPT ![h] = x]
      BY <2>0, <3>2, RuleFacts DEF Stored, StoresCond, StoresAct, StoresFlag
    <3> QED BY <3>1, <3>3
  <2>3. link' \in [Devs -> [Slots -> Rule]]
    <3>1. link \in [Devs -> [Slots -> Rule]]
      BY DEF TypeOK
    <3>2. /\ [modes |-> r.modes, evt |-> r.evt, act |-> link[d][s].act] \in Rule
          /\ [modes |-> link[d][s].modes, evt |-> link[d][s].evt, act |-> r.act] \in Rule
      BY <2>1, <3>1 DEF Rule
    <3>3. link' = link \/ \E x \in Rule : link' = [link EXCEPT ![d][s] = x]
      BY <2>0, <3>2 DEF Stored, StoresCond, StoresAct, StoresFlag
    <3>4. ASSUME NEW x \in Rule, link' = [link EXCEPT ![d][s] = x] PROVE link' \in [Devs -> [Slots -> Rule]]
      BY <2>1, <3>1, <3>4
    <3> QED BY <3>1, <3>3, <3>4
  <2>4. kept' \in [Devs -> [Slots -> Rule]]
    <3>1. kept \in [Devs -> [Slots -> Rule]]
      BY DEF TypeOK
    <3>2. CASE kept' = [kept EXCEPT ![d][s] = r]
      BY <2>1, <3>1, <3>2
    <3> QED BY <2>0, <3>1, <3>2 DEF Stored, StoresCond, StoresAct, StoresFlag
  <2>5. active' \in [Devs -> [Slots -> BOOLEAN]]
    <3>1. active \in [Devs -> [Slots -> BOOLEAN]]
      BY DEF TypeOK
    <3>2. CASE active' = [active EXCEPT ![d][s] = (r # Blank)]
      BY <2>1, <3>1, <3>2
    <3> QED BY <2>0, <3>1, <3>2 DEF Stored, StoresCond, StoresAct, StoresFlag
  <2>6. mixed' \in [Devs -> [Slots -> {"no", "rewrite", "overlap"}]]
    <3>1. mixed \in [Devs -> [Slots -> {"no", "rewrite", "overlap"}]]
      BY DEF TypeOK
    <3>2. CASE mixed' = [mixed EXCEPT ![d][s] = "no"]
      BY <2>1, <3>1, <3>2
    <3> QED BY <2>0, <3>1, <3>2 DEF Stored, StoresCond, StoresAct, StoresFlag
  <2>7. TypeOK'
    BY <1>2, <2>2, <2>3, <2>4, <2>5, <2>6 DEF HandlerStores, TypeOK
  <2>8. \A g \in Handlers : hand'[g].pc > 0 => hand'[g].dev \in Devs /\ hand'[g].slot \in Slots
    <3>1. hand \in [Handlers -> HandType]
      BY DEF TypeOK
    <3>2. \A g \in Handlers : g # h => hand'[g] = hand[g]
      BY <2>0, <3>1 DEF Stored, StoresCond, StoresAct, StoresFlag
    <3>3. hand'[h].pc = 0 \/ (hand'[h].dev = d /\ hand'[h].slot = s)
      BY <2>0, <3>1 DEF Stored, StoresCond, StoresAct, StoresFlag, HandType, Free
    <3>4. hand'[h].pc > 0 => hand'[h].dev \in Devs /\ hand'[h].slot \in Slots
      BY <2>1, <3>3
    <3> QED BY <3>2, <3>4 DEF PlaceInv
  <2>9. PlaceInv'
    BY <1>2, <2>8 DEF HandlerStores, PlaceInv
  <2> QED BY <2>7, <2>9
<1>3. ASSUME NEW a \in Acts, PadSets(a) PROVE TypeOK' /\ PlaceInv'
  <2>1. acts' \in Seq(Acts \cup {NoAct}) /\ ncause' \in 0..MaxCause
    BY <1>3, BoundsAssumption DEF PadSets, TypeOK
  <2> QED BY <1>3, <2>1 DEF PadSets, TypeOK, PlaceInv, registry
<1>4. ASSUME NEW d \in Devs, NEW v \in Vals, DeviceChanges(d, v) PROVE TypeOK' /\ PlaceInv'
  <2>1. status' \in [Devs -> Vals] /\ msgs' \in Seq([dev : Devs, evt : Vals])
    BY <1>4, BecomesFacts DEF DeviceChanges
  <2>2. ncause' \in 0..MaxCause
    BY <1>4, BoundsAssumption DEF DeviceChanges, TypeOK
  <2> QED BY <1>4, <2>1, <2>2 DEF DeviceChanges, TypeOK, PlaceInv, registry
<1>5. ASSUME NEW d \in Devs, NEW e \in Events, CheckBegins(d, e)
      PROVE  chk' \in CheckType /\ chk'.pc # "idle" /\ chk'.dev \in Devs /\ chk'.slot \in Slots
  BY <1>5, BeginsFacts, NSlotAssumption DEF Slots
<1>6. CASE MonitorHears
  <2>1. Head(msgs).dev \in Devs /\ Head(msgs).evt \in Events /\ msgs' \in Seq([dev : Devs, evt : Vals])
    <3>1. msgs # <<>> /\ msgs' = Tail(msgs) /\ msgs \in Seq([dev : Devs, evt : Vals])
      BY <1>6 DEF MonitorHears, TypeOK
    <3>2. Head(msgs) \in [dev : Devs, evt : Vals]
      BY <3>1, QueueFact, Zenon
    <3> QED BY <3>1, <3>2 DEF Events
  <2>2. chk' \in CheckType /\ PlaceInv'
    BY <1>5, <1>6, <2>1 DEF MonitorHears, TypeOK, PlaceInv
  <2> QED BY <1>6, <2>1, <2>2 DEF MonitorHears, TypeOK, registry, history
<1>7. ASSUME NEW d \in Devs, DevOnline(d) PROVE TypeOK' /\ PlaceInv'
  <2>1. chk' \in CheckType /\ PlaceInv'
    BY <1>5, <1>7 DEF DevOnline, TypeOK, PlaceInv, ONLINE, Events
  <2> QED BY <1>7, <2>1 DEF DevOnline, SlotsOnline, TypeOK, history
<1>8. ASSUME NEW d \in Devs, DevOffline(d) PROVE TypeOK' /\ PlaceInv'
  <2>1. online' \subseteq Devs /\ noff' \in 0..MaxOff
    BY <1>8, BoundsAssumption DEF DevOffline, TypeOK
  <2> QED BY <1>8, <2>1 DEF DevOffline, TypeOK, PlaceInv
<1>9. ASSUME NEW m \in Modes, MonitorKey(m) PROVE TypeOK' /\ PlaceInv'
  <2>1. ncause' \in 0..MaxCause
    BY <1>9, BoundsAssumption DEF MonitorKey, TypeOK
  <2> QED BY <1>9, <2>1 DEF MonitorKey, TypeOK, PlaceInv, registry
<1>10. CASE CheckSlot
  <2>1. chk \in CheckType /\ chk.dev \in Devs /\ chk.slot \in Slots
    BY <1>10 DEF CheckSlot, TypeOK, PlaceInv
  <2>2. CASE chk' = [chk EXCEPT !.pc = "act"]
    <3>1. chk' \in CheckType /\ chk'.pc = "act" /\ chk'.dev = chk.dev /\ chk'.slot = chk.slot
      BY <2>1, <2>2 DEF CheckType
    <3> QED BY <1>10, <2>1, <3>1 DEF CheckSlot, TypeOK, PlaceInv, registry, history
  <2>3. CASE chk' = ToNext(chk)
    <3>1. /\ chk' \in CheckType /\ chk'.pc # "idle" /\ chk'.dev = chk.dev /\ chk'.slot \in Slots
      BY <2>1, <2>3, ToNextFacts
    <3> QED BY <1>10, <2>1, <3>1 DEF CheckSlot, TypeOK, PlaceInv, registry, history
  <2> QED BY <1>10, <2>2, <2>3 DEF CheckSlot
<1>11. CASE CheckActs
  <2> DEFINE a == ActOf(chk.dev, chk.slot)
             c == [chk EXCEPT !.pushed = Append(@, a)]
  <2>1. chk \in CheckType /\ chk.dev \in Devs /\ chk.slot \in Slots
    BY <1>11 DEF CheckActs, TypeOK, PlaceInv
  <2>2. a \in Acts \cup {NoAct}
    BY <2>1 DEF ActOf, TypeOK, Rule
  <2>3. c \in CheckType /\ c.slot \in Slots /\ c.dev = chk.dev
    <3>1. Append(chk.pushed, a) \in Seq(Acts \cup {NoAct})
      BY <2>1, <2>2 DEF CheckType
    <3> QED BY <2>1, <3>1, PushedFacts
  <2>4. chk' = ToNext(c)
    BY <1>11 DEF CheckActs, AfterPush
  <2>5. /\ chk' \in CheckType /\ chk'.pc # "idle" /\ chk'.dev = chk.dev /\ chk'.slot \in Slots
    BY <2>3, <2>4, ToNextFacts
  <2>6. acts' \in Seq(Acts \cup {NoAct})
    BY <1>11, <2>2 DEF CheckActs, TypeOK
  <2> QED BY <1>11, <2>1, <2>5, <2>6 DEF CheckActs, TypeOK, PlaceInv, registry, history
<1>12. CASE CheckEnds
  BY <1>12, RuleFacts DEF CheckEnds, TypeOK, PlaceInv, NoCheck, registry, history
<1>13. ASSUME acts # <<>> PROVE Head(acts) \in Acts \cup {NoAct} /\ Tail(acts) \in Seq(Acts \cup {NoAct})
  BY <1>13 DEF TypeOK
<1>14. CASE AsyncObeyed
  <2>1. work_mode' \in Modes /\ status' \in [Devs -> Vals] /\ msgs' \in Seq([dev : Devs, evt : Vals])
    BY <1>13, <1>14, ActFacts, BecomesFacts DEF AsyncObeyed, TypeOK
  <2> QED BY <1>13, <1>14, <2>1 DEF AsyncObeyed, TypeOK, PlaceInv, registry, history
<1>15. CASE AsyncFails
  BY <1>13, <1>15 DEF AsyncFails, TypeOK, PlaceInv, registry, history
<1>16. CASE UNCHANGED vars
  BY <1>16 DEF vars, TypeOK, PlaceInv, registry, history
<1> QED BY <1>1, <1>2, <1>3, <1>4, <1>6, <1>7, <1>8, <1>9, <1>10, <1>11, <1>12, <1>14, <1>15, <1>16
        DEF Next, Handler, Monitor, Check, Async

-----------------------------------------------------------------------------
Rest == AskedInv /\ WriteInv /\ LinkageKept /\ CheckInv /\ ActsHaveCause /\ ProgressInv

(* The slots of a device that nobody is in. *)
LEMMA InSlotFact ==
    ASSUME NEW d, NEW s
    PROVE  InSlot(d, s) = {} <=> \A h \in Handlers : ~In(h, d, s)
  BY DEF InSlot, In

(* The same in the next state. *)
LEMMA InSlotNext ==
    ASSUME NEW d, NEW s
    PROVE  InSlot(d, s)' = {} <=> \A h \in Handlers : ~In(h, d, s)'
  BY DEF InSlot, In

(* Acts pushed so far stay right while the device's slots stay as they are. *)
LEMMA ProgressSame ==
    ASSUME ActsOfMatches(chk.pushed, Through, chk.dev, chk.evt, chk.mode),
           chk'.pushed = chk.pushed, chk'.dev = chk.dev, chk'.evt = chk.evt, chk'.mode = chk.mode,
           Through' = Through,
           link'[chk.dev] = link[chk.dev], active'[chk.dev] = active[chk.dev]
    PROVE  ActsOfMatches(chk.pushed, Through, chk.dev, chk.evt, chk.mode)'
  BY DEF ActsOfMatches, Matches

(* What does not depend on the check. *)
LEMMA SlotsSame ==
    ASSUME AskedInv, WriteInv, LinkageKept, UNCHANGED <<hand, link, active, kept, given, mixed>>
    PROVE  AskedInv' /\ WriteInv' /\ LinkageKept'
  BY DEF AskedInv, WriteInv, LinkageKept, In, InSlot

(* Steps that touch neither slots, handlers nor the check. *)
LEMMA FrameStep ==
    ASSUME IInv, UNCHANGED <<hand, link, active, chk, kept, given, mixed>>
    PROVE  Rest'
<1>1. AskedInv' /\ WriteInv' /\ LinkageKept'
  BY SlotsSame DEF IInv
<1>2. CheckInv' /\ ActsHaveCause'
  BY DEF IInv, CheckInv, ActsHaveCause, Matches
<1>3. Through' = Through
  BY DEF Through
<1>4. ProgressInv'
  BY <1>3, ProgressSame DEF IInv, ProgressInv, In
<1> QED BY <1>1, <1>2, <1>4 DEF Rest

(* A handler begins to write a slot. *)
LEMMA BeginsStep ==
    ASSUME IInv, NEW h \in Handlers, NEW d \in Devs, NEW s \in Slots, NEW r \in Rules[d] \cup {Blank},
           HandlerBegins(h, d, s, r)
    PROVE  Rest'
<1>1. /\ link' = link /\ active' = active /\ kept' = kept
      /\ hand[h].pc = 0
    BY DEF HandlerBegins, registry
<1>2. hand' = [hand EXCEPT ![h] = [pc |-> 1, dev |-> d, slot |-> s, rule |-> r]]
  BY DEF HandlerBegins
<1>3. hand \in [Handlers -> HandType]
  BY DEF IInv, TypeOK
<1>4. /\ hand'[h] = [pc |-> 1, dev |-> d, slot |-> s, rule |-> r]
      /\ \A g \in Handlers : g # h => hand'[g] = hand[g]
  BY <1>2, <1>3
<1>5. /\ \A x, y : ~In(h, x, y)
      /\ \A x, y : In(h, x, y)' <=> x = d /\ y = s
      /\ \A g \in Handlers : \A x, y : g # h => (In(g, x, y)' <=> In(g, x, y))
  BY <1>1, <1>4 DEF In
<1>6. PICK how : /\ how = IF InSlot(d, s) # {} THEN "overlap" ELSE IF active[d][s] THEN "rewrite" ELSE "no"
                 /\ mixed' = [mixed EXCEPT ![d][s] = how]
                 /\ chk' = IF chk.dev = d THEN [chk EXCEPT !.touched = TRUE, !.torn = @ \/ how # "no"] ELSE chk
  BY DEF HandlerBegins
<1>7. /\ mixed'[d][s] = how
      /\ \A x \in Devs, y \in Slots : (x # d \/ y # s) => mixed'[x][y] = mixed[x][y]
  BY <1>6 DEF IInv, TypeOK
<1>8. how # "overlap" => \A g \in Handlers : ~In(g, d, s)
  BY <1>6, InSlotFact
<1>9. given \in [Devs -> SUBSET Rule] /\ given' = IF r = Blank THEN given ELSE [given EXCEPT ![d] = @ \cup {r}]
  BY DEF HandlerBegins, IInv, TypeOK
<1>10. /\ \A x \in Devs : given[x] \subseteq given'[x]
       /\ r = Blank \/ r \in given'[d]
  BY <1>9
<1>11. AskedInv'
  BY <1>1, <1>4, <1>10 DEF IInv, AskedInv, PlaceInv
<1>12. WriteInv'
  <2> SUFFICES ASSUME NEW g \in Handlers, NEW x \in Devs, NEW y \in Slots,
                      In(g, x, y)', mixed'[x][y] # "overlap"
               PROVE  /\ \A k \in Handlers : In(k, x, y)' => k = g
                      /\ mixed'[x][y] = "no" => ~active'[x][y]
                      /\ hand'[g].pc > 1 => /\ link'[x][y].modes = hand'[g].rule.modes
                                            /\ link'[x][y].evt = hand'[g].rule.evt
                      /\ hand'[g].pc > 2 => link'[x][y].act = hand'[g].rule.act
    BY DEF WriteInv
  <2>1. CASE x = d /\ y = s
    <3>1. g = h /\ \A k \in Handlers : In(k, x, y)' => k = h
      BY <1>5, <1>7, <1>8, <2>1
    <3>2. mixed'[x][y] = "no" => ~active[x][y]
      BY <1>6, <1>7, <2>1
    <3> QED BY <1>1, <1>4, <2>1, <3>1, <3>2
  <2>2. CASE ~(x = d /\ y = s)
    <3>1. g # h /\ In(g, x, y) /\ mixed'[x][y] = mixed[x][y] /\ hand'[g] = hand[g]
      BY <1>4, <1>5, <1>7, <2>2
    <3> QED BY <1>1, <1>5, <2>2, <3>1 DEF IInv, WriteInv
  <2> QED BY <2>1, <2>2
<1>13. LinkageKept'
  <2> SUFFICES ASSUME NEW x \in Devs, NEW y \in Slots, InSlot(x, y)' = {}, mixed'[x][y] = "no"
               PROVE  active'[x][y] = (kept'[x][y] # Blank) /\ link'[x][y] = kept'[x][y]
    BY DEF LinkageKept
  <2>1. ~(x = d /\ y = s) /\ InSlot(x, y) = {}
    BY <1>5, InSlotFact, InSlotNext
  <2> QED BY <1>1, <1>7, <2>1 DEF IInv, LinkageKept
<1>14. /\ chk'.pc = chk.pc /\ chk'.dev = chk.dev /\ chk'.slot = chk.slot /\ chk'.evt = chk.evt
       /\ chk'.mode = chk.mode /\ chk'.pushed = chk.pushed
       /\ ~chk'.torn => ~chk.torn /\ (chk.dev = d => how = "no")
       /\ ~chk'.touched => ~chk.touched /\ chk.dev # d
  BY <1>6 DEF IInv, TypeOK, CheckType
<1>15. CheckInv'
  BY <1>1, <1>7, <1>14 DEF IInv, CheckInv, Matches, PlaceInv
<1>16. ActsHaveCause'
  <2>1. chk.pc = "idle" => chk.pushed = <<>>
    BY DEF IInv, PlaceInv, NoCheck
  <2>2. chk.pc # "idle" => chk.dev \in Devs
    BY DEF IInv, PlaceInv
  <2> QED BY <1>10, <1>14, <2>1, <2>2 DEF IInv, ActsHaveCause
<1>17. ProgressInv'
  <2> SUFFICES ASSUME chk'.pc # "idle", ~chk'.touched, ~chk'.torn
               PROVE  /\ \A g \in Handlers, y \in Slots : ~In(g, chk.dev, y)'
                      /\ ActsOfMatches(chk.pushed, Through, chk.dev, chk.evt, chk.mode)'
    BY DEF ProgressInv
  <2>1. /\ \A g \in Handlers, y \in Slots : ~In(g, chk.dev, y)
        /\ ActsOfMatches(chk.pushed, Through, chk.dev, chk.evt, chk.mode)
    BY <1>14 DEF IInv, ProgressInv
  <2>2. Through' = Through
    BY <1>14 DEF Through
  <2>3. \A g \in Handlers, y \in Slots : ~In(g, chk.dev, y)'
    BY <1>4, <1>14, <2>1 DEF In
  <2>4. ActsOfMatches(chk.pushed, Through, chk.dev, chk.evt, chk.mode)'
    BY <1>1, <1>14, <2>1, <2>2, ProgressSame
  <2> QED BY <2>3, <2>4
<1> QED BY <1>11, <1>12, <1>13, <1>15, <1>16, <1>17 DEF Rest

(* A handler writes on in its slot. *)
LEMMA StoresStep ==
    ASSUME IInv, NEW h \in Handlers, HandlerStores(h)
    PROVE  Rest'
<1>1. PICK d, s, r : Stored(h, d, s, r)
  BY StoresFacts DEF IInv
<1>2. /\ d \in Devs /\ s \in Slots /\ r \in Rule /\ r = hand[h].rule
      /\ In(h, d, s) /\ chk' = chk /\ given' = given
  BY <1>1 DEF Stored, HandlerStores, In
<1>3. hand \in [Handlers -> HandType]
  BY DEF IInv, TypeOK
<1>4. /\ \A g \in Handlers : g # h => hand'[g] = hand[g]
      /\ hand'[h] = Free \/ (hand'[h].dev = d /\ hand'[h].slot = s /\ hand'[h].rule = r /\ hand'[h].pc > 0)
  BY <1>1, <1>3 DEF Stored, StoresCond, StoresAct, StoresFlag, HandType
<1>5. /\ \A x, y : In(h, x, y)' => x = d /\ y = s
      /\ \A g \in Handlers : \A x, y : In(g, x, y)' => In(g, x, y)
      /\ \A g \in Handlers : \A x, y : g # h => (In(g, x, y)' <=> In(g, x, y))
  BY <1>2, <1>4 DEF In, Free
<1>6. \A x \in Devs, y \in Slots : (x # d \/ y # s) =>
         /\ link'[x][y] = link[x][y] /\ active'[x][y] = active[x][y]
         /\ kept'[x][y] = kept[x][y] /\ mixed'[x][y] = mixed[x][y]
  <2>1. /\ link \in [Devs -> [Slots -> Rule]] /\ kept \in [Devs -> [Slots -> Rule]]
        /\ active \in [Devs -> [Slots -> BOOLEAN]]
        /\ mixed \in [Devs -> [Slots -> {"no", "rewrite", "overlap"}]]
    BY DEF IInv, TypeOK
  <2>2. CASE StoresCond(h, d, s, r)
    BY <1>2, <2>1, <2>2 DEF StoresCond
  <2>3. CASE StoresAct(h, d, s, r)
    BY <1>2, <2>1, <2>3 DEF StoresAct
  <2>4. CASE StoresFlag(h, d, s, r)
    BY <1>2, <2>1, <2>4 DEF StoresFlag
  <2> QED BY <1>1, <2>2, <2>3, <2>4 DEF Stored
<1>7. \A x \in Devs : x # d => link'[x] = link[x] /\ active'[x] = active[x]
  <2>1. link \in [Devs -> [Slots -> Rule]] /\ active \in [Devs -> [Slots -> BOOLEAN]]
    BY DEF IInv, TypeOK
  <2>2. CASE StoresCond(h, d, s, r)
    BY <1>2, <2>1, <2>2 DEF StoresCond
  <2>3. CASE StoresAct(h, d, s, r)
    BY <1>2, <2>1, <2>3 DEF StoresAct
  <2>4. CASE StoresFlag(h, d, s, r)
    BY <1>2, <2>1, <2>4 DEF StoresFlag
  <2> QED BY <1>1, <2>2, <2>3, <2>4 DEF Stored
<1>8. \A x \in Devs, y \in Slots : mixed'[x][y] = mixed[x][y] \/ mixed'[x][y] = "no"
  <2>1. mixed \in [Devs -> [Slots -> {"no", "rewrite", "overlap"}]]
    BY DEF IInv, TypeOK
  <2>2. mixed' = mixed \/ mixed' = [mixed EXCEPT ![d][s] = "no"]
    BY <1>1 DEF Stored, StoresCond, StoresAct, StoresFlag
  <2>3. CASE mixed' = [mixed EXCEPT ![d][s] = "no"]
    BY <1>2, <2>1, <2>3
  <2> QED BY <2>2, <2>3
<1>9. mixed[d][s] # "overlap" =>
         /\ \A g \in Handlers : In(g, d, s) => g = h
         /\ mixed[d][s] = "no" => ~active[d][s]
         /\ hand[h].pc > 1 => link[d][s].modes = r.modes /\ link[d][s].evt = r.evt
         /\ hand[h].pc > 2 => link[d][s].act = r.act
  BY <1>2 DEF IInv, WriteInv
<1>10. AskedInv'
  <2>1. r = Blank \/ r \in given[d]
    BY <1>2 DEF IInv, AskedInv, In
  <2>2. \A x \in Devs, y \in Slots : kept'[x][y] = kept[x][y] \/ (x = d /\ y = s /\ kept'[x][y] = r)
    BY <1>1, <1>2, <1>6 DEF Stored, StoresCond, StoresAct, StoresFlag, IInv, TypeOK
  <2>3. \A g \in Handlers : hand'[g].pc > 0 => hand'[g].rule = Blank \/ hand'[g].rule \in given[hand'[g].dev]
    BY <1>4, <2>1 DEF IInv, AskedInv, Free
  <2>4. \A x \in Devs, y \in Slots : kept[x][y] = Blank \/ kept[x][y] \in given[x]
    BY DEF IInv, AskedInv
  <2>5. \A x \in Devs, y \in Slots : kept'[x][y] = Blank \/ kept'[x][y] \in given[x]
    BY <2>1, <2>2, <2>4
  <2> QED BY <1>2, <2>3, <2>5 DEF AskedInv
<1>11. WriteInv'
  <2> SUFFICES ASSUME NEW g \in Handlers, NEW x \in Devs, NEW y \in Slots,
                      In(g, x, y)', mixed'[x][y] # "overlap"
               PROVE  /\ \A k \in Handlers : In(k, x, y)' => k = g
                      /\ mixed'[x][y] = "no" => ~active'[x][y]
                      /\ hand'[g].pc > 1 => /\ link'[x][y].modes = hand'[g].rule.modes
                                            /\ link'[x][y].evt = hand'[g].rule.evt
                      /\ hand'[g].pc > 2 => link'[x][y].act = hand'[g].rule.act
    BY DEF WriteInv
  <2>1. CASE ~(x = d /\ y = s)
    <3>1. g # h /\ In(g, x, y) /\ hand'[g] = hand[g] /\ mixed[x][y] # "overlap"
      BY <1>4, <1>5, <1>6, <2>1
    <3> QED BY <1>5, <1>6, <2>1, <3>1 DEF IInv, WriteInv
  <2>2. ASSUME x = d, y = s, mixed' = mixed, active' = active PROVE mixed[d][s] # "overlap" /\ g = h
    BY <1>5, <1>9, <2>2
  <2>3. ASSUME x = d, y = s, StoresCond(h, d, s, r)
        PROVE  /\ g = h /\ hand'[h].pc = 2 /\ active' = active /\ mixed' = mixed
               /\ link'[d][s].modes = r.modes /\ link'[d][s].evt = r.evt
    BY <1>2, <1>3, <2>2, <2>3 DEF StoresCond, IInv, TypeOK, HandType
  <2>4. ASSUME x = d, y = s, StoresAct(h, d, s, r)
        PROVE  /\ g = h /\ hand'[h].pc = 3 /\ active' = active /\ mixed' = mixed
               /\ link'[d][s].modes = r.modes /\ link'[d][s].evt = r.evt /\ link'[d][s].act = r.act
    BY <1>2, <1>3, <1>9, <2>2, <2>4 DEF StoresAct, IInv, TypeOK, HandType
  <2>5. ASSUME x = d, y = s, StoresFlag(h, d, s, r) PROVE FALSE
    <3>1. hand'[h] = Free
      BY <1>3, <2>5 DEF StoresFlag
    <3>2. g # h
      BY <3>1 DEF Free, In
    <3>3. mixed[d][s] # "overlap"
      BY <2>5 DEF StoresFlag
    <3> QED BY <1>5, <1>9, <2>5, <3>2, <3>3
  <2>6. ASSUME x = d, y = s, StoresCond(h, d, s, r) \/ StoresAct(h, d, s, r)
        PROVE  /\ \A k \in Handlers : In(k, x, y)' => k = g
               /\ mixed'[x][y] = "no" => ~active'[x][y]
               /\ hand'[g].rule = r
    BY <1>2, <1>4, <1>5, <1>9, <2>2, <2>3, <2>4, <2>6 DEF Free
  <2> QED BY <1>1, <2>1, <2>3, <2>4, <2>5, <2>6 DEF Stored
<1>12. LinkageKept'
  <2> SUFFICES ASSUME NEW x \in Devs, NEW y \in Slots, InSlot(x, y)' = {}, mixed'[x][y] = "no"
               PROVE  active'[x][y] = (kept'[x][y] # Blank) /\ link'[x][y] = kept'[x][y]
    BY DEF LinkageKept
  <2>1. \A g \in Handlers : ~In(g, x, y)'
    BY InSlotNext
  <2>2. CASE ~(x = d /\ y = s)
    <3>1. \A g \in Handlers : ~In(g, x, y)
      <4>1. ~In(h, x, y)
        BY <1>2, <2>2 DEF In
      <4> QED BY <1>5, <2>1, <4>1
    <3>2. InSlot(x, y) = {} /\ mixed[x][y] = "no"
      BY <1>6, <2>2, <3>1, InSlotFact
    <3> QED BY <1>6, <2>2, <3>2 DEF IInv, LinkageKept
  <2>3. CASE x = d /\ y = s
    <3>1. StoresFlag(h, d, s, r)
      <4>1. hand'[h].pc = 0
        BY <1>4, <2>1, <2>3 DEF In, Free
      <4> QED BY <1>1, <1>3, <4>1 DEF Stored, StoresCond, StoresAct, HandType
    <3>2. mixed[d][s] # "overlap"
      BY <2>3, <3>1 DEF StoresFlag
    <3>3. link[d][s] = r
      <4>1. link[d][s] \in Rule
        BY <1>2 DEF IInv, TypeOK
      <4>2. link[d][s].modes = r.modes /\ link[d][s].evt = r.evt /\ link[d][s].act = r.act
        BY <1>9, <3>1, <3>2 DEF StoresFlag
      <4> QED BY <1>2, <4>1, <4>2 DEF Rule
    <3>4. kept'[d][s] = r /\ active'[d][s] = (r # Blank) /\ link' = link
      BY <1>2, <3>1 DEF StoresFlag, IInv, TypeOK
    <3> QED BY <2>3, <3>3, <3>4
  <2> QED BY <2>2, <2>3
<1>13. CheckInv'
  <2> SUFFICES ASSUME chk.pc # "idle", ~chk.torn
               PROVE  /\ \A y \in Slots : mixed'[chk.dev][y] = "no"
                      /\ chk.pc = "act" => Matches(chk.dev, chk.slot, chk.evt, chk.mode)'
    BY <1>2 DEF CheckInv
  <2>1. chk.dev \in Devs /\ chk.slot \in Slots
    BY DEF IInv, PlaceInv
  <2>2. /\ \A y \in Slots : mixed[chk.dev][y] = "no"
        /\ chk.pc = "act" => Matches(chk.dev, chk.slot, chk.evt, chk.mode)
    BY DEF IInv, CheckInv
  <2>3. chk.pc = "act" => chk.dev # d \/ chk.slot # s
    BY <1>9, <2>1, <2>2 DEF Matches
  <2>4. chk.pc = "act" => Matches(chk.dev, chk.slot, chk.evt, chk.mode)'
    BY <1>2, <1>6, <2>1, <2>2, <2>3 DEF Matches
  <2> QED BY <1>8, <2>1, <2>2, <2>4
<1>14. ActsHaveCause'
  BY <1>2 DEF IInv, ActsHaveCause
<1>15. ProgressInv'
  <2> SUFFICES ASSUME chk.pc # "idle", ~chk.touched, ~chk.torn
               PROVE  /\ \A g \in Handlers, y \in Slots : ~In(g, chk.dev, y)'
                      /\ ActsOfMatches(chk.pushed, Through, chk.dev, chk.evt, chk.mode)'
    BY <1>2 DEF ProgressInv
  <2>1. /\ \A g \in Handlers, y \in Slots : ~In(g, chk.dev, y)
        /\ ActsOfMatches(chk.pushed, Through, chk.dev, chk.evt, chk.mode)
    BY DEF IInv, ProgressInv
  <2>2. chk.dev # d /\ chk.dev \in Devs
    BY <1>2, <2>1 DEF IInv, PlaceInv
  <2>3. \A g \in Handlers, y \in Slots : ~In(g, chk.dev, y)'
    BY <1>2, <1>4, <2>1, <2>2 DEF In, Free
  <2>4. Through' = Through
    BY <1>2 DEF Through
  <2>5. ActsOfMatches(chk.pushed, Through, chk.dev, chk.evt, chk.mode)'
    BY <1>2, <1>7, <2>1, <2>2, <2>4, ProgressSame
  <2> QED BY <2>3, <2>5
<1> QED BY <1>10, <1>11, <1>12, <1>13, <1>14, <1>15 DEF Rest

-----------------------------------------------------------------------------
(* The acts of the first slots, one slot at a time: no slots, a slot that  *)
(* does not match, a slot that does.                                       *)
LEMMA MatchesNone ==
    ASSUME NEW d, NEW e, NEW m
    PROVE  ActsOfMatches(<<>>, 0, d, e, m)
<1>1. [i \in DOMAIN << >> |-> 1] \in [DOMAIN << >> -> Slots]
  OBVIOUS
<1>2. \A s \in Slots : ~(s <= 0)
  BY NSlotAssumption DEF Slots
<1>3. \A i \in DOMAIN << >> : FALSE
  OBVIOUS
<1> QED BY <1>1, <1>2, <1>3 DEF ActsOfMatches

LEMMA MatchesSkip ==
    ASSUME NEW p, NEW n \in Slots, NEW d, NEW e, NEW m,
           ActsOfMatches(p, n - 1, d, e, m), ~Matches(d, n, e, m)
    PROVE  ActsOfMatches(p, n, d, e, m)
<1>1. PICK at \in [DOMAIN p -> Slots] :
        /\ \A i, j \in DOMAIN p : i < j => at[i] < at[j]
        /\ \A i \in DOMAIN p : at[i] <= n - 1 /\ Matches(d, at[i], e, m) /\ p[i] = link[d][at[i]].act
        /\ \A s \in Slots : s <= n - 1 /\ Matches(d, s, e, m) => \E i \in DOMAIN p : at[i] = s
  BY DEF ActsOfMatches
<1>2. \A s \in Slots : (s <= n - 1 => s <= n) /\ (s <= n => s <= n - 1 \/ s = n)
  BY NSlotAssumption DEF Slots
<1>3. \A i \in DOMAIN p : at[i] <= n
  BY <1>1, <1>2
<1>4. \A s \in Slots : s <= n /\ Matches(d, s, e, m) => \E i \in DOMAIN p : at[i] = s
  BY <1>1, <1>2
<1> QED BY <1>1, <1>3, <1>4 DEF ActsOfMatches

LEMMA MatchesPush ==
    ASSUME NEW A, NEW p \in Seq(A), NEW n \in Slots, NEW d, NEW e, NEW m, link[d][n].act \in A,
           ActsOfMatches(p, n - 1, d, e, m), Matches(d, n, e, m)
    PROVE  ActsOfMatches(Append(p, link[d][n].act), n, d, e, m)
<1> DEFINE a == link[d][n].act
<1>1. PICK at \in [DOMAIN p -> Slots] :
        /\ \A i, j \in DOMAIN p : i < j => at[i] < at[j]
        /\ \A i \in DOMAIN p : at[i] <= n - 1 /\ Matches(d, at[i], e, m) /\ p[i] = link[d][at[i]].act
        /\ \A s \in Slots : s <= n - 1 /\ Matches(d, s, e, m) => \E i \in DOMAIN p : at[i] = s
  BY DEF ActsOfMatches
<1>2. PICK q : q = Append(p, a)
  OBVIOUS
<1>3. PICK k : k = Len(p) + 1
  OBVIOUS
<1>4. /\ k \in Nat /\ DOMAIN q = 1..k /\ DOMAIN p = 1..(k - 1) /\ q[k] = a
      /\ \A i \in DOMAIN p : i \in DOMAIN q /\ i < k /\ q[i] = p[i]
      /\ \A i \in DOMAIN q : i \in DOMAIN p \/ i = k
      /\ k \in DOMAIN q /\ k \notin DOMAIN p
  BY <1>2, <1>3
<1>5. PICK new : new = [i \in DOMAIN q |-> IF i = k THEN n ELSE at[i]]
  OBVIOUS
<1>6. /\ new[k] = n /\ \A i \in DOMAIN p : new[i] = at[i]
      /\ new \in [DOMAIN q -> Slots]
  BY <1>1, <1>4, <1>5
<1>7. \A s \in Slots : (s <= n - 1 => s <= n /\ s < n) /\ (s <= n => s <= n - 1 \/ s = n) /\ n <= n
  BY NSlotAssumption DEF Slots
<1>8. \A i, j \in DOMAIN q : i < j => new[i] < new[j]
  <2> SUFFICES ASSUME NEW i \in DOMAIN q, NEW j \in DOMAIN q, i < j PROVE new[i] < new[j]
    OBVIOUS
  <2>1. i \in DOMAIN p
    BY <1>4
  <2>2. CASE j = k
    BY <1>1, <1>6, <1>7, <2>1, <2>2
  <2>3. CASE j \in DOMAIN p
    BY <1>1, <1>6, <2>1, <2>3
  <2> QED BY <1>4, <2>2, <2>3
<1>9. \A i \in DOMAIN q : new[i] <= n /\ Matches(d, new[i], e, m) /\ q[i] = link[d][new[i]].act
  <2> SUFFICES ASSUME NEW i \in DOMAIN q
               PROVE  new[i] <= n /\ Matches(d, new[i], e, m) /\ q[i] = link[d][new[i]].act
    OBVIOUS
  <2>1. CASE i = k
    BY <1>4, <1>6, <1>7, <2>1
  <2>2. CASE i \in DOMAIN p
    BY <1>1, <1>4, <1>6, <1>7, <2>2
  <2> QED BY <1>4, <2>1, <2>2
<1>10. \A s \in Slots : s <= n /\ Matches(d, s, e, m) => \E i \in DOMAIN q : new[i] = s
  <2> SUFFICES ASSUME NEW s \in Slots, s <= n, Matches(d, s, e, m)
               PROVE  \E i \in DOMAIN q : new[i] = s
    OBVIOUS
  <2>1. CASE s = n
    BY <1>4, <1>6, <2>1
  <2>2. CASE s <= n - 1
    <3>1. PICK i \in DOMAIN p : at[i] = s
      BY <1>1, <2>2
    <3> QED BY <1>4, <1>6, <3>1
  <2> QED BY <1>7, <2>1, <2>2
<1>11. ActsOfMatches(q, n, d, e, m)
  BY <1>6, <1>8, <1>9, <1>10 DEF ActsOfMatches
<1> QED BY <1>2, <1>11
(* Acts that were right for the slots as they were are right if the slots  *)
(* have not changed.                                                       *)
LEMMA ProgressNext ==
    ASSUME ActsOfMatches(chk'.pushed, Through', chk'.dev, chk'.evt, chk'.mode),
           link' = link, active' = active
    PROVE  ActsOfMatches(chk.pushed, Through, chk.dev, chk.evt, chk.mode)'
  BY DEF ActsOfMatches, Matches

(* A check begins. *)
LEMMA NewCheckStep ==
    ASSUME IInv, NEW d \in Devs, NEW e \in Events, CheckBegins(d, e),
           UNCHANGED <<hand, link, active, kept, given, mixed>>
    PROVE  Rest'
<1>1. /\ chk'.pc = "match" /\ chk'.dev = d /\ chk'.slot = 1 /\ chk'.pushed = <<>>
      /\ ~chk'.torn => \A s \in Slots : mixed[d][s] = "no"
      /\ ~chk'.touched => \A s \in Slots : InSlot(d, s) = {}
  BY BeginsFacts DEF IInv
<1>2. AskedInv' /\ WriteInv' /\ LinkageKept'
  BY SlotsSame DEF IInv
<1>3. CheckInv'
  BY <1>1 DEF CheckInv
<1>4. ActsHaveCause'
  BY <1>1 DEF ActsHaveCause
<1>5. ProgressInv'
  <2>1. Through' = 0
    BY <1>1 DEF Through
  <2>2. ActsOfMatches(chk.pushed, Through, chk.dev, chk.evt, chk.mode)'
    BY <1>1, <2>1, MatchesNone, ProgressNext
  <2>3. ~chk'.touched => \A h \in Handlers, s \in Slots : ~In(h, chk.dev, s)'
    BY <1>1, InSlotFact DEF In
  <2> QED BY <2>2, <2>3 DEF ProgressInv
<1> QED BY <1>2, <1>3, <1>4, <1>5 DEF Rest

(* The check looks at a slot. *)
LEMMA SlotStep == IInv /\ CheckSlot => Rest'
<1> SUFFICES ASSUME IInv, CheckSlot PROVE Rest'
  OBVIOUS
<1>1. /\ UNCHANGED <<hand, link, active, kept, given, mixed>>
      /\ chk.pc = "match"
  BY DEF CheckSlot, registry, history
<1>2. AskedInv' /\ WriteInv' /\ LinkageKept'
  BY <1>1, SlotsSame DEF IInv
<1>3. /\ chk \in CheckType /\ chk.dev \in Devs /\ chk.slot \in Slots /\ chk.slot \in Nat
      /\ Through = chk.slot - 1
  BY <1>1 DEF IInv, TypeOK, PlaceInv, Through, Slots
<1>4. /\ chk'.dev = chk.dev /\ chk'.evt = chk.evt /\ chk'.mode = chk.mode /\ chk'.pushed = chk.pushed
      /\ chk'.touched = chk.touched /\ chk'.torn = chk.torn
      /\ \/ /\ Matches(chk.dev, chk.slot, chk.evt, chk.mode)
            /\ chk'.pc = "act" /\ chk'.slot = chk.slot
         \/ /\ ~Matches(chk.dev, chk.slot, chk.evt, chk.mode)
            /\ chk'.pc = "match" /\ chk'.slot = chk.slot + 1
         \/ /\ ~Matches(chk.dev, chk.slot, chk.evt, chk.mode)
            /\ chk'.pc = "done" /\ chk.slot = NSlot
  <2>1. CASE Matches(chk.dev, chk.slot, chk.evt, chk.mode)
    <3>1. chk' = [chk EXCEPT !.pc = "act"]
      BY <2>1 DEF CheckSlot
    <3> QED BY <1>3, <2>1, <3>1 DEF CheckType
  <2>2. CASE ~Matches(chk.dev, chk.slot, chk.evt, chk.mode)
    <3>1. chk' = ToNext(chk)
      BY <2>2 DEF CheckSlot
    <3> QED BY <1>3, <2>2, <3>1, ToNextFacts
  <2> QED BY <2>1, <2>2
<1>5. CheckInv'
  BY <1>1, <1>3, <1>4 DEF IInv, CheckInv, Matches
<1>6. ActsHaveCause'
  BY <1>1, <1>4 DEF IInv, ActsHaveCause
<1>7. ProgressInv'
  <2> SUFFICES ASSUME ~chk.touched, ~chk.torn
               PROVE  /\ \A h \in Handlers, s \in Slots : ~In(h, chk.dev, s)'
                      /\ ActsOfMatches(chk.pushed, Through, chk.dev, chk.evt, chk.mode)'
    BY <1>4 DEF ProgressInv
  <2>1. /\ \A h \in Handlers, s \in Slots : ~In(h, chk.dev, s)
        /\ ActsOfMatches(chk.pushed, chk.slot - 1, chk.dev, chk.evt, chk.mode)
    BY <1>1, <1>3 DEF IInv, ProgressInv
  <2>2. \A h \in Handlers, s \in Slots : ~In(h, chk.dev, s)'
    BY <1>1, <1>4, <2>1 DEF In
  <2>3. CASE chk'.pc = "act"
    <3>1. Through' = chk.slot - 1
      BY <1>4, <2>3 DEF Through
    <3> QED BY <1>1, <1>4, <2>1, <2>2, <3>1, ProgressNext
  <2>4. CASE chk'.pc # "act"
    <3>1. Through' = chk.slot
      BY <1>3, <1>4, <2>4 DEF Through
    <3>2. ActsOfMatches(chk.pushed, chk.slot, chk.dev, chk.evt, chk.mode)
      BY <1>3, <1>4, <2>1, <2>4, MatchesSkip
    <3> QED BY <1>1, <1>4, <2>2, <3>1, <3>2, ProgressNext
  <2> QED BY <2>3, <2>4
<1> QED BY <1>2, <1>5, <1>6, <1>7 DEF Rest

(* A slot that nobody is rewriting holds a linkage that a pad has asked    *)
(* for, if it is active.                                                   *)
LEMMA ActiveGiven ==
    ASSUME IInv, NEW d \in Devs, NEW s \in Slots, mixed[d][s] = "no", active[d][s]
    PROVE  link[d][s] \in given[d]
<1>1. \A h \in Handlers : ~In(h, d, s)
  BY DEF IInv, WriteInv
<1>2. InSlot(d, s) = {}
  BY <1>1, InSlotFact
<1>3. kept[d][s] # Blank /\ link[d][s] = kept[d][s]
  BY <1>2 DEF IInv, LinkageKept
<1> QED BY <1>3 DEF IInv, AskedInv

(* A linkage acts. *)
LEMMA ActsStep == IInv /\ CheckActs => Rest'
<1> SUFFICES ASSUME IInv, CheckActs PROVE Rest'
  OBVIOUS
<1>1. UNCHANGED <<hand, link, active, kept, given, mixed>> /\ chk.pc = "act"
  BY DEF CheckActs, registry, history
<1>2. AskedInv' /\ WriteInv' /\ LinkageKept'
  BY <1>1, SlotsSame DEF IInv
<1>3. /\ chk \in CheckType /\ chk.dev \in Devs /\ chk.slot \in Slots /\ chk.slot \in Nat
      /\ Through = chk.slot - 1
  BY <1>1 DEF IInv, TypeOK, PlaceInv, Through, Slots
<1>4. PICK a : a = link[chk.dev][chk.slot].act
  OBVIOUS
<1>5. a \in Acts \cup {NoAct} /\ chk.pushed \in Seq(Acts \cup {NoAct})
  <2>1. link[chk.dev][chk.slot] \in Rule
    BY <1>3 DEF IInv, TypeOK
  <2> QED BY <1>3, <1>4, <2>1 DEF Rule, CheckType
<1>6. chk' = ToNext([chk EXCEPT !.pushed = Append(chk.pushed, a)])
  BY <1>4 DEF CheckActs, AfterPush, ActOf
<1>7. /\ chk'.dev = chk.dev /\ chk'.evt = chk.evt /\ chk'.mode = chk.mode
      /\ chk'.pushed = Append(chk.pushed, a)
      /\ chk'.touched = chk.touched /\ chk'.torn = chk.torn
      /\ \/ chk'.pc = "match" /\ chk'.slot = chk.slot + 1
         \/ chk'.pc = "done" /\ chk.slot = NSlot
  <2>1. PICK c : c = [chk EXCEPT !.pushed = Append(chk.pushed, a)]
    OBVIOUS
  <2>2. Append(chk.pushed, a) \in Seq(Acts \cup {NoAct})
    BY <1>5
  <2>3. /\ c \in CheckType /\ c.slot = chk.slot /\ c.dev = chk.dev /\ c.evt = chk.evt
        /\ c.mode = chk.mode /\ c.pushed = Append(chk.pushed, a)
        /\ c.touched = chk.touched /\ c.torn = chk.torn
    BY <1>3, <2>1, <2>2, PushedFacts
  <2> QED BY <1>3, <1>6, <2>1, <2>3, ToNextFacts
<1>8. Through' = chk.slot
  BY <1>3, <1>7 DEF Through
<1>9. ~chk.torn => /\ \A s \in Slots : mixed[chk.dev][s] = "no"
                   /\ Matches(chk.dev, chk.slot, chk.evt, chk.mode)
  BY <1>1 DEF IInv, CheckInv
<1>10. CheckInv'
  BY <1>1, <1>7, <1>9 DEF CheckInv
<1>11. ActsHaveCause'
  <2> SUFFICES ASSUME ~chk.torn, NEW i \in DOMAIN chk'.pushed
               PROVE  \E r \in given[chk.dev] : /\ r.evt = chk.evt /\ chk.mode \in r.modes
                                                /\ r.act = chk'.pushed[i]
    BY <1>1, <1>7 DEF ActsHaveCause
  <2>1. link[chk.dev][chk.slot] \in given[chk.dev]
    BY <1>3, <1>9, ActiveGiven DEF Matches
  <2>2. link[chk.dev][chk.slot].evt = chk.evt /\ chk.mode \in link[chk.dev][chk.slot].modes
    BY <1>9 DEF Matches
  <2>3. \/ i \in DOMAIN chk.pushed /\ chk'.pushed[i] = chk.pushed[i]
        \/ chk'.pushed[i] = a
    BY <1>5, <1>7
  <2> QED BY <1>4, <2>1, <2>2, <2>3 DEF IInv, ActsHaveCause
<1>12. ProgressInv'
  <2> SUFFICES ASSUME ~chk.touched, ~chk.torn
               PROVE  /\ \A h \in Handlers, s \in Slots : ~In(h, chk.dev, s)'
                      /\ ActsOfMatches(chk.pushed, Through, chk.dev, chk.evt, chk.mode)'
    BY <1>7 DEF ProgressInv
  <2>1. /\ \A h \in Handlers, s \in Slots : ~In(h, chk.dev, s)
        /\ ActsOfMatches(chk.pushed, chk.slot - 1, chk.dev, chk.evt, chk.mode)
    BY <1>1, <1>3 DEF IInv, ProgressInv
  <2>2. \A h \in Handlers, s \in Slots : ~In(h, chk.dev, s)'
    BY <1>1, <1>7, <2>1 DEF In
  <2>3. ActsOfMatches(Append(chk.pushed, a), chk.slot, chk.dev, chk.evt, chk.mode)
    BY <1>3, <1>4, <1>5, <1>9, <2>1, MatchesPush
  <2> QED BY <1>1, <1>7, <1>8, <2>2, <2>3, ProgressNext
<1> QED BY <1>2, <1>10, <1>11, <1>12 DEF Rest

(* Every step preserves the invariant. *)
LEMMA IStep == IInv /\ [Next]_vars => IInv'
<1> SUFFICES ASSUME IInv, [Next]_vars PROVE Rest'
  BY TypeStep DEF IInv, Rest
<1>1. ASSUME NEW h \in Handlers, NEW d \in Devs, NEW s \in Slots, NEW r \in Rules[d] \cup {Blank},
             HandlerBegins(h, d, s, r)
      PROVE  Rest'
  BY <1>1, BeginsStep
<1>2. ASSUME NEW h \in Handlers, HandlerStores(h) PROVE Rest'
  BY <1>2, StoresStep
<1>3. ASSUME NEW a \in Acts, PadSets(a) PROVE Rest'
  BY <1>3, FrameStep DEF PadSets, registry
<1>4. ASSUME NEW d \in Devs, NEW v \in Vals, DeviceChanges(d, v) PROVE Rest'
  BY <1>4, FrameStep DEF DeviceChanges, registry
<1>5. CASE MonitorHears
  <2>1. UNCHANGED <<hand, link, active, kept, given, mixed>> /\ msgs # <<>>
    BY <1>5 DEF MonitorHears, registry, history
  <2>2. CASE Head(msgs).dev \in online
    <3>1. msgs \in Seq([dev : Devs, evt : Vals])
      BY DEF IInv, TypeOK
    <3>2. Head(msgs) \in [dev : Devs, evt : Vals]
      BY <2>1, <3>1, QueueFact, Zenon
    <3>3. Head(msgs).dev \in Devs /\ Head(msgs).evt \in Events
      BY <3>2 DEF Events
    <3>4. CheckBegins(Head(msgs).dev, Head(msgs).evt)
      BY <1>5, <2>2 DEF MonitorHears
    <3> QED BY <2>1, <3>3, <3>4, NewCheckStep
  <2>3. CASE Head(msgs).dev \notin online
    BY <1>5, <2>1, <2>3, FrameStep DEF MonitorHears
  <2> QED BY <2>2, <2>3
<1>6. ASSUME NEW d \in Devs, DevOnline(d) PROVE Rest'
  BY <1>6, NewCheckStep DEF DevOnline, SlotsOnline, history, Events, ONLINE
<1>7. ASSUME NEW d \in Devs, DevOffline(d) PROVE Rest'
  BY <1>7, FrameStep DEF DevOffline
<1>8. ASSUME NEW m \in Modes, MonitorKey(m) PROVE Rest'
  BY <1>8, FrameStep DEF MonitorKey, registry
<1>9. CASE CheckEnds
  <2>1. chk' = NoCheck /\ UNCHANGED <<hand, link, active, kept, given, mixed>>
    BY <1>9 DEF CheckEnds, registry, history
  <2>2. AskedInv' /\ WriteInv' /\ LinkageKept'
    BY <2>1, SlotsSame DEF IInv
  <2> QED BY <2>1, <2>2 DEF Rest, CheckInv, ActsHaveCause, ProgressInv, NoCheck
<1>10. CASE AsyncObeyed
  BY <1>10, FrameStep DEF AsyncObeyed, registry, history
<1>11. CASE AsyncFails
  BY <1>11, FrameStep DEF AsyncFails, registry, history
<1>12. CASE UNCHANGED vars
  BY <1>12, FrameStep DEF vars, registry, history
<1> QED BY <1>1, <1>2, <1>3, <1>4, <1>5, <1>6, <1>7, <1>8, <1>9, <1>10, <1>11, <1>12, SlotStep, ActsStep
        DEF Next, Handler, Monitor, Check, Async

-----------------------------------------------------------------------------
LEMMA Invariance == Spec => []IInv
  BY IInit, IStep, PTL DEF Spec

(* Every variable keeps its type. *)
THEOREM TypeCorrect == Spec => []TypeOK
<1>1. IInv => TypeOK
  BY DEF IInv
<1> QED BY <1>1, Invariance, PTL

(* However many handlers write the slots while check_linkage goes through  *)
(* them without a lock, an act that a linkage sets off is one a pad asked  *)
(* for, with this event and in this mode, unless a slot in use was         *)
(* rewritten during or before the check.                                   *)
THEOREM CauseCorrect == Spec => []ActsHaveCause
<1>1. IInv => ActsHaveCause
  BY DEF IInv
<1> QED BY <1>1, Invariance, PTL

(* A slot holds what set_dev_linkage and del_dev_linkage last put there,   *)
(* through dev_offline and dev_online, unless handlers overlapped in it.   *)
THEOREM KeptCorrect == Spec => []LinkageKept
<1>1. IInv => LinkageKept
  BY DEF IInv
<1> QED BY <1>1, Invariance, PTL

(* A check_linkage that no handler disturbs pushes the act of each linkage *)
(* that matches, of all HSB_DEV_MAX_LINKAGE_NUM slots, once and in order.  *)
THEOREM MatchesCorrect == Spec => []EveryMatchActs
<1>1. IInv => EveryMatchActs
  BY DEF IInv, ProgressInv, EveryMatchActs, Through
<1> QED BY <1>1, Invariance, PTL
=============================================================================
