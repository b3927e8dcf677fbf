--------------------------- MODULE TimerCheckProofs ---------------------------
(* Theorems about TimerCheck, for any number of devices, length of the day *)
(* and width of the windows, and any timers pads may set.                  *)
EXTENDS TimerCheck, TLAPS

Firing == [n : 0..MaxSet, at : 0..MaxTime]
Status == [active : BOOLEAN, expired : BOOLEAN]

(* Nothing in the books is of a day to come, and sec_today does not run    *)
(* ahead of the clock once a timer has fired: it was stored at that visit  *)
(* or at a later one of the same day.                                      *)
DayOk(d) ==
    /\ armed[d] <= Day(now)
    /\ \A i \in 1..Len(fired[d]) :
          /\ fired[d][i].n <= nset
          /\ Day(fired[d][i].at) <= Day(now)
          /\ Day(fired[d][i].at) = Day(now) => sec_today <= Sec(now)

(* Between the two writes of set_dev_timer the new timer is in the slot    *)
(* and has not fired, unless the pass came in between.                     *)
SetOk(d) ==
    /\ timer[d].n <= nset
    /\ Setting(d) => timer[d].n \in {0, nset} /\ kept[d] = ZeroTimer /\ nset > 0
    /\ Setting(d) /\ nset \notin raced =>
          /\ timer[d] = [set |-> client.set, n |-> nset]
          /\ ~Visited(d)
          /\ \A i \in 1..Len(fired[d]) : fired[d][i].n # nset

(* A timer that has fired today is not ready to fire again. *)
ExpiredOk(d) ==
    timer[d].n \notin raced \cup {0} /\ FiredToday(d, timer[d].n) =>
        Visited(d) \/ timer_status[d].expired \/ ~timer_status[d].active

(* What the pass is about to push is what it has checked, and that had not *)
(* fired on the day of the check.                                          *)
ActOk(d) ==
    Acting(d) =>
        /\ main.at <= now
        /\ Day(main.at) = Day(now) => sec_today <= Sec(now)
        /\ kept[d].n \notin raced \cup {0} => timer[d] = kept[d] /\ main.once = kept[d].set.once
        /\ timer[d].n \notin raced \cup {0} =>
              /\ armed[d] = Day(now) => Day(main.at) = Day(now)
              /\ \A i \in 1..Len(fired[d]) :
                    fired[d][i].n = timer[d].n => Day(fired[d][i].at) # Day(main.at)

(* What the pass is about to mark is what has just fired. *)
MarkOk(d) ==
    Marking(d) =>
        /\ kept[d].n \notin raced \cup {0} =>
              /\ timer[d] = kept[d] /\ main.once = kept[d].set.once
              /\ fired[d] # <<>> /\ fired[d][Len(fired[d])].n = kept[d].n
        /\ timer[d].n \notin raced \cup {0} /\ armed[d] = Day(now) => FiredToday(d, timer[d].n)

(* A timer that was armed today is expired only because it has fired, or   *)
(* because today is not one of its days.                                   *)
ArmOk(d) ==
    /\ timer_status[d].active /\ timer_status[d].expired
    /\ ~Setting(d) /\ timer[d].n \notin raced /\ armed[d] = Day(now)
    => Wday(now) \notin timer[d].set.wday \/ FiredToday(d, timer[d].n)

(* What OncePerDay and TimerKept say of one device. *)
OnceOk(d) ==
    \A i, j \in 1..Len(fired[d]) :
        /\ fired[d][i].n = fired[d][j].n /\ fired[d][i].n \notin raced \cup {0}
        /\ Day(fired[d][i].at) = Day(fired[d][j].at)
        => i = j

HasFired(d) == kept[d].set.once /\ fired[d] # <<>> /\ fired[d][Len(fired[d])].n = kept[d].n

KeptOk(d) ==
    kept[d].n \notin raced \cup {0} =>
        IF HasFired(d)
        THEN Marking(d) \/ (timer[d] = ZeroTimer /\ timer_status[d] = ZeroStatus)
        ELSE timer[d] = kept[d] /\ timer_status[d].active

DevOk(d) == DayOk(d) /\ SetOk(d) /\ ExpiredOk(d) /\ ActOk(d) /\ MarkOk(d)
            /\ ArmOk(d) /\ OnceOk(d) /\ KeptOk(d)

(* The pass has a device to visit. *)
VisitInv == main.pc = "visit" => main.left # <<>>

IInv == TypeOK /\ VisitInv /\ \A d \in Devs : DevOk(d)

-----------------------------------------------------------------------------
(* The calendar. *)
LEMMA DayFact ==
    ASSUME NEW t \in Nat
    PROVE  Day(t) \in Nat /\ Sec(t) \in 0..(DaySecs - 1)
  BY TimeAssumption DEF Day, Sec

LEMMA DayMono ==
    ASSUME NEW t \in Nat, NEW u \in Nat, t <= u
    PROVE  Day(t) <= Day(u)
  BY TimeAssumption DEF Day

LEMMA NextSecond ==
    ASSUME NEW t \in Nat
    PROVE  \/ Day(t + 1) = Day(t) /\ Sec(t + 1) = Sec(t) + 1
           \/ Day(t + 1) = Day(t) + 1 /\ Sec(t + 1) = 0
  BY TimeAssumption DEF Day, Sec

(* Types of the parts. *)
LEMMA TypeFacts ==
    ASSUME TypeOK
    PROVE  /\ now \in Nat /\ nset \in Nat /\ sec_today \in Nat
           /\ queue \in Seq(Devs)
           /\ timer \in [Devs -> Timer \cup {ZeroTimer}] /\ kept \in [Devs -> Timer \cup {ZeroTimer}]
           /\ timer_status \in [Devs -> Status]
           /\ fired \in [Devs -> Seq(Firing)] /\ \A d \in Devs : fired[d] \in Seq(Firing)
           /\ armed \in [Devs -> Nat]
           /\ \A d \in Devs : timer[d].n \in Nat /\ kept[d].n \in Nat
           /\ \A d \in Devs : timer[d].n = 0 => timer[d] = ZeroTimer
           /\ \A d \in Devs : \A i \in 1..Len(fired[d]) :
                 fired[d][i].n \in Nat /\ fired[d][i].at \in Nat
<1>1. now \in Nat /\ nset \in Nat /\ sec_today \in Nat
  BY TimeAssumption DEF TypeOK
<1>2. armed \in [Devs -> Nat]
  <2>1. armed \in [Devs -> 0..Day(MaxTime)] /\ MaxTime \in Nat
    BY TimeAssumption DEF TypeOK
  <2> QED BY <2>1
<1>3. timer \in [Devs -> Timer \cup {ZeroTimer}] /\ kept \in [Devs -> Timer \cup {ZeroTimer}]
  BY DEF TypeOK
<1>4. \A x \in Timer \cup {ZeroTimer} : x.n \in Nat /\ (x.n = 0 => x = ZeroTimer)
  BY DEF Timer, ZeroTimer
<1>5. timer_status \in [Devs -> Status] /\ queue \in Seq(Devs)
  BY DEF TypeOK, Status
<1>6. fired \in [Devs -> Seq(Firing)] /\ \A d \in Devs : fired[d] \in Seq(Firing)
  BY DEF TypeOK, Firing
<1>7. \A x \in Firing : x.n \in Nat /\ x.at \in Nat
  BY TimeAssumption DEF Firing
<1>8. ASSUME NEW d \in Devs, NEW i \in 1..Len(fired[d])
      PROVE  fired[d][i] \in Firing
  BY <1>6
<1> QED BY <1>1, <1>2, <1>3, <1>4, <1>5, <1>6, <1>7, <1>8

ActType == [pc : {"act"}, dev : Devs, once : BOOLEAN, at : 0..MaxTime, left : Seq(Devs)]
MarkType == [pc : {"mark"}, dev : Devs, once : BOOLEAN, left : Seq(Devs)]
VisitType == [pc : {"visit"}, left : Seq(Devs)]
StatusType == [pc : {"status"}, dev : Devs, set : Settings]

LEMMA PcFacts ==
    ASSUME TypeOK
    PROVE  /\ main.pc = "visit" => main \in VisitType
           /\ main.pc = "act" => main \in ActType
           /\ main.pc = "mark" => main \in MarkType
           /\ client.pc = "status" => client \in StatusType
           /\ main = Idle => main.pc = "idle"
           /\ client = Idle => client.pc = "idle"
<1>1. main \in {Idle} \cup VisitType \cup ActType \cup MarkType /\ client \in {Idle} \cup StatusType
  BY DEF TypeOK, VisitType, ActType, MarkType, StatusType
<1>2. Idle.pc = "idle"
  BY DEF Idle
<1>3. \A x \in VisitType : x.pc = "visit"
  BY DEF VisitType
<1>4. \A x \in MarkType : x.pc = "mark"
  BY DEF MarkType
<1>5. \A x \in StatusType : x.pc = "status"
  BY DEF StatusType
<1>6. \A x \in ActType : x.pc = "act"
  BY DEF ActType
<1> QED BY <1>1, <1>2, <1>3, <1>4, <1>5, <1>6

LEMMA NextDevFact ==
    ASSUME NEW s \in Seq(Devs)
    PROVE  /\ NextDev(s) \in {Idle} \cup VisitType
           /\ NextDev(s).pc = "visit" => NextDev(s).left # <<>>
           /\ NextDev(s).pc \notin {"act", "mark"}
<1>1. CASE s = <<>>
  BY <1>1 DEF NextDev, Idle
<1>2. CASE s # <<>>
  BY <1>2 DEF NextDev, VisitType
<1> QED BY <1>1, <1>2

-----------------------------------------------------------------------------
(* A step that leaves the slot and the history of a device alone. *)
LEMMA DevSame ==
    ASSUME TypeOK, NEW d \in Devs, DevOk(d),
           timer'[d] = timer[d], timer_status'[d] = timer_status[d], fired'[d] = fired[d],
           armed'[d] = armed[d], kept'[d] = kept[d],
           now' = now, sec_today' = sec_today \/ sec_today' = Sec(now),
           nset' \in Nat, nset <= nset', raced \subseteq raced',
           Setting(d)' <=> Setting(d), Setting(d) => client' = client /\ nset' = nset,
           Visited(d)' <=> Visited(d), Visited(d) => main' = main
    PROVE  DevOk(d)'
<1>1. now \in Nat /\ nset \in Nat /\ Sec(now) \in Nat /\ timer[d].n \in Nat
  BY TypeFacts, DayFact
<1>2. \A i \in 1..Len(fired[d]) : fired[d][i].n \in Nat
  BY TypeFacts
<1>3. \A n : FiredToday(d, n)' <=> FiredToday(d, n)
  BY DEF FiredToday
<1>4. DayOk(d)'
  BY <1>1, <1>2 DEF DevOk, DayOk
<1>5. SetOk(d)'
  BY <1>1 DEF DevOk, SetOk
<1>8. /\ (Acting(d)' <=> Acting(d)) /\ (Acting(d) => main' = main)
      /\ (Marking(d)' <=> Marking(d)) /\ (Marking(d) => main' = main)
  BY DEF Visited, Acting, Marking
<1>6. ExpiredOk(d)' /\ MarkOk(d)' /\ ArmOk(d)'
  BY <1>3, <1>8 DEF DevOk, ExpiredOk, MarkOk, ArmOk
<1>7. OnceOk(d)' /\ KeptOk(d)'
  BY <1>8 DEF DevOk, OnceOk, KeptOk, HasFired
<1>9. ActOk(d)'
  BY <1>1, <1>8 DEF DevOk, ActOk
<1> QED BY <1>4, <1>5, <1>6, <1>7, <1>9 DEF DevOk

(* The initial state satisfies the invariant. *)
LEMMA IInit == Init => IInv
<1> SUFFICES ASSUME Init PROVE IInv
  OBVIOUS
<1>1. TypeOK
  <2>1. /\ now \in 0..MaxTime /\ pass \in 0..now /\ nset \in 0..MaxSet
        /\ sec_today \in 0..(DaySecs - 1)
    BY TimeAssumption DEF Init
  <2>2. timer \in [Devs -> Timer \cup {ZeroTimer}] /\ kept \in [Devs -> Timer \cup {ZeroTimer}]
    BY DEF Init
  <2>3. timer_status \in [Devs -> Status]
    BY DEF Init, ZeroStatus, Status
  <2>4. armed \in [Devs -> 0..Day(MaxTime)]
    <3>1. 0 \in 0..Day(MaxTime)
      BY TimeAssumption, DayFact
    <3> QED BY <3>1 DEF Init
  <2>5. queue \in Seq(Devs) /\ fired \in [Devs -> Seq(Firing)]
    BY DEF Init
  <2>6. work_mode \in Modes /\ main = Idle /\ client = Idle /\ raced = {}
    BY DEF Init
  <2> QED BY <2>1, <2>2, <2>3, <2>4, <2>5, <2>6 DEF TypeOK, Firing, Status
<1>2. main.pc = "idle" /\ client.pc = "idle"
  BY DEF Init, Idle
<1>3. ASSUME NEW d \in Devs PROVE DevOk(d)
  <2>1. /\ timer[d] = ZeroTimer /\ kept[d] = ZeroTimer /\ fired[d] = <<>> /\ armed[d] = 0
        /\ timer_status[d] = ZeroStatus /\ nset = 0 /\ now = 0
    BY DEF Init
  <2>2. ZeroTimer.n = 0 /\ ~ZeroStatus.active
    BY DEF ZeroTimer, ZeroStatus
  <2>3. ~Acting(d) /\ ~Marking(d) /\ ~Setting(d)
    BY <1>2 DEF Acting, Marking, Setting
  <2>4. DayOk(d)
    BY <2>1, DayFact DEF DayOk
  <2>5. SetOk(d) /\ ActOk(d) /\ MarkOk(d)
    BY <2>1, <2>2, <2>3 DEF SetOk, ActOk, MarkOk
  <2>6. ExpiredOk(d) /\ ArmOk(d) /\ OnceOk(d)
    BY <2>1, <2>2 DEF ExpiredOk, ArmOk, OnceOk
  <2>7. KeptOk(d)
    BY <2>1, <2>2 DEF KeptOk
  <2> QED BY <2>4, <2>5, <2>6, <2>7 DEF DevOk
<1> QED BY <1>1, <1>2, <1>3 DEF IInv, VisitInv

(* A second passes. *)
LEMMA TickStep == IInv /\ Tick => IInv'
<1> SUFFICES ASSUME IInv, Tick PROVE IInv'
  OBVIOUS
<1>1. /\ now < MaxTime /\ now' = now + 1
      /\ UNCHANGED <<sec_today, work_mode, queue, main, client, pass>>
      /\ UNCHANGED <<timer, timer_status, fired, armed, kept, raced, nset>>
  BY DEF Tick, slots, history
<1>2. TypeOK
  BY DEF IInv
<1>3. TypeOK'
  <2>1. now' \in 0..MaxTime /\ pass' \in 0..now'
    BY <1>1, <1>2, TimeAssumption DEF TypeOK
  <2> QED BY <1>1, <1>2, <2>1 DEF TypeOK
<1>4. now \in Nat /\ nset \in Nat /\ sec_today \in Nat
  BY <1>2, TypeFacts
<1>5. \/ Day(now') = Day(now) /\ Sec(now') = Sec(now) + 1
      \/ Day(now') = Day(now) + 1
  BY <1>1, <1>4, NextSecond
<1>6. Day(now) \in Nat /\ Sec(now) \in Nat
  BY <1>4, DayFact
<1>7. ASSUME NEW d \in Devs PROVE DevOk(d)'
  <2>1. DevOk(d) /\ armed[d] \in Nat
    BY <1>2, TypeFacts DEF IInv
  <2>2. /\ Acting(d)' = Acting(d) /\ Marking(d)' = Marking(d) /\ Setting(d)' = Setting(d)
        /\ Visited(d)' = Visited(d)
    BY <1>1 DEF Acting, Marking, Visited, Setting
  <2>3. \A i \in 1..Len(fired[d]) : Day(fired[d][i].at) \in Nat
    BY <1>2, TypeFacts, DayFact
  <2>4. DayOk(d)'
    BY <1>1, <1>4, <1>5, <1>6, <2>1, <2>3 DEF DevOk, DayOk
  <2>5. SetOk(d)' /\ OnceOk(d)' /\ KeptOk(d)'
    BY <1>1, <2>1, <2>2 DEF DevOk, SetOk, OnceOk, KeptOk, HasFired
  <2>8. ActOk(d)'
    <3> SUFFICES ASSUME Acting(d) PROVE ActOk(d)'
      BY <2>2 DEF ActOk
    <3>1. main.at \in Nat /\ main.at <= now /\ Day(main.at) \in Nat /\ Day(main.at) <= Day(now)
      <4>1. main.at \in Nat
        BY <1>2, PcFacts, TimeAssumption DEF Acting, ActType
      <4>2. main.at <= now
        BY <2>1 DEF DevOk, ActOk
      <4> QED BY <1>4, <4>1, <4>2, DayFact, DayMono
    <3>2. main.at <= now'
      BY <1>1, <1>4, <3>1
    <3>3. Day(main.at) = Day(now') => sec_today <= Sec(now')
      BY <1>4, <1>5, <1>6, <2>1, <3>1 DEF DevOk, ActOk
    <3>4. timer[d].n \notin raced \cup {0} /\ armed[d] = Day(now') => Day(main.at) = Day(now')
      BY <1>5, <1>6, <2>1, <3>1 DEF DevOk, ActOk, DayOk
    <3> QED BY <1>1, <2>1, <3>2, <3>3, <3>4 DEF DevOk, ActOk
  <2>6. CASE Day(now') = Day(now)
    <3>1. \A n : FiredToday(d, n)' <=> FiredToday(d, n)
      BY <1>1, <2>6 DEF FiredToday
    <3>2. Wday(now') = Wday(now)
      BY <2>6 DEF Wday
    <3>3. ExpiredOk(d)' /\ MarkOk(d)' /\ ArmOk(d)'
      BY <1>1, <2>1, <2>2, <2>6, <3>1, <3>2 DEF DevOk, ExpiredOk, MarkOk, ArmOk
    <3> QED BY <2>4, <2>5, <2>8, <3>3 DEF DevOk
  <2>7. CASE Day(now') = Day(now) + 1
    <3>1. \A n : ~FiredToday(d, n)'
      BY <1>1, <1>6, <2>1, <2>3, <2>7 DEF FiredToday, DevOk, DayOk
    <3>2. armed'[d] # Day(now')
      BY <1>1, <1>6, <2>1, <2>7 DEF DevOk, DayOk
    <3>3. ExpiredOk(d)'
      BY <3>1 DEF ExpiredOk
    <3>4. MarkOk(d)' /\ ArmOk(d)'
      BY <1>1, <2>1, <2>2, <3>2 DEF DevOk, MarkOk, ArmOk
    <3> QED BY <2>4, <2>5, <2>8, <3>3, <3>4 DEF DevOk
  <2> QED BY <1>5, <2>6, <2>7
<1>8. VisitInv'
  BY <1>1 DEF IInv, VisitInv
<1> QED BY <1>3, <1>7, <1>8 DEF IInv

(* The start of a pass, the work mode, devices that come and go: no slot   *)
(* and no history changes.                                                 *)
LEMMA QuietStep ==
    ASSUME IInv, UNCHANGED <<now, sec_today, timer, timer_status, client, fired, armed, kept, raced, nset>>,
           work_mode' \in Modes, queue' \in Seq(Devs), pass' \in 0..now,
           \/ main' = main
           \/ main = Idle /\ main' = NextDev(queue)
    PROVE  IInv'
<1>1. TypeOK /\ VisitInv
  BY DEF IInv
<1>2. /\ main' \in {Idle} \cup VisitType \cup ActType \cup MarkType
      /\ main'.pc = "visit" => main'.left # <<>>
      /\ main' = main \/ (main.pc \notin {"act", "mark"} /\ main'.pc \notin {"act", "mark"})
  <2>1. CASE main' = main
    BY <1>1, <2>1 DEF TypeOK, VisitInv, VisitType, ActType, MarkType
  <2>2. CASE main = Idle /\ main' = NextDev(queue)
    BY <1>1, <2>2, NextDevFact, PcFacts, TypeFacts
  <2> QED BY <2>1, <2>2
<1>3. TypeOK'
  BY <1>1, <1>2 DEF TypeOK, VisitType, ActType, MarkType
<1>4. nset \in Nat
  BY <1>1, TypeFacts
<1>5. ASSUME NEW d \in Devs PROVE DevOk(d)'
  <2>1. DevOk(d)
    BY DEF IInv
  <2>2. (Visited(d)' <=> Visited(d)) /\ (Visited(d) => main' = main)
    BY <1>2 DEF Visited, Acting, Marking
  <2>3. Setting(d)' <=> Setting(d)
    BY DEF Setting
  <2> QED BY <1>1, <1>4, <2>1, <2>2, <2>3, DevSame
<1> QED BY <1>2, <1>3, <1>5 DEF IInv, VisitInv

LEMMA PopFact ==
    ASSUME NEW s \in Seq(Devs), NEW n \in 1..Len(s)
    PROVE  PopNth(s, n) \in Seq(Devs)
<1>1. Len(s) - 1 \in Nat
  OBVIOUS
<1>2. \A i \in 1..(Len(s) - 1) : (IF i < n THEN s[i] ELSE s[i + 1]) \in Devs
  OBVIOUS
<1> QED BY <1>1, <1>2 DEF PopNth

LEMMA QuietSteps ==
    ASSUME IInv,
           \/ CheckTimerAndDelay \/ UNCHANGED vars
           \/ \E m \in Modes : SetBoxWorkMode(m)
           \/ \E d \in Devs : DevOffline(d) \/ DevOnline(d)
    PROVE  IInv'
<1>1. /\ queue \in Seq(Devs) /\ work_mode \in Modes /\ pass \in 0..now /\ now \in 0..now
  BY TimeAssumption DEF IInv, TypeOK
<1>2. CASE CheckTimerAndDelay
  BY <1>1, <1>2, QuietStep DEF CheckTimerAndDelay, slots, history
<1>3. CASE UNCHANGED vars
  BY <1>1, <1>3, QuietStep DEF vars
<1>4. ASSUME NEW m \in Modes, SetBoxWorkMode(m) PROVE IInv'
  BY <1>1, <1>4, QuietStep DEF SetBoxWorkMode, slots, history
<1>5. ASSUME NEW d \in Devs, DevOffline(d) PROVE IInv'
  <2>1. queue' \in Seq(Devs)
    BY <1>1, <1>5, PopFact DEF DevOffline
  <2> QED BY <1>1, <1>5, <2>1, QuietStep DEF DevOffline, slots, history
<1>6. ASSUME NEW d \in Devs, DevOnline(d) PROVE IInv'
  <2>1. queue' \in Seq(Devs)
    BY <1>1, <1>6 DEF DevOnline
  <2> QED BY <1>1, <1>6, <2>1, QuietStep DEF DevOnline, slots, history
<1> QED BY <1>2, <1>3, <1>4, <1>5, <1>6

(* A pad deletes a timer. *)
LEMMA DelStep ==
    ASSUME IInv, NEW d \in Devs, DelDevTimer(d)
    PROVE  IInv'
<1>1. /\ client = Idle
      /\ timer' = [timer EXCEPT ![d] = ZeroTimer]
      /\ timer_status' = [timer_status EXCEPT ![d] = ZeroStatus]
      /\ kept' = [kept EXCEPT ![d] = ZeroTimer]
      /\ UNCHANGED <<now, sec_today, work_mode, queue, main, client, pass, fired, armed, raced, nset>>
  BY DEF DelDevTimer
<1>2. TypeOK /\ VisitInv
  BY DEF IInv
<1>3. /\ timer \in [Devs -> Timer \cup {ZeroTimer}] /\ kept \in [Devs -> Timer \cup {ZeroTimer}]
      /\ timer_status \in [Devs -> Status] /\ nset \in Nat
  BY <1>2, TypeFacts
<1>4. /\ timer' \in [Devs -> Timer \cup {ZeroTimer}] /\ kept' \in [Devs -> Timer \cup {ZeroTimer}]
      /\ timer'[d] = ZeroTimer /\ kept'[d] = ZeroTimer
      /\ \A e \in Devs : e # d => timer'[e] = timer[e] /\ kept'[e] = kept[e]
  BY <1>1, <1>3
<1>5. /\ timer_status' \in [Devs -> Status] /\ timer_status'[d] = ZeroStatus
      /\ \A e \in Devs : e # d => timer_status'[e] = timer_status[e]
  BY <1>1, <1>3 DEF ZeroStatus, Status
<1>6. TypeOK'
  BY <1>1, <1>2, <1>4, <1>5 DEF TypeOK, Status
<1>7. \A e \in Devs : (Visited(e)' <=> Visited(e)) /\ ~Setting(e) /\ ~Setting(e)'
  BY <1>1, <1>2, PcFacts DEF Visited, Acting, Marking, Setting
<1>8. ASSUME NEW e \in Devs, e # d PROVE DevOk(e)'
  <2>1. DevOk(e)
    BY DEF IInv
  <2> QED BY <1>1, <1>2, <1>3, <1>4, <1>5, <1>7, <1>8, <2>1, DevSame
<1>9. DevOk(d)'
  <2>1. DevOk(d)
    BY DEF IInv
  <2>2. ZeroTimer.n = 0 /\ ~ZeroStatus.active
    BY DEF ZeroTimer, ZeroStatus
  <2>3. DayOk(d)' /\ OnceOk(d)'
    BY <1>1, <2>1 DEF DevOk, DayOk, OnceOk
  <2>4. SetOk(d)'
    BY <1>1, <1>3, <1>4, <1>7, <2>2 DEF SetOk
  <2>5. ExpiredOk(d)' /\ ArmOk(d)'
    BY <1>5, <2>2 DEF ExpiredOk, ArmOk
  <2>6. MarkOk(d)' /\ KeptOk(d)'
    BY <1>4, <2>2 DEF MarkOk, KeptOk
  <2>7. ActOk(d)'
    <3>1. Acting(d)' <=> Acting(d)
      BY <1>1 DEF Acting
    <3> QED BY <1>1, <1>4, <2>1, <2>2, <3>1 DEF DevOk, ActOk
  <2> QED BY <2>3, <2>4, <2>5, <2>6, <2>7 DEF DevOk
<1> QED BY <1>1, <1>2, <1>6, <1>8, <1>9 DEF IInv, VisitInv

(* The first write of set_dev_timer. *)
LEMMA SetStep ==
    ASSUME IInv, NEW d \in Devs, NEW s \in Settings, SetDevTimer(d, s)
    PROVE  IInv'
<1>1. PICK x : x = [set |-> s, n |-> nset + 1]
  OBVIOUS
<1>2. /\ client = Idle /\ nset < MaxSet /\ nset' = nset + 1
      /\ timer' = [timer EXCEPT ![d] = x]
      /\ client' = [pc |-> "status", dev |-> d, set |-> s]
      /\ kept' = [kept EXCEPT ![d] = ZeroTimer]
      /\ raced' = IF Visited(d) THEN raced \cup {nset + 1} ELSE raced
      /\ UNCHANGED <<now, sec_today, work_mode, queue, timer_status, main, pass, fired, armed>>
  BY <1>1 DEF SetDevTimer
<1>3. TypeOK /\ VisitInv /\ DevOk(d)
  BY DEF IInv
<1>4. /\ timer \in [Devs -> Timer \cup {ZeroTimer}] /\ kept \in [Devs -> Timer \cup {ZeroTimer}]
      /\ nset \in Nat /\ nset + 1 \in 1..MaxSet
  BY <1>2, <1>3, TypeFacts, TimeAssumption
<1>5. x \in Timer /\ x.n = nset + 1 /\ x.set = s
  BY <1>1, <1>4 DEF Timer
<1>6. /\ timer' \in [Devs -> Timer \cup {ZeroTimer}] /\ kept' \in [Devs -> Timer \cup {ZeroTimer}]
      /\ timer'[d] = x /\ kept'[d] = ZeroTimer
      /\ \A e \in Devs : e # d => timer'[e] = timer[e] /\ kept'[e] = kept[e]
  BY <1>2, <1>4, <1>5
<1>7. client' \in StatusType /\ client'.dev = d /\ client'.set = s /\ client'.pc = "status"
  BY <1>2 DEF StatusType
<1>8. TypeOK'
  <2>1. raced' \subseteq 1..MaxSet /\ nset' \in 0..MaxSet
    BY <1>2, <1>3, <1>4 DEF TypeOK
  <2> QED BY <1>2, <1>3, <1>6, <1>7, <2>1 DEF TypeOK, StatusType
<1>9. \A e \in Devs : /\ (Visited(e)' <=> Visited(e)) /\ (Acting(e)' <=> Acting(e))
                      /\ (Marking(e)' <=> Marking(e)) /\ ~Setting(e) /\ (Setting(e)' <=> e = d)
  BY <1>2, <1>3, <1>7, PcFacts DEF Visited, Acting, Marking, Setting
<1>10. ASSUME NEW e \in Devs, e # d PROVE DevOk(e)'
  <2>1. DevOk(e)
    BY DEF IInv
  <2>2. nset' \in Nat /\ nset <= nset' /\ raced \subseteq raced'
    BY <1>2, <1>4
  <2> QED BY <1>2, <1>3, <1>6, <1>9, <1>10, <2>1, <2>2, DevSame
<1>11. DevOk(d)'
  <2>1. ZeroTimer.n = 0
    BY DEF ZeroTimer
  <2>2. \A i \in 1..Len(fired[d]) : fired[d][i].n <= nset /\ fired[d][i].n \in Nat
    BY <1>3, TypeFacts DEF DevOk, DayOk
  <2>3. DayOk(d)'
    BY <1>2, <1>3, <1>4, <2>2 DEF DevOk, DayOk
  <2>4. OnceOk(d)'
    BY <1>2, <1>3 DEF DevOk, OnceOk
  <2>5. SetOk(d)'
    <3>1. \A i \in 1..Len(fired[d]) : fired[d][i].n # nset + 1
      BY <1>4, <2>2
    <3>2. nset + 1 \notin raced' => ~Visited(d)'
      BY <1>2, <1>9
    <3>3. nset' <= nset' /\ nset' > 0
      BY <1>2, <1>4
    <3>4. timer'[d] = [set |-> client'.set, n |-> nset']
      BY <1>1, <1>2, <1>6, <1>7
    <3>5. timer'[d].n = nset' /\ nset' \notin raced' => ~Visited(d)'
      BY <1>2, <1>5, <1>6, <3>2
    <3>6. \A i \in 1..Len(fired'[d]) : fired'[d][i].n # nset'
      BY <1>2, <3>1
    <3>7. timer'[d].n = nset' /\ kept'[d] = ZeroTimer
      BY <1>2, <1>5, <1>6
    <3> QED BY <3>3, <3>4, <3>5, <3>6, <3>7 DEF SetOk
  <2>6. ExpiredOk(d)'
    <3>1. \A i \in 1..Len(fired'[d]) : fired'[d][i].n # timer'[d].n
      BY <1>2, <1>4, <1>5, <1>6, <2>2
    <3> QED BY <3>1 DEF ExpiredOk, FiredToday
  <2>7. ArmOk(d)' /\ KeptOk(d)'
    BY <1>6, <1>9, <2>1 DEF ArmOk, KeptOk
  <2>8. MarkOk(d)' /\ ActOk(d)'
    <3>1. Visited(d) => timer'[d].n \in raced' /\ kept'[d].n = 0
      BY <1>2, <1>5, <1>6, <2>1
    <3>2. MarkOk(d)'
      BY <1>9, <3>1 DEF MarkOk, Visited
    <3>3. ActOk(d)'
      BY <1>2, <1>3, <1>9, <3>1 DEF DevOk, ActOk, Visited
    <3> QED BY <3>2, <3>3
  <2> QED BY <2>3, <2>4, <2>5, <2>6, <2>7, <2>8 DEF DevOk
<1> QED BY <1>2, <1>3, <1>8, <1>10, <1>11 DEF IInv, VisitInv

(* The second write of set_dev_timer. *)
LEMMA StatusStep ==
    ASSUME IInv, NEW d \in Devs, SetDevTimerStatus(d)
    PROVE  IInv'
<1>1. PICK x, z : x = [set |-> client.set, n |-> nset] /\ z = [active |-> TRUE, expired |-> FALSE]
  OBVIOUS
<1>2. /\ Setting(d)
      /\ timer_status' = [timer_status EXCEPT ![d] = z]
      /\ client' = Idle
      /\ armed' = [armed EXCEPT ![d] = Day(now)]
      /\ raced' = IF Visited(d) THEN raced \cup {nset} ELSE raced
      /\ kept' = [kept EXCEPT ![d] = x]
      /\ UNCHANGED <<now, sec_today, work_mode, queue, timer, main, pass, fired, nset>>
  BY <1>1 DEF SetDevTimerStatus
<1>3. TypeOK /\ VisitInv /\ DevOk(d)
  BY DEF IInv
<1>4. /\ timer \in [Devs -> Timer \cup {ZeroTimer}] /\ kept \in [Devs -> Timer \cup {ZeroTimer}]
      /\ timer_status \in [Devs -> Status] /\ nset \in Nat /\ now \in Nat
  BY <1>3, TypeFacts
<1>5. nset \in 1..MaxSet /\ timer[d].n \in {0, nset} /\ client \in StatusType
  <2>1. nset > 0 /\ timer[d].n \in {0, nset}
    BY <1>2, <1>3 DEF DevOk, SetOk
  <2>2. client \in StatusType
    BY <1>2, <1>3, PcFacts DEF Setting
  <2>3. nset \in 1..MaxSet
    BY <1>3, <2>1, TimeAssumption DEF TypeOK
  <2> QED BY <2>1, <2>2, <2>3
<1>6. x \in Timer /\ x.n = nset /\ z \in Status /\ z.active /\ ~z.expired
  <2>1. x \in Timer /\ x.n = nset
    BY <1>1, <1>5 DEF Timer, StatusType
  <2>2. z \in Status /\ z.active /\ ~z.expired
    BY <1>1 DEF Status
  <2> QED BY <2>1, <2>2
<1>7. Day(now) \in 0..Day(MaxTime)
  <2>1. now <= MaxTime /\ MaxTime \in Nat
    BY <1>3, TimeAssumption DEF TypeOK
  <2> QED BY <1>4, <2>1, DayMono, DayFact
<1>8. /\ kept' \in [Devs -> Timer \cup {ZeroTimer}] /\ kept'[d] = x
      /\ \A e \in Devs : e # d => kept'[e] = kept[e]
  BY <1>2, <1>4, <1>6
<1>9. /\ timer_status' \in [Devs -> Status] /\ timer_status'[d] = z
      /\ \A e \in Devs : e # d => timer_status'[e] = timer_status[e]
  BY <1>2, <1>4, <1>6
<1>10. /\ armed' \in [Devs -> 0..Day(MaxTime)] /\ armed'[d] = Day(now)
       /\ \A e \in Devs : e # d => armed'[e] = armed[e]
  <2>1. armed \in [Devs -> 0..Day(MaxTime)]
    BY <1>3 DEF TypeOK
  <2> QED BY <1>2, <1>7, <2>1
<1>11. TypeOK'
  <2>1. raced' \subseteq 1..MaxSet
    BY <1>2, <1>3, <1>5 DEF TypeOK
  <2> QED BY <1>2, <1>3, <1>8, <1>9, <1>10, <2>1 DEF TypeOK, Status
<1>12. \A e \in Devs : /\ (Visited(e)' <=> Visited(e)) /\ (Acting(e)' <=> Acting(e))
                       /\ (Marking(e)' <=> Marking(e)) /\ (Setting(e) <=> e = d) /\ ~Setting(e)'
  <2>1. client.dev = d /\ client.pc = "status" /\ client'.pc = "idle"
    BY <1>2 DEF Setting, Idle
  <2> QED BY <1>2, <2>1 DEF Visited, Acting, Marking, Setting
<1>13. ASSUME NEW e \in Devs, e # d PROVE DevOk(e)'
  <2>1. DevOk(e)
    BY DEF IInv
  <2>2. nset' \in Nat /\ nset <= nset' /\ raced \subseteq raced'
    BY <1>2, <1>4
  <2> QED BY <1>2, <1>3, <1>8, <1>9, <1>10, <1>12, <1>13, <2>1, <2>2, DevSame
<1>14. DevOk(d)'
  <2>1. nset \notin raced' => /\ ~Visited(d) /\ timer[d] = x
                              /\ \A i \in 1..Len(fired[d]) : fired[d][i].n # nset
    BY <1>1, <1>2, <1>3 DEF DevOk, SetOk
  <2>2. DayOk(d)'
    <3>1. Day(now) <= Day(now)
      BY <1>4, DayFact
    <3> QED BY <1>2, <1>3, <1>10, <3>1 DEF DevOk, DayOk
  <2>3. SetOk(d)' /\ OnceOk(d)'
    BY <1>2, <1>3, <1>12 DEF DevOk, SetOk, OnceOk
  <2>4. ExpiredOk(d)'
    <3>1. timer[d].n \notin raced' \cup {0} => ~FiredToday(d, timer[d].n)'
      BY <1>2, <1>5, <2>1 DEF FiredToday
    <3> QED BY <1>2, <3>1 DEF ExpiredOk
  <2>5. MarkOk(d)' /\ ActOk(d)'
    <3>1. Visited(d) => kept'[d].n \in raced' /\ timer'[d].n \in raced' \cup {0}
      BY <1>2, <1>5, <1>6, <1>8
    <3>2. MarkOk(d)'
      BY <1>12, <3>1 DEF MarkOk, Visited
    <3>3. ActOk(d)'
      BY <1>2, <1>3, <1>12, <3>1 DEF DevOk, ActOk, Visited
    <3> QED BY <3>2, <3>3
  <2>6. ArmOk(d)'
    BY <1>6, <1>9 DEF ArmOk
  <2>7. KeptOk(d)'
    <3> SUFFICES ASSUME kept'[d].n \notin raced'
                 PROVE  ~HasFired(d)' /\ timer'[d] = kept'[d] /\ timer_status'[d].active
      BY DEF KeptOk
    <3>1. nset \notin raced'
      BY <1>6, <1>8
    <3>2. fired[d] # <<>> => Len(fired[d]) \in 1..Len(fired[d])
      <4>1. fired[d] \in Seq(Firing)
        BY <1>3, TypeFacts
      <4> QED BY <4>1
    <3>3. ~HasFired(d)'
      BY <1>2, <1>6, <1>8, <2>1, <3>1, <3>2 DEF HasFired
    <3> QED BY <1>2, <1>6, <1>8, <1>9, <2>1, <3>1, <3>3
  <2> QED BY <2>2, <2>3, <2>4, <2>5, <2>6, <2>7 DEF DevOk
<1> QED BY <1>2, <1>3, <1>11, <1>13, <1>14 DEF IInv, VisitInv

(* The pass marks the timer that has fired, or clears it. *)
LEMMA MarkStep == IInv /\ MarkTimer => IInv'
<1> SUFFICES ASSUME IInv, MarkTimer PROVE IInv'
  OBVIOUS
<1>1. PICK d, z : d = main.dev /\ z = Marked(main.dev, main.once)
  OBVIOUS
<1>2. /\ main.pc = "mark"
      /\ timer' = IF main.once THEN [timer EXCEPT ![d] = ZeroTimer] ELSE timer
      /\ timer_status' = [timer_status EXCEPT ![d] = z]
      /\ main' = NextDev(main.left)
      /\ UNCHANGED <<now, sec_today, work_mode, queue, client, pass>>
      /\ UNCHANGED <<fired, armed, kept, raced, nset>>
  BY <1>1 DEF MarkTimer, history
<1>3. TypeOK
  BY DEF IInv
<1>4. main \in MarkType /\ d \in Devs /\ main.left \in Seq(Devs) /\ main.once \in BOOLEAN /\ Marking(d)
  BY <1>1, <1>2, <1>3, PcFacts DEF MarkType, Marking
<1>5. DevOk(d)
  BY <1>4 DEF IInv
<1>6. /\ timer \in [Devs -> Timer \cup {ZeroTimer}] /\ timer_status \in [Devs -> Status] /\ nset \in Nat
      /\ timer[d].n \in Nat /\ timer_status[d] \in Status
  BY <1>3, <1>4, TypeFacts
<1>7. /\ z \in Status
      /\ main.once => z = ZeroStatus
      /\ ~main.once => z.expired /\ z.active = timer_status[d].active
  <2>1. CASE main.once
    BY <1>1, <2>1 DEF Marked, ZeroStatus, Status
  <2>2. CASE ~main.once
    BY <1>1, <1>6, <2>2 DEF Marked, Status
  <2> QED BY <2>1, <2>2
<1>8. /\ timer_status' \in [Devs -> Status] /\ timer_status'[d] = z
      /\ \A e \in Devs : e # d => timer_status'[e] = timer_status[e]
  BY <1>2, <1>4, <1>6, <1>7
<1>9. /\ timer' \in [Devs -> Timer \cup {ZeroTimer}]
      /\ main.once => timer'[d] = ZeroTimer
      /\ ~main.once => timer'[d] = timer[d]
      /\ \A e \in Devs : e # d => timer'[e] = timer[e]
  BY <1>2, <1>4, <1>6
<1>10. /\ main' \in {Idle} \cup VisitType
       /\ main'.pc = "visit" => main'.left # <<>>
       /\ main'.pc \notin {"act", "mark"}
  BY <1>2, <1>4, NextDevFact
<1>11. TypeOK'
  BY <1>2, <1>3, <1>8, <1>9, <1>10 DEF TypeOK, Status, VisitType
<1>12. \A e \in Devs : /\ (Setting(e)' <=> Setting(e)) /\ (Marking(e) <=> e = d) /\ ~Marking(e)'
                       /\ (Visited(e) <=> e = d) /\ ~Visited(e)' /\ ~Acting(e)'
  BY <1>1, <1>2, <1>10 DEF Visited, Acting, Marking, Setting
<1>13. ASSUME NEW e \in Devs, e # d PROVE DevOk(e)'
  <2>1. DevOk(e)
    BY DEF IInv
  <2>2. nset' \in Nat /\ nset <= nset'
    BY <1>2, <1>6
  <2> QED BY <1>2, <1>3, <1>8, <1>9, <1>12, <1>13, <2>1, <2>2, DevSame
<1>14. DevOk(d)'
  <2>1. ZeroTimer.n = 0 /\ ZeroTimer.set.wday = {} /\ ~ZeroStatus.active
    BY DEF ZeroTimer, ZeroStatus
  <2>2. DayOk(d)' /\ OnceOk(d)'
    BY <1>2, <1>5 DEF DevOk, DayOk, OnceOk
  <2>3. SetOk(d)'
    <3>1. timer'[d].n <= nset
      BY <1>4, <1>5, <1>6, <1>9, <2>1 DEF DevOk, SetOk
    <3>2. Setting(d) => timer'[d].n \in {0, nset} /\ kept[d] = ZeroTimer /\ nset > 0 /\ nset \in raced
      BY <1>4, <1>5, <1>9, <1>12, <2>1 DEF DevOk, SetOk
    <3> QED BY <1>2, <1>4, <1>12, <3>1, <3>2 DEF SetOk
  <2>4. ExpiredOk(d)'
    BY <1>4, <1>7, <1>8, <2>1 DEF ExpiredOk
  <2>5. MarkOk(d)' /\ ActOk(d)'
    BY <1>4, <1>12 DEF MarkOk, ActOk
  <2>6. ArmOk(d)'
    <3>1. CASE main.once
      BY <1>7, <1>8, <2>1, <3>1 DEF ArmOk
    <3>2. CASE ~main.once
      <4>1. timer'[d] = timer[d] /\ \A n : FiredToday(d, n)' <=> FiredToday(d, n)
        BY <1>2, <1>9, <3>2 DEF FiredToday
      <4>2. CASE timer[d].n = 0
        <5>1. timer[d] = ZeroTimer
          BY <1>3, <1>4, <4>2, TypeFacts
        <5> QED BY <2>1, <4>1, <5>1 DEF ArmOk
      <4>3. CASE timer[d].n # 0
        <5>1. timer[d].n \notin raced /\ armed[d] = Day(now) => FiredToday(d, timer[d].n)
          BY <1>4, <1>5, <4>3 DEF DevOk, MarkOk
        <5> QED BY <1>2, <4>1, <5>1 DEF ArmOk
      <4> QED BY <4>2, <4>3
    <3> QED BY <3>1, <3>2
  <2>7. KeptOk(d)'
    <3> SUFFICES ASSUME kept[d].n \notin raced \cup {0}
                 PROVE  IF HasFired(d) THEN timer'[d] = ZeroTimer /\ timer_status'[d] = ZeroStatus
                                       ELSE timer'[d] = kept[d] /\ timer_status'[d].active
      BY <1>2 DEF KeptOk, HasFired
    <3>1. /\ timer[d] = kept[d] /\ main.once = kept[d].set.once
          /\ fired[d] # <<>> /\ fired[d][Len(fired[d])].n = kept[d].n
      BY <1>4, <1>5 DEF DevOk, MarkOk
    <3>2. CASE main.once
      BY <1>7, <1>8, <1>9, <3>1, <3>2 DEF HasFired
    <3>3. CASE ~main.once
      BY <1>5, <1>7, <1>8, <1>9, <3>1, <3>3 DEF HasFired, DevOk, KeptOk
    <3> QED BY <3>2, <3>3
  <2> QED BY <2>2, <2>3, <2>4, <2>5, <2>6, <2>7 DEF DevOk
<1> QED BY <1>10, <1>11, <1>13, <1>14 DEF IInv, VisitInv

(* Re-arming leaves a timer active or inactive, and a new day is never     *)
(* seen twice.                                                             *)
LEMMA ReArmedFact ==
    ASSUME TypeOK, NEW d \in Devs
    PROVE  /\ ReArmed(d) \in Status /\ ReArmed(d).active = timer_status[d].active
           /\ NextDay /\ timer_status[d].active =>
                 ReArmed(d).expired = (Wday(now) \notin timer[d].set.wday)
           /\ ~(NextDay /\ timer_status[d].active) => ReArmed(d) = timer_status[d]
<1>1. timer_status[d] \in Status
  BY TypeFacts
<1>2. CASE NextDay /\ timer_status[d].active
  BY <1>1, <1>2 DEF ReArmed, Status
<1>3. CASE ~(NextDay /\ timer_status[d].active)
  BY <1>1, <1>3 DEF ReArmed
<1> QED BY <1>2, <1>3

LEMMA NoNewDay ==
    ASSUME TypeOK, NEW d \in Devs, DevOk(d), NEW n, FiredToday(d, n)
    PROVE  ~NextDay
<1>1. sec_today <= Sec(now)
  BY DEF FiredToday, DevOk, DayOk
<1>2. sec_today \in Nat /\ Sec(now) \in Nat
  BY TypeFacts, DayFact
<1> QED BY <1>1, <1>2 DEF NextDay

LEMMA AppendFact ==
    ASSUME NEW S, NEW q \in Seq(S), NEW x \in S
    PROVE  /\ Append(q, x) \in Seq(S) /\ Append(q, x) # <<>> /\ Len(Append(q, x)) = Len(q) + 1
           /\ Append(q, x)[Len(Append(q, x))] = x
           /\ \A i \in 1..Len(Append(q, x)) :
                 i = Len(Append(q, x)) \/ (i \in 1..Len(q) /\ Append(q, x)[i] = q[i])
<1>1. Append(q, x) \in Seq(S) /\ Len(Append(q, x)) = Len(q) + 1 /\ Len(q) \in Nat
  OBVIOUS
<1>2. Append(q, x)[Len(q) + 1] = x /\ \A i \in 1..Len(q) : Append(q, x)[i] = q[i]
  OBVIOUS
<1>3. Append(q, x) # <<>>
  <2>1. Len(<<>>) = 0
    OBVIOUS
  <2> QED BY <1>1, <2>1
<1> QED BY <1>1, <1>2, <1>3

(* The pass checks a device. *)
LEMMA VisitStep == IInv /\ VisitDev => IInv'
<1> SUFFICES ASSUME IInv, VisitDev PROVE IInv'
  OBVIOUS
<1>1. PICK d, t, r, m :
        /\ d = Head(main.left) /\ t = Tail(main.left) /\ r = ReArmed(d)
        /\ m = [pc |-> "act", dev |-> d, once |-> timer[d].set.once, at |-> now, left |-> t]
  OBVIOUS
<1>2. /\ main.pc = "visit" /\ sec_today' = Sec(now)
      /\ timer_status' = [timer_status EXCEPT ![d] = r]
      /\ main' = IF Fires(d) THEN m ELSE NextDev(t)
      /\ armed' = IF NextDay /\ timer_status[d].active THEN [armed EXCEPT ![d] = Day(now)] ELSE armed
      /\ raced' = IF Setting(d) THEN raced \cup {nset} ELSE raced
      /\ UNCHANGED <<now, work_mode, queue, timer, client, pass, fired, kept, nset>>
  BY <1>1 DEF VisitDev
<1>3. TypeOK
  BY DEF IInv
<1>4. d \in Devs /\ t \in Seq(Devs)
  <2>1. main.left \in Seq(Devs) /\ main.left # <<>>
    BY <1>2, <1>3, PcFacts DEF VisitType, IInv, VisitInv
  <2> QED BY <1>1, <2>1
<1>5. DevOk(d)
  BY <1>4 DEF IInv
<1>6. /\ timer \in [Devs -> Timer \cup {ZeroTimer}] /\ timer_status \in [Devs -> Status] /\ nset \in Nat
      /\ timer[d].n \in Nat /\ timer_status[d] \in Status /\ now \in Nat
  BY <1>3, <1>4, TypeFacts
<1>7. /\ r \in Status /\ r.active = timer_status[d].active
      /\ NextDay /\ timer_status[d].active => r.expired = (Wday(now) \notin timer[d].set.wday)
      /\ ~(NextDay /\ timer_status[d].active) => r = timer_status[d]
  BY <1>1, <1>3, <1>4, ReArmedFact
<1>8. Fires(d) => timer[d] \in Timer /\ timer[d] # ZeroTimer /\ r.active /\ ~r.expired
  <2>1. ZeroTimer.set.modes = {}
    BY DEF ZeroTimer
  <2> QED BY <1>1, <1>4, <1>6, <2>1 DEF Fires
<1>9. Fires(d) => m \in ActType
  <2> SUFFICES ASSUME Fires(d) PROVE m \in ActType
    OBVIOUS
  <2>1. timer[d].set \in Settings
    BY <1>8 DEF Timer
  <2>2. timer[d].set.once \in BOOLEAN
    BY <2>1, SettingsAssumption
  <2>3. now \in 0..MaxTime
    BY <1>3 DEF TypeOK
  <2> QED BY <1>1, <1>4, <2>2, <2>3 DEF ActType
<1>10. m.pc = "act" /\ m.dev = d /\ m.once = timer[d].set.once /\ m.at = now
  BY <1>1
<1>11. /\ timer_status' \in [Devs -> Status] /\ timer_status'[d] = r
       /\ \A e \in Devs : e # d => timer_status'[e] = timer_status[e]
  BY <1>2, <1>4, <1>6, <1>7
<1>15. Day(now) \in 0..Day(MaxTime) /\ Day(now) \in Nat /\ Sec(now) \in 0..(DaySecs - 1)
  <2>1. now <= MaxTime /\ MaxTime \in Nat
    BY <1>3, TimeAssumption DEF TypeOK
  <2>2. Day(now) <= Day(MaxTime) /\ Day(now) \in Nat /\ Day(MaxTime) \in Nat
    BY <1>6, <2>1, DayMono, DayFact
  <2> QED BY <1>6, <2>2, DayFact
<1>16. /\ armed' \in [Devs -> 0..Day(MaxTime)]
       /\ NextDay /\ timer_status[d].active => armed'[d] = Day(now)
       /\ ~(NextDay /\ timer_status[d].active) => armed'[d] = armed[d]
       /\ \A e \in Devs : e # d => armed'[e] = armed[e]
  <2>1. armed \in [Devs -> 0..Day(MaxTime)]
    BY <1>3 DEF TypeOK
  <2> QED BY <1>2, <1>4, <1>15, <2>1
<1>17. /\ main' \in {Idle} \cup VisitType \cup ActType
       /\ main'.pc = "visit" => main'.left # <<>>
       /\ main'.pc # "mark"
       /\ Fires(d) => main'.pc = "act" /\ main'.dev = d /\ main'.once = timer[d].set.once /\ main'.at = now
       /\ ~Fires(d) => main'.pc # "act"
  <2>1. CASE Fires(d)
    BY <1>2, <1>9, <1>10, <2>1
  <2>2. CASE ~Fires(d)
    BY <1>2, <1>4, <2>2, NextDevFact
  <2> QED BY <2>1, <2>2
<1>18. TypeOK'
  <2>1. Setting(d) => nset \in 1..MaxSet
    <3>1. Setting(d) => nset > 0
      BY <1>5 DEF DevOk, SetOk
    <3> QED BY <1>3, <1>6, <3>1, TimeAssumption DEF TypeOK
  <2>2. raced' \subseteq 1..MaxSet
    BY <1>2, <1>3, <2>1 DEF TypeOK
  <2> QED BY <1>2, <1>3, <1>11, <1>15, <1>16, <1>17, <2>2 DEF TypeOK, Status, VisitType, ActType
<1>19. \A e \in Devs : /\ Setting(e)' <=> Setting(e)
                       /\ ~Visited(e) /\ ~Marking(e) /\ ~Marking(e)'
                       /\ (Visited(e)' <=> e = d /\ Fires(d)) /\ (Acting(e)' <=> e = d /\ Fires(d))
  BY <1>2, <1>17 DEF Visited, Acting, Marking, Setting
<1>20. ASSUME NEW e \in Devs, e # d PROVE DevOk(e)'
  <2>1. DevOk(e)
    BY DEF IInv
  <2>2. nset' \in Nat /\ nset <= nset' /\ raced \subseteq raced'
    BY <1>2, <1>6
  <2> QED BY <1>2, <1>3, <1>11, <1>16, <1>19, <1>20, <2>1, <2>2, DevSame
<1>21. raced \subseteq raced' /\ (Setting(d) => nset \in raced')
  BY <1>2
<1>22. \A n : FiredToday(d, n)' <=> FiredToday(d, n)
  BY <1>2 DEF FiredToday
<1>23. timer[d].n \notin raced' \cup {0} => timer[d].n \notin raced \cup {0}
  BY <1>21
<1>24. Fires(d) /\ timer[d].n \notin raced \cup {0} => ~FiredToday(d, timer[d].n)
  <2> SUFFICES ASSUME Fires(d), timer[d].n \notin raced \cup {0}, FiredToday(d, timer[d].n) PROVE FALSE
    OBVIOUS
  <2>1. timer_status[d].expired \/ ~timer_status[d].active
    BY <1>4, <1>5, <1>19 DEF DevOk, ExpiredOk
  <2>2. r = timer_status[d]
    BY <1>3, <1>4, <1>5, <1>7, NoNewDay
  <2> QED BY <1>8, <2>1, <2>2
<1>25. Fires(d) /\ kept[d].n \notin raced \cup {0} => timer[d] = kept[d] /\ timer_status[d].active
  BY <1>4, <1>5, <1>8, <1>19 DEF DevOk, KeptOk
<1>26. DayOk(d)'
  <2>1. armed'[d] <= Day(now)
    <3>1. armed[d] <= Day(now)
      BY <1>5 DEF DevOk, DayOk
    <3> QED BY <1>15, <1>16, <3>1
  <2>2. sec_today' <= Sec(now)
    BY <1>2, <1>15
  <2> QED BY <1>2, <1>5, <2>1, <2>2 DEF DevOk, DayOk
<1>27. SetOk(d)'
  BY <1>2, <1>4, <1>5, <1>19, <1>21 DEF DevOk, SetOk
<1>28. ExpiredOk(d)'
  <2>1. CASE Fires(d)
    BY <1>4, <1>19, <2>1 DEF ExpiredOk
  <2>2. ASSUME timer[d].n \notin raced' \cup {0}, FiredToday(d, timer[d].n)'
        PROVE  r.expired \/ ~r.active
    <3>1. FiredToday(d, timer[d].n) /\ timer[d].n \notin raced \cup {0}
      BY <1>2, <1>22, <1>23, <2>2
    <3>2. r = timer_status[d]
      BY <1>3, <1>4, <1>5, <1>7, <3>1, NoNewDay
    <3> QED BY <1>4, <1>5, <1>19, <3>1, <3>2 DEF DevOk, ExpiredOk
  <2> QED BY <1>2, <1>11, <2>1, <2>2 DEF ExpiredOk
<1>29. ActOk(d)'
  <2> SUFFICES ASSUME Fires(d)
               PROVE  /\ now <= now /\ sec_today' <= Sec(now)
                      /\ kept[d].n \notin raced' \cup {0} => timer[d] = kept[d]
                      /\ timer[d].n \notin raced' \cup {0} =>
                            \A i \in 1..Len(fired[d]) :
                                fired[d][i].n = timer[d].n => Day(fired[d][i].at) # Day(now)
    BY <1>2, <1>4, <1>17, <1>19 DEF ActOk
  <2>1. now <= now /\ sec_today' <= Sec(now)
    BY <1>2, <1>6, <1>15
  <2>2. kept[d].n \notin raced' \cup {0} => timer[d] = kept[d]
    BY <1>21, <1>25
  <2>3. timer[d].n \notin raced' \cup {0} => ~FiredToday(d, timer[d].n)
    BY <1>23, <1>24
  <2> QED BY <2>1, <2>2, <2>3 DEF FiredToday
<1>30. ArmOk(d)' /\ MarkOk(d)'
  <2> SUFFICES ASSUME r.active, r.expired, ~Setting(d), timer[d].n \notin raced', armed'[d] = Day(now)
               PROVE  Wday(now) \notin timer[d].set.wday \/ FiredToday(d, timer[d].n)
    BY <1>2, <1>4, <1>11, <1>19, <1>22 DEF ArmOk, MarkOk
  <2>1. CASE NextDay /\ timer_status[d].active
    BY <1>7, <2>1
  <2>2. CASE ~(NextDay /\ timer_status[d].active)
    <3>1. r = timer_status[d] /\ armed[d] = Day(now) /\ timer[d].n \notin raced
      BY <1>7, <1>16, <1>21, <2>2
    <3> QED BY <1>5, <3>1 DEF DevOk, ArmOk
  <2> QED BY <2>1, <2>2
<1>31. OnceOk(d)'
  BY <1>2, <1>5, <1>21 DEF DevOk, OnceOk
<1>32. KeptOk(d)'
  <2> SUFFICES ASSUME kept[d].n \notin raced' \cup {0}
               PROVE  IF HasFired(d)
                      THEN timer[d] = ZeroTimer /\ timer_status'[d] = ZeroStatus
                      ELSE timer[d] = kept[d] /\ timer_status'[d].active
    BY <1>2 DEF KeptOk, HasFired
  <2>1. kept[d].n \notin raced \cup {0}
    BY <1>21
  <2>2. ~ZeroStatus.active
    BY DEF ZeroStatus
  <2>3. ~Marking(d)
    BY <1>4, <1>19
  <2>4. CASE HasFired(d)
    <3>1. timer[d] = ZeroTimer /\ timer_status[d] = ZeroStatus
      BY <1>5, <2>1, <2>3, <2>4 DEF DevOk, KeptOk
    <3> QED BY <1>7, <1>11, <2>2, <2>4, <3>1
  <2>5. CASE ~HasFired(d)
    BY <1>5, <1>7, <1>11, <2>1, <2>5 DEF DevOk, KeptOk
  <2> QED BY <2>4, <2>5
<1>33. DevOk(d)'
  BY <1>26, <1>27, <1>28, <1>29, <1>30, <1>31, <1>32 DEF DevOk
<1> QED BY <1>17, <1>18, <1>20, <1>33 DEF IInv, VisitInv

(* The pass pushes an act. *)
LEMMA ActStep == IInv /\ DoAction => IInv'
<1> SUFFICES ASSUME IInv, DoAction PROVE IInv'
  OBVIOUS
<1>1. PICK d, f, m, q :
        /\ d = main.dev /\ f = [n |-> timer[d].n, at |-> main.at]
        /\ m = [pc |-> "mark", dev |-> d, once |-> main.once, left |-> main.left]
        /\ q = Append(fired[d], f)
  OBVIOUS
<1>2. /\ main.pc = "act" /\ fired' = [fired EXCEPT ![d] = q] /\ main' = m
      /\ UNCHANGED <<now, sec_today, work_mode, queue, client, pass, armed, kept, raced, nset>>
      /\ UNCHANGED <<timer, timer_status>>
  BY <1>1 DEF DoAction, slots
<1>3. TypeOK
  BY DEF IInv
<1>4. /\ main \in ActType /\ d \in Devs /\ main.at \in 0..MaxTime /\ main.at \in Nat
      /\ m \in MarkType /\ m.pc = "mark" /\ m.dev = d /\ m.once = main.once
  <2>1. main \in ActType
    BY <1>2, <1>3, PcFacts
  <2> QED BY <1>1, <2>1, TimeAssumption DEF ActType, MarkType
<1>5. DevOk(d)
  BY <1>4 DEF IInv
<1>6. \A e \in Devs : /\ Setting(e)' <=> Setting(e)
                      /\ (Acting(e) <=> e = d) /\ ~Acting(e)'
                      /\ ~Marking(e) /\ (Marking(e)' <=> e = d)
                      /\ (Visited(e) <=> e = d) /\ (Visited(e)' <=> e = d)
  BY <1>1, <1>2, <1>4 DEF Visited, Acting, Marking, Setting
<1>7. /\ fired \in [Devs -> Seq(Firing)] /\ fired[d] \in Seq(Firing) /\ nset \in Nat /\ now \in Nat
      /\ timer[d].n \in Nat /\ sec_today \in Nat
  BY <1>3, <1>4, TypeFacts
<1>8. f \in Firing /\ f.n = timer[d].n /\ f.at = main.at
  <2>1. timer[d].n <= nset /\ nset <= MaxSet
    BY <1>3, <1>5 DEF DevOk, SetOk, TypeOK
  <2>2. timer[d].n \in 0..MaxSet
    BY <1>7, <2>1, TimeAssumption
  <2> QED BY <1>1, <1>4, <2>2 DEF Firing
<1>9. /\ q \in Seq(Firing) /\ q # <<>> /\ Len(q) = Len(fired[d]) + 1 /\ q[Len(q)] = f
      /\ \A i \in 1..Len(q) : i = Len(q) \/ (i \in 1..Len(fired[d]) /\ q[i] = fired[d][i])
  <2>1. PICK S, z : S = Firing /\ z = fired[d]
    OBVIOUS
  <2>2. z \in Seq(S) /\ f \in S
    BY <1>7, <1>8, <2>1
  <2>3. /\ Append(z, f) \in Seq(S) /\ Append(z, f) # <<>> /\ Len(Append(z, f)) = Len(z) + 1
        /\ Append(z, f)[Len(Append(z, f))] = f
        /\ \A i \in 1..Len(Append(z, f)) :
              i = Len(Append(z, f)) \/ (i \in 1..Len(z) /\ Append(z, f)[i] = z[i])
    BY <2>2, AppendFact
  <2> QED BY <1>1, <2>1, <2>3
<1>10. /\ fired' \in [Devs -> Seq(Firing)] /\ fired'[d] = q
       /\ \A e \in Devs : e # d => fired'[e] = fired[e]
  BY <1>2, <1>4, <1>7, <1>9
<1>11. TypeOK'
  BY <1>2, <1>3, <1>4, <1>10 DEF TypeOK, Firing, MarkType
<1>12. ASSUME NEW e \in Devs, e # d PROVE DevOk(e)'
  <2>1. DevOk(e)
    BY DEF IInv
  <2>2. nset' \in Nat /\ nset <= nset' /\ raced \subseteq raced'
    BY <1>2, <1>7
  <2> QED BY <1>2, <1>3, <1>6, <1>10, <1>12, <2>1, <2>2, DevSame
<1>13. /\ main.at <= now /\ (Day(main.at) = Day(now) => sec_today <= Sec(now))
       /\ kept[d].n \notin raced \cup {0} => timer[d] = kept[d] /\ main.once = kept[d].set.once
       /\ timer[d].n \notin raced \cup {0} =>
             /\ armed[d] = Day(now) => Day(main.at) = Day(now)
             /\ \A i \in 1..Len(fired[d]) :
                   fired[d][i].n = timer[d].n => Day(fired[d][i].at) # Day(main.at)
  BY <1>4, <1>5, <1>6 DEF DevOk, ActOk
<1>14. Day(main.at) <= Day(now)
  BY <1>4, <1>7, <1>13, DayMono
<1>15. DayOk(d)'
  <2>1. ASSUME NEW i \in 1..Len(q)
        PROVE  /\ q[i].n <= nset /\ Day(q[i].at) <= Day(now)
               /\ Day(q[i].at) = Day(now) => sec_today <= Sec(now)
    <3>1. CASE i \in 1..Len(fired[d]) /\ q[i] = fired[d][i]
      BY <1>5, <3>1 DEF DevOk, DayOk
    <3>2. CASE q[i] = f
      BY <1>5, <1>8, <1>13, <1>14, <3>2 DEF DevOk, SetOk
    <3> QED BY <1>9, <2>1, <3>1, <3>2
  <2> QED BY <1>2, <1>5, <1>10, <2>1 DEF DevOk, DayOk
<1>16. SetOk(d)'
  <2>1. Setting(d) => nset \in raced
    BY <1>4, <1>5, <1>6 DEF DevOk, SetOk
  <2> QED BY <1>2, <1>4, <1>5, <1>6, <2>1 DEF DevOk, SetOk
<1>17. ExpiredOk(d)' /\ ActOk(d)'
  BY <1>4, <1>6 DEF ExpiredOk, ActOk
<1>18. Len(q) \in 1..Len(q) /\ \A i \in 1..Len(fired[d]) : i \in 1..Len(q) /\ q[i] = fired[d][i]
  BY <1>1, <1>7, <1>8, <1>9
<1>19. \A n : FiredToday(d, n) => FiredToday(d, n)'
  BY <1>2, <1>10, <1>18 DEF FiredToday
<1>20. Day(main.at) = Day(now) => FiredToday(d, timer[d].n)'
  BY <1>2, <1>8, <1>9, <1>10, <1>18 DEF FiredToday
<1>21. MarkOk(d)'
  <2> SUFFICES /\ kept[d].n \notin raced \cup {0} =>
                     /\ timer[d] = kept[d] /\ m.once = kept[d].set.once
                     /\ q # <<>> /\ q[Len(q)].n = kept[d].n
               /\ timer[d].n \notin raced \cup {0} /\ armed[d] = Day(now) => FiredToday(d, timer[d].n)'
    BY <1>2, <1>10 DEF MarkOk
  <2> QED BY <1>4, <1>8, <1>9, <1>13, <1>20
<1>22. ArmOk(d)'
  <2> SUFFICES ASSUME timer_status[d].active, timer_status[d].expired, ~Setting(d),
                      timer[d].n \notin raced, armed[d] = Day(now)
               PROVE  Wday(now) \notin timer[d].set.wday \/ FiredToday(d, timer[d].n)'
    BY <1>2, <1>4, <1>6 DEF ArmOk
  <2>1. Wday(now) \notin timer[d].set.wday \/ FiredToday(d, timer[d].n)
    BY <1>5 DEF DevOk, ArmOk
  <2>2. FiredToday(d, timer[d].n) => FiredToday(d, timer[d].n)'
    BY <1>2, <1>19
  <2> QED BY <2>1, <2>2
<1>23. OnceOk(d)'
  <2>1. ASSUME NEW i \in 1..Len(q), i # Len(q), q[i].n = f.n, Day(q[i].at) = Day(f.at),
               f.n \notin raced \cup {0}
        PROVE  FALSE
    <3>1. i \in 1..Len(fired[d]) /\ q[i] = fired[d][i]
      BY <1>9, <2>1
    <3> QED BY <1>8, <1>13, <2>1, <3>1
  <2>2. ASSUME NEW i \in 1..Len(q), NEW j \in 1..Len(q), q[i].n = q[j].n, q[i].n \notin raced \cup {0},
               Day(q[i].at) = Day(q[j].at)
        PROVE  i = j
    <3>1. CASE i = Len(q)
      BY <1>9, <2>1, <2>2, <3>1
    <3>2. CASE j = Len(q)
      BY <1>9, <2>1, <2>2, <3>2
    <3>3. CASE i # Len(q) /\ j # Len(q)
      <4>1. /\ i \in 1..Len(fired[d]) /\ q[i] = fired[d][i]
            /\ j \in 1..Len(fired[d]) /\ q[j] = fired[d][j]
        BY <1>9, <3>3
      <4> QED BY <1>5, <2>2, <4>1 DEF DevOk, OnceOk
    <3> QED BY <3>1, <3>2, <3>3
  <2> QED BY <1>2, <1>10, <2>2 DEF OnceOk
<1>24. KeptOk(d)'
  <2> SUFFICES ASSUME kept[d].n \notin raced \cup {0}
               PROVE  Marking(d)' /\ timer[d] = kept[d] /\ timer_status[d].active
    BY <1>2 DEF KeptOk
  <2>1. timer[d] = kept[d] /\ ~Marking(d) /\ Marking(d)'
    BY <1>4, <1>6, <1>13
  <2>2. timer[d] # ZeroTimer
    BY <2>1 DEF ZeroTimer
  <2>3. timer_status[d].active
    BY <1>5, <2>1, <2>2 DEF DevOk, KeptOk
  <2> QED BY <2>1, <2>3
<1>25. DevOk(d)'
  BY <1>15, <1>16, <1>17, <1>21, <1>22, <1>23, <1>24 DEF DevOk
<1>26. VisitInv'
  BY <1>2, <1>4 DEF VisitInv
<1> QED BY <1>11, <1>12, <1>25, <1>26 DEF IInv

-----------------------------------------------------------------------------
(* Every step of the system keeps the invariant. *)
LEMMA IStep == IInv /\ [Next]_vars => IInv'
<1> SUFFICES ASSUME IInv, [Next]_vars PROVE IInv'
  OBVIOUS
<1>1. CASE Tick
  BY <1>1, TickStep
<1>2. CASE VisitDev
  BY <1>2, VisitStep
<1>3. CASE MarkTimer
  BY <1>3, MarkStep
<1>8. CASE DoAction
  BY <1>8, ActStep
<1>4. ASSUME NEW d \in Devs, NEW s \in Settings, SetDevTimer(d, s) PROVE IInv'
  BY <1>4, SetStep
<1>5. ASSUME NEW d \in Devs, SetDevTimerStatus(d) PROVE IInv'
  BY <1>5, StatusStep
<1>6. ASSUME NEW d \in Devs, DelDevTimer(d) PROVE IInv'
  BY <1>6, DelStep
<1>7. ASSUME \/ CheckTimerAndDelay \/ UNCHANGED vars
             \/ \E m \in Modes : SetBoxWorkMode(m)
             \/ \E d \in Devs : DevOffline(d) \/ DevOnline(d)
      PROVE  IInv'
  BY <1>7, QuietSteps
<1> QED BY <1>1, <1>2, <1>3, <1>4, <1>5, <1>6, <1>7, <1>8 DEF Next

LEMMA Invariance == Spec => []IInv
  BY IInit, IStep, PTL DEF Spec

(* Every variable of the timers has its type, in every behaviour. *)
THEOREM TypeCorrect == Spec => []TypeOK
<1>1. IInv => TypeOK
  BY DEF IInv
<1> QED BY <1>1, Invariance, PTL

(* However long the day and the windows are, and whatever the passes, pads *)
(* and devices do meanwhile: _check_dev_timer_and_delay pushes the act of  *)
(* a timer at most once on a day.                                          *)
THEOREM OnceCorrect == Spec => []OncePerDay
<1>1. IInv => OncePerDay
  BY DEF IInv, DevOk, OnceOk, OncePerDay
<1> QED BY <1>1, Invariance, PTL

(* The timer a pad was told is set stays in its slot until it is deleted,  *)
(* replaced or, if it is a one-shot timer, has fired; nothing else the     *)
(* daemon does takes it away.                                              *)
THEOREM KeptCorrect == Spec => []TimerKept
<1>1. IInv => TimerKept
  BY DEF IInv, DevOk, KeptOk, HasFired, TimerKept
<1> QED BY <1>1, Invariance, PTL

(* A visit lets a due timer act that was armed today and has not fired yet. *)
LEMMA ArmedStep ==
    ASSUME IInv, [Next]_vars, NEW d \in Devs, Owed(d), armed'[d] = Day(now)
    PROVE  FiredToday(d, timer[d].n)' \/ Acting(d)'
<1>1. /\ main.pc = "visit" /\ d = Head(main.left) /\ main' # main
      /\ timer_status[d].active /\ ~Setting(d) /\ timer[d].n \notin raced
      /\ work_mode \in timer[d].set.modes /\ Wday(now) \in timer[d].set.wday
      /\ InWindow(timer[d].set.sec)
  BY DEF Owed, InWindow
<1>2. VisitDev
  <2>1. main # Idle
    BY <1>1 DEF Idle
  <2> QED BY <1>1, <2>1 DEF Next, Tick, CheckTimerAndDelay, DoAction, MarkTimer, SetDevTimer, SetDevTimerStatus,
                            DelDevTimer, SetBoxWorkMode, DevOffline, DevOnline, vars
<1>3. TypeOK /\ DevOk(d)
  BY DEF IInv
<1>4. /\ ReArmed(d).active = timer_status[d].active
      /\ NextDay /\ timer_status[d].active =>
            ReArmed(d).expired = (Wday(now) \notin timer[d].set.wday)
      /\ ~(NextDay /\ timer_status[d].active) => ReArmed(d) = timer_status[d]
  BY <1>3, ReArmedFact
<1>6. UNCHANGED <<now, timer>>
  BY <1>2 DEF VisitDev
<1>7. CASE Fires(d)
  BY <1>1, <1>2, <1>7 DEF VisitDev, Acting
<1>8. CASE ~Fires(d)
  <2>1. ReArmed(d).active /\ ReArmed(d).expired
    BY <1>1, <1>4, <1>8 DEF Fires
  <2>2. ~NextDay /\ ReArmed(d) = timer_status[d]
    BY <1>1, <1>4, <2>1
  <2>3. armed' = armed /\ fired' = fired
    BY <1>1, <1>2, <1>8, <2>2 DEF VisitDev
  <2>4. FiredToday(d, timer[d].n)
    BY <1>1, <1>3, <2>1, <2>2, <2>3 DEF DevOk, ArmOk
  <2> QED BY <1>6, <2>3, <2>4 DEF FiredToday
<1> QED BY <1>7, <1>8

(* A due timer that was armed today, by its pad or by the first pass of    *)
(* the day, has fired today once the pass has checked its device, or is    *)
(* what the pass pushes next.                                              *)
THEOREM FiresCorrect == Spec => ArmedTimersFire
<1>1. IInv /\ [Next]_vars =>
         [\A d \in Devs : Owed(d) /\ armed'[d] = Day(now) =>
            FiredToday(d, timer[d].n)' \/ Acting(d)']_vars
  BY ArmedStep
<1> QED BY <1>1, Invariance, PTL DEF Spec, ArmedTimersFire
=============================================================================
