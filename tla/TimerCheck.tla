------------------------------ MODULE TimerCheck ------------------------------
(***************************************************************************)
(* The timers of core_daemon/device.c, the once-a-second pass of the main  *)
(* loop over them, and the client handlers that set and delete them        *)
(* meanwhile; nothing here takes a lock.                                   *)
(*                                                                         *)
(* The slots of a device do not depend on each other: a device has one     *)
(* timer here.  The pass checks a timer in one step, pushes what is then   *)
(* in the slot as the act in a second one, and marks the timer expired, or *)
(* clears it, in a third; set_dev_timer writes the timer in one step and   *)
(* its status in a second one.  A device goes offline or comes back only   *)
(* between two passes: g_queue_foreach on a queue that changes under it is *)
(* left out.  The delays of the same pass never act, because nothing in    *)
(* the code sets started, and are left out too.                            *)
(***************************************************************************)
EXTENDS Integers, Sequences

CONSTANTS
    Devs,            \* devices
    Modes,           \* work modes of the box
    Settings,        \* timers a pad may set: records of sec, wday, once, modes
    DaySecs,         \* seconds in a day: 86400
    MidnightWindow,  \* how late the first pass of a day may be: 10
    FireWindow,      \* how late a timer may fire: 5
    FirstWday,       \* tm_wday of day 0
    MaxLag,          \* bound: seconds from one pass to the next
    MaxTime,         \* bound: the clock stops here
    MaxSet           \* bound: timers ever set

ASSUME TimeAssumption ==
    /\ DaySecs \in Nat \ {0}
    /\ {MidnightWindow, FireWindow, MaxLag, MaxTime, MaxSet} \subseteq Nat
    /\ FirstWday \in 0..6

ASSUME SettingsAssumption ==
    Settings \subseteq [sec : 0..(DaySecs - 1), wday : SUBSET (0..6),
                        once : BOOLEAN, modes : SUBSET Modes]

(* A timer set by the pads, numbered; the number is not in the code. *)
Timer == [set : Settings, n : 1..MaxSet]

(* A slot after memset: no weekday bit and no work-mode bit. *)
ZeroTimer == [set |-> [sec |-> 0, wday |-> {}, once |-> FALSE, modes |-> {}], n |-> 0]
ZeroStatus == [active |-> FALSE, expired |-> FALSE]

VARIABLES
    now,           \* time(NULL)
    sec_today,     \* gl_dev_cb.sec_today
    work_mode,     \* gl_dev_cb.work_mode
    queue,         \* gl_dev_cb.queue: the devices online, in order
    timer,         \* dev->timer
    timer_status,  \* dev->timer_status
    main,          \* the main loop
    client,        \* a client handler inside set_dev_timer
    pass,          \* when the last pass began
    fired,         \* history: per device, the acts its timer has pushed
    armed,         \* history: the day expired was last computed, by device
    kept,          \* history: the timer its pad was told is set, by device
    raced,         \* history: settings whose writes met a visit of the pass
    nset           \* settings made

vars == <<now, sec_today, work_mode, queue, timer, timer_status,
          main, client, pass, fired, armed, kept, raced, nset>>

slots == <<timer, timer_status>>
history == <<fired, armed, kept, raced, nset>>

Idle == [pc |-> "idle"]

Day(t) == t \div DaySecs

(* Mutant: the seconds of time(NULL) for those of the day. *)
SecUnwrapped(t) == t

Sec(t) == t % DaySecs
Wday(t) == (FirstWday + Day(t)) % 7

Online(d) == \E i \in 1..Len(queue) : queue[i] = d
Acting(d) == main.pc = "act" /\ main.dev = d
Marking(d) == main.pc = "mark" /\ main.dev = d
Visited(d) == Acting(d) \/ Marking(d)
Setting(d) == client.pc = "status" /\ client.dev = d
FiredToday(d, n) == \E i \in 1..Len(fired[d]) :
    fired[d][i].n = n /\ Day(fired[d][i].at) = Day(now)

Init ==
    /\ now = 0
    /\ sec_today = 0
    /\ work_mode \in Modes
    /\ queue = <<>>
    /\ timer = [d \in Devs |-> ZeroTimer]
    /\ timer_status = [d \in Devs |-> ZeroStatus]
    /\ main = Idle
    /\ client = Idle
    /\ pass = 0
    /\ fired = [d \in Devs |-> <<>>]
    /\ armed = [d \in Devs |-> 0]
    /\ kept = [d \in Devs |-> ZeroTimer]
    /\ raced = {}
    /\ nset = 0

(* The clock, with the main loop at most MaxLag seconds behind it. *)
Tick ==
    /\ now < MaxTime
    /\ now - pass < MaxLag
    /\ now' = now + 1
    /\ UNCHANGED <<sec_today, work_mode, queue, main, client, pass>>
    /\ UNCHANGED <<slots, history>>

-----------------------------------------------------------------------------
(* The pass: check_timer_and_delay, called when select has waited a second *)
(* for nothing.                                                            *)

(* Where the pass goes after a device. *)
NextDev(left) == IF left = <<>> THEN Idle ELSE [pc |-> "visit", left |-> left]

CheckTimerAndDelay ==
    /\ main = Idle
    /\ now > pass
    /\ main' = NextDev(queue)
    /\ pass' = now
    /\ UNCHANGED <<now, sec_today, work_mode, queue, client>>
    /\ UNCHANGED <<slots, history>>

(* Mutant: a second visit in the same second is taken for a new day. *)
NextDayAgain == Sec(now) <= sec_today /\ Sec(now) < MidnightWindow

(* The first pass of a day, as the first device visited sees it. *)
NextDay == Sec(now) < sec_today /\ Sec(now) < MidnightWindow

(* Mutant: a timer not meant for the new day is the one re-armed. *)
ReArmedInverted(d) ==
    IF NextDay /\ timer_status[d].active
    THEN [timer_status[d] EXCEPT !.expired = Wday(now) \in timer[d].set.wday]
    ELSE timer_status[d]

(* The status of d's timer after the check for a new day. *)
ReArmed(d) ==
    IF NextDay /\ timer_status[d].active
    THEN [timer_status[d] EXCEPT !.expired = Wday(now) \notin timer[d].set.wday]
    ELSE timer_status[d]

InWindow(sec) == Sec(now) - sec \in 0..FireWindow

(* The checks 1 to 4 of the timer loop. *)
Fires(d) ==
    /\ ReArmed(d).active /\ ~ReArmed(d).expired
    /\ work_mode \in timer[d].set.modes
    /\ Wday(now) \in timer[d].set.wday
    /\ InWindow(timer[d].set.sec)

(* _check_dev_timer_and_delay up to the check of the time.  The clock, the *)
(* flag and the weekdays are copied.  The device's own work_mode is        *)
(* HSB_WORK_MODE_ALL from create_dev on.                                   *)
VisitDev ==
    /\ main.pc = "visit"
    /\ LET d == Head(main.left) IN
        /\ sec_today' = Sec(now)
        /\ timer_status' = [timer_status EXCEPT ![d] = ReArmed(d)]
        /\ main' = IF Fires(d)
                   THEN [pc |-> "act", dev |-> d, once |-> timer[d].set.once, at |-> now,
                         left |-> Tail(main.left)]
                   ELSE NextDev(Tail(main.left))
        /\ armed' = IF NextDay /\ timer_status[d].active
                    THEN [armed EXCEPT ![d] = Day(now)] ELSE armed
        /\ raced' = IF Setting(d) THEN raced \cup {nset} ELSE raced
    /\ UNCHANGED <<now, work_mode, queue, timer, client, pass, fired, kept, nset>>

(* The act is pushed, with what the slot holds by now: the timer that was  *)
(* checked, unless a pad has replaced it or cleared the slot.              *)
DoAction ==
    /\ main.pc = "act"
    /\ fired' = [fired EXCEPT ![main.dev] = Append(@, [n |-> timer[main.dev].n, at |-> main.at])]
    /\ main' = [pc |-> "mark", dev |-> main.dev, once |-> main.once, left |-> main.left]
    /\ UNCHANGED <<now, sec_today, work_mode, queue, client, pass, armed, kept, raced, nset>>
    /\ UNCHANGED slots

(* Mutant: a one-shot timer is deactivated but its status keeps running. *)
MarkedKeepsOnce(d, once) == [timer_status[d] EXCEPT !.expired = ~once]

(* The status of d's timer once its act is pushed. *)
Marked(d, once) ==
    IF once THEN ZeroStatus ELSE [timer_status[d] EXCEPT !.expired = TRUE]

(* The end of the timer loop's body: a one-shot timer is cleared. *)
MarkTimer ==
    /\ main.pc = "mark"
    /\ timer' = IF main.once THEN [timer EXCEPT ![main.dev] = ZeroTimer] ELSE timer
    /\ timer_status' = [timer_status EXCEPT ![main.dev] = Marked(main.dev, main.once)]
    /\ main' = NextDev(main.left)
    /\ UNCHANGED <<now, sec_today, work_mode, queue, client, pass>>
    /\ UNCHANGED history

-----------------------------------------------------------------------------
(* The pads, through their client handlers. *)

(* set_dev_timer: the timer itself. *)
SetDevTimer(d, s) ==
    /\ client = Idle
    /\ Online(d)
    /\ nset < MaxSet
    /\ nset' = nset + 1
    /\ timer' = [timer EXCEPT ![d] = [set |-> s, n |-> nset + 1]]
    /\ client' = [pc |-> "status", dev |-> d, set |-> s]
    /\ kept' = [kept EXCEPT ![d] = ZeroTimer]
    /\ raced' = IF Visited(d) THEN raced \cup {nset + 1} ELSE raced
    /\ UNCHANGED <<now, sec_today, work_mode, queue, timer_status, main, pass, fired, armed>>

(* set_dev_timer: the status. *)
SetDevTimerStatus(d) ==
    /\ Setting(d)
    /\ timer_status' = [timer_status EXCEPT ![d] = [active |-> TRUE, expired |-> FALSE]]
    /\ client' = Idle
    /\ armed' = [armed EXCEPT ![d] = Day(now)]
    /\ raced' = IF Visited(d) THEN raced \cup {nset} ELSE raced
    /\ kept' = [kept EXCEPT ![d] = [set |-> client.set, n |-> nset]]
    /\ UNCHANGED <<now, sec_today, work_mode, queue, timer, main, pass, fired, nset>>

DelDevTimer(d) ==
    /\ client = Idle
    /\ Online(d)
    /\ timer_status[d].active
    /\ timer' = [timer EXCEPT ![d] = ZeroTimer]
    /\ timer_status' = [timer_status EXCEPT ![d] = ZeroStatus]
    /\ kept' = [kept EXCEPT ![d] = ZeroTimer]
    /\ UNCHANGED <<now, sec_today, work_mode, queue, main, client, pass, fired, armed, raced, nset>>

SetBoxWorkMode(m) ==
    /\ work_mode' = m
    /\ UNCHANGED <<now, sec_today, queue, main, client, pass>>
    /\ UNCHANGED <<slots, history>>

-----------------------------------------------------------------------------
(* The devices. *)

(* g_queue_pop_nth. *)
PopNth(s, n) == [i \in 1..(Len(s) - 1) |-> IF i < n THEN s[i] ELSE s[i + 1]]

DevOffline(d) ==
    /\ main = Idle
    /\ \E i \in 1..Len(queue) : queue[i] = d /\ queue' = PopNth(queue, i)
    /\ UNCHANGED <<now, sec_today, work_mode, main, client, pass>>
    /\ UNCHANGED <<slots, history>>

DevOnline(d) ==
    /\ main = Idle
    /\ ~Online(d)
    /\ queue' = Append(queue, d)
    /\ UNCHANGED <<now, sec_today, work_mode, main, client, pass>>
    /\ UNCHANGED <<slots, history>>

Next ==
    \/ Tick \/ CheckTimerAndDelay \/ VisitDev \/ DoAction \/ MarkTimer
    \/ \E d \in Devs :
        \/ \E s \in Settings : SetDevTimer(d, s)
        \/ SetDevTimerStatus(d) \/ DelDevTimer(d)
        \/ DevOffline(d) \/ DevOnline(d)
    \/ \E m \in Modes : SetBoxWorkMode(m)

Spec == Init /\ [][Next]_vars

-----------------------------------------------------------------------------
(* Every variable has its type. *)
TypeOK ==
    /\ now \in 0..MaxTime /\ pass \in 0..now
    /\ sec_today \in 0..(DaySecs - 1)
    /\ work_mode \in Modes
    /\ queue \in Seq(Devs)
    /\ timer \in [Devs -> Timer \cup {ZeroTimer}]
    /\ timer_status \in [Devs -> [active : BOOLEAN, expired : BOOLEAN]]
    /\ main \in {Idle} \cup [pc : {"visit"}, left : Seq(Devs)]
                \cup [pc : {"act"}, dev : Devs, once : BOOLEAN, at : 0..MaxTime, left : Seq(Devs)]
                \cup [pc : {"mark"}, dev : Devs, once : BOOLEAN, left : Seq(Devs)]
    /\ client \in {Idle} \cup [pc : {"status"}, dev : Devs, set : Settings]
    /\ fired \in [Devs -> Seq([n : 0..MaxSet, at : 0..MaxTime])]
    /\ armed \in [Devs -> 0..Day(MaxTime)]
    /\ kept \in [Devs -> Timer \cup {ZeroTimer}]
    /\ raced \subseteq 1..MaxSet
    /\ nset \in 0..MaxSet

(* A timer fires at most once on a day, although the pass comes every      *)
(* second of its window, through midnights, work modes that come and go    *)
(* and devices that leave and return.  (The act of a slot that was cleared *)
(* between the check and the act is no timer's.)                           *)
OncePerDay ==
    \A d \in Devs : \A i, j \in 1..Len(fired[d]) :
        /\ fired[d][i].n = fired[d][j].n /\ fired[d][i].n \notin raced \cup {0}
        /\ Day(fired[d][i].at) = Day(fired[d][j].at)
        => i = j

(* The timer a pad was told is set stays in its slot until the pad deletes *)
(* or replaces it, and a one-shot timer exactly until it has fired.        *)
TimerKept ==
    \A d \in Devs : kept[d].n \notin raced \cup {0} =>
        IF kept[d].set.once /\ fired[d] # <<>> /\ fired[d][Len(fired[d])].n = kept[d].n
        THEN Marking(d) \/ (timer[d] = ZeroTimer /\ timer_status[d] = ZeroStatus)
        ELSE timer[d] = kept[d] /\ timer_status[d].active

(* What the pass owes to d when it visits it: a timer of today's weekday   *)
(* and of the current work mode, inside its window.                        *)
Owed(d) ==
    /\ main.pc = "visit" /\ d = Head(main.left) /\ main' # main
    /\ timer_status[d].active /\ ~Setting(d) /\ timer[d].n \notin raced
    /\ work_mode \in timer[d].set.modes
    /\ Wday(now) \in timer[d].set.wday
    /\ Sec(now) - timer[d].set.sec \in 0..FireWindow

(* A due timer that was armed today, by its pad or by the first pass of    *)
(* the day, has fired today once the pass has checked its device, or its   *)
(* act is what the pass does next.                                         *)
ArmedTimersFire ==
    [][\A d \in Devs : Owed(d) /\ armed'[d] = Day(now)
                         => FiredToday(d, timer[d].n)' \/ Acting(d)']_vars

(* A timer fires on every day of its mask, on whatever device it is.       *)
(* Checked by a run that shows it is not so.                               *)
DueTimersFire ==
    [][\A d \in Devs : Owed(d) => FiredToday(d, timer[d].n)' \/ Acting(d)']_vars
=============================================================================
