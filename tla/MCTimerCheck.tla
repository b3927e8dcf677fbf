----------------------------- MODULE MCTimerCheck -----------------------------
(* TimerCheck for TLC: days of four seconds, a week that starts on the     *)
(* Saturday (tm_wday 6), timers at the first three seconds.                *)
EXTENDS TimerCheck, TLC

DevSymmetry == Permutations(Devs)

MCSettings ==
    { [sec |-> 0, wday |-> 0..6, once |-> FALSE, modes |-> Modes],
      [sec |-> 2, wday |-> {0}, once |-> FALSE, modes |-> {"home"}],
      [sec |-> 1, wday |-> {0, 6}, once |-> TRUE, modes |-> Modes] }

MCDaily == { [sec |-> 0, wday |-> 0..6, once |-> FALSE, modes |-> Modes] }

(* The plainest days: no device leaves, and a pass is over within its      *)
(* second.                                                                 *)
PlainDays == Len(queue') >= Len(queue) /\ (main # Idle => now' = now)
=============================================================================
