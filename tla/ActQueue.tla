------------------------------- MODULE ActQueue -------------------------------
(***************************************************************************)
(* What the rest of the daemon relies on when it hands an operation to     *)
(* another thread: operations wait in line, each is carried out exactly    *)
(* once and in the order submitted, none waits forever, and those that     *)
(* somebody waits for are answered, in the same order, and no others.      *)
(***************************************************************************)
EXTENDS Integers, Sequences

CONSTANTS
    Act,       \* operations, each with a reply address or "NULL"
    MaxActs

VARIABLES line, served, answered

vars == <<line, served, answered>>

Init == line = <<>> /\ served = <<>> /\ answered = <<>>

Submit(a) ==
    /\ Len(line) + Len(served) < MaxActs
    /\ line' = Append(line, a)
    /\ UNCHANGED <<served, answered>>

Serve ==
    /\ line # <<>>
    /\ line' = Tail(line)
    /\ served' = Append(served, Head(line))
    /\ answered' = IF Head(line).reply = "NULL" THEN answered ELSE Append(answered, Head(line))

Next == (\E a \in Act : Submit(a)) \/ Serve

Spec == Init /\ [][Next]_vars

Progress == WF_vars(Serve)

FairSpec == Spec /\ Progress
=============================================================================
