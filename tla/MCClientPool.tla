----------------------------- MODULE MCClientPool -----------------------------
(* ClientPool for TLC. *)
EXTENDS ClientPool

CONSTANT late   \* a pad that comes when the pool is full, if at all

(* Every passing property is about the time before the first overlap:      *)
(* afterwards the GQueue may be in any state.                              *)
BeforeOverlap == ~overlap

(* The late pad is refused; what would follow if it were let in is not     *)
(* explored.  A refusal changes nothing for the others, so it is enough to *)
(* follow it up while nothing has been asked.                              *)
LateRefused == conn[late] = "new" \/ (conn[late] = "closed" /\ nreq = 0 /\ nevt = 0)

(* One pad leaves, and its context may be taken over; when all have left   *)
(* there is nobody to look at.                                             *)
OneLeaves == \E k \in Conns \ {late} : conn[k] # "closed"
=============================================================================
