------------------------- MODULE MCZigbeeTransaction -------------------------
(* ZigbeeTransaction for TLC. *)
EXTENDS ZigbeeTransaction

(* The properties are checked on behaviours with at most two of the four   *)
(* kinds of race; states beyond are not explored further.                  *)
FewHazards == Cardinality(hazard) <= 2

(* Behaviours in which the window between the check of trans_id and the    *)
(* lock is the only race.                                                  *)
OnlyRaced == hazard \subseteq {"raced"}
=============================================================================
