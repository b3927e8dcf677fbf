------------------------------ MODULE MCLinkage ------------------------------
(* Linkage for TLC. *)
EXTENDS Linkage

CONSTANTS d1, d2

Linked(modes, evt, dev, val) == [modes |-> modes, evt |-> evt, act |-> [dev |-> dev, val |-> val]]

(* The first device, turned on, turns itself off; turned off, it turns the *)
(* second on, or itself on again, which makes a circle.  The second,       *)
(* coming online, changes the mode of the box.                             *)
SomeRules ==
    [d \in Devs |->
        IF d = d1
        THEN { Linked({"home"}, 1, d1, 0), Linked({"home", "outside"}, 0, d2, 1), Linked({"home"}, 0, d1, 1) }
        ELSE { Linked({"home"}, ONLINE, Box, "outside") }]
=============================================================================
