--------------------------- MODULE MCVirtualSwitch ---------------------------
(* VirtualSwitch for TLC. *)
EXTENDS VirtualSwitch
=============================================================================
