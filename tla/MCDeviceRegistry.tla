--------------------------- MODULE MCDeviceRegistry ---------------------------
(* DeviceRegistry for TLC. *)
EXTENDS DeviceRegistry

(* Every passing property is about the time before the first race. *)
BeforeRace == ~race
=============================================================================
