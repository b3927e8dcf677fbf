----------------------------- MODULE MCTcpFraming -----------------------------
(* TcpFraming for TLC: commands of every class and shape. *)
EXTENDS TcpFraming

GetDevs == <<34833, 4>>
GetStatus == <<HSB_CMD_GET_STATUS, 8, 1, 0>>
SwitchOn == <<HSB_CMD_SET_STATUS, 12, 1, 0, 0, 1>>
(* A colour whose value is the code of GET_DEVS, and then switch off. *)
ColourThenOff == <<HSB_CMD_SET_STATUS, 16, 1, 0, 2, 34833, 0, 0>>
(* A key that remote control 0 does not have. *)
UnknownKey == <<HSB_CMD_DO_ACTION, 16, 1, 0, 1, 0, 12, 0>>
(* A key code of remote control 1 that reads like a packet GET_DEVS. *)
OddKey == <<HSB_CMD_DO_ACTION, 16, 1, 0, 1, 1, 34833, 4>>

MCPackets == {GetDevs, GetStatus, SwitchOn, ColourThenOff, UnknownKey, OddKey}
=============================================================================
