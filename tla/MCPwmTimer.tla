---------------------------- MODULE MCPwmTimer ----------------------------
(* Instances of PwmTimer: a counter of four values. *)
EXTENDS PwmTimer
AllModes == {"up", "down", "two_way_1", "two_way_2", "two_way_3"}
=============================================================================
