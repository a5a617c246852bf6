---------------------------- MODULE MCGpioExint ----------------------------
(* Two lines, each the range of an interrupt: the handler of the first also *)
(* looks at the line of the second, and that of the second beyond the table. *)
EXTENDS GpioExint

OneLineEach == { [start |-> l, len |-> 1] : l \in Lines }

FewModes == {"disabled", "rise", "both", "unsupported"}
=============================================================================
