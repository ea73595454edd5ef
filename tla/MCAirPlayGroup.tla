---------------------------- MODULE MCAirPlayGroup ----------------------------
(* AirPlayGroup for TLC: two receivers, the second with a negative offset. *)
EXTENDS AirPlayGroup, TLC
CONSTANTS a, b
MCOutput == {a, b}
MCOffset == (a :> 0) @@ (b :> -1)
===============================================================================
