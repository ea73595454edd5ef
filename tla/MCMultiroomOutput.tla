-------------------------- MODULE MCMultiroomOutput --------------------------
(* Instances of MultiroomOutput for TLC: a packet of two frames, a buffer of  *)
(* three, so that a whole packet, a short tail and a full buffer all occur.   *)
EXTENDS MultiroomOutput
=============================================================================
