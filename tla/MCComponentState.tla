--------------------------- MODULE MCComponentState ---------------------------
(* The instance of ComponentState that TLC checks. *)
EXTENDS ComponentState, TLC

\* The receivers are told apart by nothing but their identity.
Receivers == Permutations(Output)
===============================================================================
