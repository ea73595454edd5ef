---------------------------- MODULE GroupPlayTime ----------------------------
(***************************************************************************)
(* What a group of receivers promises about time.  A timeline begins with  *)
(* the first packet after an open or a flush; its place in the sender's    *)
(* clock is the line.  Every receiver that is told a place is told this    *)
(* one, however late it joins, and a new line begins only when no receiver *)
(* is left on the old one.  See docs/SYNC_ENGINE.md of the repository for  *)
(* the intent; the promise is taken from the sources AirPlayGroup models.  *)
(***************************************************************************)
EXTENDS Integers

CONSTANT Receiver

VARIABLES
  begun,  \* a timeline is in use
  line,   \* where its frame 0 lies in the sender's clock
  told    \* the receivers on a timeline, with the place each was told

vars == <<begun, line, told>>

Nobody == [r \in {} |-> 0]

Init == begun = FALSE /\ line = 0 /\ told = Nobody

\* A block for the receivers S; those not yet told the place are told it now.
Play(S) ==
  /\ begun' = TRUE
  /\ line' \in Int /\ (begun => line' = line)
  /\ told' = [r \in DOMAIN told \cup S |->
                IF r \in DOMAIN told THEN told[r] ELSE line']

\* Receivers leave: deselected, failed, or flushed one by one.
Leave(S) ==
  /\ told' = [r \in DOMAIN told \ S |-> told[r]]
  /\ UNCHANGED <<begun, line>>

\* The timeline ends for all of them at once.
End == begun' = FALSE /\ line' = 0 /\ told' = Nobody

Next ==
  \/ \E S \in SUBSET Receiver : Play(S)
  \/ \E S \in SUBSET Receiver : Leave(S)
  \/ End

Spec == Init /\ [][Next]_vars

\* Every receiver plays a frame at one time: all were told the same place.
OneLine == \A r \in DOMAIN told : begun /\ told[r] = line
===============================================================================
