------------------------------ MODULE HostCalls ------------------------------
(***************************************************************************)
(* The order in which the output object drives the component state: what   *)
(* MultiroomOutput keeps to and ComponentState is written for.             *)
(*                                                                         *)
(* A stream is prepared, its render thread is started, and from then on    *)
(* that thread opens the receivers and plays.  A stop first cancels, which *)
(* may meet the thread anywhere, and ends only after it has met the        *)
(* thread's end; the next stream is prepared after that.  The stop of a    *)
(* failure, which the main thread makes, is not among these calls: it may  *)
(* come between any two of them.                                           *)
(***************************************************************************)

VARIABLES
    phase,      \* of the host: closed, prepared, or stopping
    stream      \* the render thread: none, running, or over

callsVars == <<phase, stream>>

Init == phase = "closed" /\ stream = "none"

\* prepare_playback_open()
Prepare ==
    /\ phase = "closed" /\ stream = "none"
    /\ phase' = "prepared"
    /\ UNCHANGED stream

\* The render thread, and with it open_playback_stream().
Start ==
    /\ phase = "prepared" /\ stream = "none"
    /\ stream' = "running"
    /\ UNCHANGED phase

\* The thread cannot be created: nothing to cancel and nothing to join.
StartFails ==
    /\ phase = "prepared" /\ stream = "none"
    /\ phase' = "stopping" /\ stream' = "over"

\* The thread ends, by a failure, by a cancel or because it is told to.
End ==
    /\ stream = "running"
    /\ stream' = "over"
    /\ UNCHANGED phase

\* cancel_pending_playback_open()
Cancel ==
    /\ phase = "prepared" /\ stream # "none"
    /\ phase' = "stopping"
    /\ UNCHANGED stream

\* The join of the thread, then stop_playback().
Stop ==
    /\ phase = "stopping" /\ stream = "over"
    /\ phase' = "closed" /\ stream' = "none"

Next == Prepare \/ Start \/ StartFails \/ End \/ Cancel \/ Stop

Spec == Init /\ [][Next]_callsVars
===============================================================================
