--------------------------- MODULE PlaybackTimeline ---------------------------
(***************************************************************************)
(* What the output promises of the PCM it is given, without its threads,   *)
(* locks, queue and timers.                                                *)
(*                                                                         *)
(* The host writes frames in epochs; a seek or a new stream starts the     *)
(* next one.  The receivers play a timeline: the epoch they were last      *)
(* opened or flushed for.  Frames are committed to the network one packet  *)
(* at a time, only while the receivers' timeline is the host's epoch, in   *)
(* order and without a gap.  At most the one packet already committed is   *)
(* delivered after the host has moved on.                                  *)
(***************************************************************************)
EXTENDS Naturals

CONSTANT PacketFrames

VARIABLES
    written,    \* the epoch the host writes in
    accepted,   \* frames accepted in it
    live,       \* the receivers are open and nothing has failed
    timeline,   \* the epoch the receivers play
    delivered,  \* frames delivered since they were opened or flushed for it
    committed   \* frames of the packet under way

timelineVars == <<written, accepted, live, timeline, delivered, committed>>

Init ==
    /\ written = 0 /\ accepted = 0
    /\ live = FALSE
    /\ timeline = 0 /\ delivered = 0 /\ committed = 0

\* The host writes frames.
Accept ==
    /\ accepted' \in Nat
    /\ accepted' > accepted
    /\ UNCHANGED <<written, live, timeline, delivered, committed>>

\* The host flushes, stops or opens.
NewEpoch ==
    /\ written' = written + 1
    /\ accepted' = 0
    /\ UNCHANGED <<live, timeline, delivered, committed>>

\* The receivers are opened, or flushed, for the epoch of the moment.
Restart ==
    /\ committed = 0
    /\ live' = TRUE
    /\ timeline' = written
    /\ delivered' = 0
    /\ UNCHANGED <<written, accepted, committed>>

\* The next packet is on its way: its frames follow those delivered.
Commit ==
    /\ live
    /\ timeline = written
    /\ committed = 0
    /\ \E n \in 1 .. PacketFrames :
        /\ delivered + n <= accepted
        /\ committed' = n
    /\ UNCHANGED <<written, accepted, live, timeline, delivered>>

\* The packet arrives, whatever the host has done since.
Deliver ==
    /\ live
    /\ committed > 0
    /\ delivered' = delivered + committed
    /\ committed' = 0
    /\ UNCHANGED <<written, accepted, live, timeline>>

\* A failure or a stop: nothing more is delivered until a restart.
End ==
    /\ live' = FALSE
    /\ committed' = 0
    /\ UNCHANGED <<written, accepted, timeline, delivered>>

Next == Accept \/ NewEpoch \/ Restart \/ Commit \/ Deliver \/ End

Spec == Init /\ [][Next]_timelineVars
===============================================================================
