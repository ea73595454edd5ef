--------------------------- MODULE MultiroomOutput ---------------------------
(***************************************************************************)
(* The foobar2000 output object of the component (multiroom_output.cpp).   *)
(*                                                                         *)
(* Three threads meet here.  The HOST thread calls the methods of the      *)
(* output one after the other.  The RENDER thread, started by open(),      *)
(* connects the receivers and then moves PCM packets from pcm_queue_ to    *)
(* them.  The MAIN thread runs the callback that report_playback_failure   *)
(* queues, and is where the user starts and stops playback.                *)
(*                                                                         *)
(* One action is one critical section of queue_mutex_, or one call into    *)
(* MultiroomComponentState made outside that lock.  A condition-variable   *)
(* wait is the guard of the action that follows it: every write to what    *)
(* the wait predicates read happens under queue_mutex_ and is followed by  *)
(* a notify.  Wall-clock time is abstracted: the pacing deadline passes at *)
(* any moment.                                                             *)
(***************************************************************************)
EXTENDS Integers, Sequences

CONSTANTS
    PacketFrames,   \* kAirPlayPacketFrames (352 in the code)
    Capacity,       \* capacity_frames_
    MaxWrite,       \* bound: frames the host offers in one write()
    MaxFrames,      \* bound: frames accepted in one epoch
    MaxEpoch        \* bound: epochs the host starts

\* capacity_frames_ is at least kMinimumBufferSeconds of audio, more than a packet.
ASSUME SizesAssumption ==
    /\ PacketFrames \in Nat \ {0}
    /\ Capacity \in Nat /\ Capacity >= PacketFrames
    /\ MaxWrite \in Nat /\ MaxFrames \in Nat /\ MaxEpoch \in Nat

VARIABLES
    \* Host thread: the step of the method it is in, what stop_stream() is part of
    \* and its local stop_transport.
    host, goal, stop_transport,
    \* Frames the host was last told it can write, 0 when it has to ask again.
    offer,
    \* State guarded by queue_mutex_.  worker_error_ and failure_stop_requested_
    \* are set and cleared together: worker_error stands for both.
    pcm_queue, started, stopping, paused, stream_open, force_play,
    flush_requested, pacing_reset, worker_error, stream_epoch,
    \* Render thread: control point, packet popped, its epoch, exception caught.
    render, packet, epoch, caught, in_flight_frames,
    \* MultiroomComponentState and playback_control, as this object sees them.
    transport, failure_stop_queued, callback, playing,
    \* History: frames accepted in stream_epoch; the epoch the receivers were
    \* last opened or flushed for; frames handed to them since.
    accepted, timeline, delivered

callVars == <<goal, stop_transport>>
hostVars == <<host, callVars, offer>>
streamVars == <<started, stopping, stream_open, worker_error>>
controlVars == <<paused, force_play, flush_requested, pacing_reset>>
pcmVars == <<pcm_queue, stream_epoch, accepted>>
packetVars == <<packet, epoch, in_flight_frames>>
renderVars == <<render, caught, packetVars>>
mainVars == <<failure_stop_queued, callback, playing>>
receiverVars == <<transport, timeline, delivered>>
\* What queue_mutex_ guards, and what a host or a render step leaves alone.
queueVars == <<streamVars, controlVars, pcmVars>>
notHostVars == <<renderVars, mainVars, receiverVars>>
notRenderVars == <<hostVars, mainVars>>
vars == <<hostVars, queueVars, renderVars, mainVars, receiverVars>>

\* A frame is told apart by the epoch it was written in and its place there.
Frame == [epoch : Nat, pos : Nat]

HostSteps == {"idle", "cancel", "join", "stop_transport",
              "prepare", "publish", "spawn"}
RenderSteps == {"none", "start", "opening", "loop", "flushing", "pacing",
                "check", "send", "sent", "catch", "report", "exit", "done"}

FlagsTyped ==
    /\ stop_transport \in BOOLEAN
    /\ started \in BOOLEAN /\ stopping \in BOOLEAN /\ paused \in BOOLEAN
    /\ stream_open \in BOOLEAN /\ force_play \in BOOLEAN
    /\ flush_requested \in BOOLEAN /\ pacing_reset \in BOOLEAN
    /\ worker_error \in BOOLEAN
    /\ failure_stop_queued \in BOOLEAN /\ playing \in BOOLEAN

ValuesTyped ==
    /\ host \in HostSteps /\ goal \in {"open", "close"} /\ offer \in 0 .. Capacity
    /\ pcm_queue \in Seq(Frame) /\ Len(pcm_queue) <= Capacity /\ stream_epoch \in Nat
    /\ render \in RenderSteps /\ packet \in Seq(Frame) /\ epoch \in Nat
    /\ caught \in {"none", "std", "other"}
    /\ in_flight_frames \in {0, PacketFrames}
    /\ transport \in {"closed", "open"}
    /\ callback \in {"none", "queued", "stopping"}
    /\ accepted \in Nat /\ timeline \in Nat /\ delivered \in Nat

\* The types of the variables, and the sizes the code gives them: the queue
\* never outgrows its capacity, and one packet at most is in flight.
TypeOK == FlagsTyped /\ ValuesTyped

-----------------------------------------------------------------------------

Init ==
    /\ host = "idle" /\ goal = "close" /\ stop_transport = FALSE /\ offer = 0
    /\ pcm_queue = <<>>
    /\ started = FALSE /\ stopping = TRUE /\ paused = FALSE
    /\ stream_open = FALSE /\ force_play = FALSE
    /\ flush_requested = FALSE /\ pacing_reset = TRUE
    /\ worker_error = FALSE
    /\ stream_epoch = 0
    /\ render = "none" /\ packet = <<>> /\ epoch = 0 /\ caught = "none"
    /\ in_flight_frames = 0
    /\ transport = "closed" /\ failure_stop_queued = FALSE
    /\ callback = "none" /\ playing = FALSE
    /\ accepted = 0 /\ timeline = 0 /\ delivered = 0

\* The lesser of two numbers (std::min).
Least(a, b) == IF a <= b THEN a ELSE b

\* Mutant: the frames already queued are not subtracted.
AvailableIgnoresQueue ==
    IF started /\ ~stopping /\ ~paused /\ ~worker_error THEN Capacity ELSE 0

\* The free part of the buffer, or 0 when write() would take nothing.
Available ==
    IF started /\ ~stopping /\ ~paused /\ ~worker_error /\ Capacity > Len(pcm_queue)
    THEN Capacity - Len(pcm_queue)
    ELSE 0

\* Mutant: the packet in flight is forgotten.
LatencyQueueOnly == Len(pcm_queue)

\* get_latency_samples
Latency == Len(pcm_queue) + in_flight_frames

\* render_thread_.joinable()
Joinable == render # "none"

\* Whether send_mutex_ is free: the render thread holds it around the check
\* and the transport call of a packet, and around a flush.
SendMutexFree == render \notin {"check", "send", "flushing"}

\* Every change of stream_epoch_ empties the queue and starts a new timeline.
NextEpoch ==
    /\ stream_epoch' = stream_epoch + 1
    /\ accepted' = 0
    /\ pcm_queue' = <<>>
    /\ force_play' = FALSE
    /\ pacing_reset' = TRUE

-----------------------------------------------------------------------------
(* Main thread: the user, and the callback queued by a failure.            *)

MainThreadFree == callback # "stopping"

\* The user starts playback (playback_control, outside the component).  The
\* device supports one stream: the output of a stopped playback closes first.
UserPlay ==
    /\ MainThreadFree
    /\ ~playing
    /\ host = "idle" /\ ~stream_open
    /\ stream_epoch + 2 <= MaxEpoch
    /\ playing' = TRUE
    /\ UNCHANGED <<hostVars, queueVars, renderVars, failure_stop_queued, callback,
                   receiverVars>>

\* The user stops playback; the host thread closes the output later.
UserStop ==
    /\ MainThreadFree
    /\ playing
    /\ playing' = FALSE
    /\ UNCHANGED <<hostVars, queueVars, renderVars, failure_stop_queued, callback,
                   receiverVars>>

\* Mutant: the flag that a stop is queued is not cleared.
FailureStopsHostOnce ==
    /\ callback = "queued"
    /\ playing
    /\ playing' = FALSE
    /\ callback' = "none"
    /\ UNCHANGED <<hostVars, queueVars, renderVars, failure_stop_queued, receiverVars>>

\* The queued callback finds foobar playing and stops it.  Nothing ties the
\* callback to the stream that failed: a newer one is stopped as well.
FailureStopsHost ==
    /\ callback = "queued"
    /\ playing
    /\ playing' = FALSE
    /\ callback' = "none"
    /\ failure_stop_queued' = FALSE
    /\ UNCHANGED <<hostVars, queueVars, renderVars, receiverVars>>

\* The queued callback finds foobar stopped and goes on to stop_playback().
FailureFindsStopped ==
    /\ callback = "queued"
    /\ ~playing
    /\ callback' = "stopping"
    /\ UNCHANGED <<hostVars, queueVars, renderVars, failure_stop_queued, playing,
                   receiverVars>>

\* stop_playback() on the main thread, then the end of the callback.
FailureStopsTransport ==
    /\ callback = "stopping"
    /\ transport' = "closed"
    /\ callback' = "none"
    /\ failure_stop_queued' = FALSE
    /\ UNCHANGED <<hostVars, queueVars, renderVars, playing, timeline, delivered>>

MainThread ==
    \/ UserPlay \/ UserStop
    \/ FailureStopsHost \/ FailureFindsStopped \/ FailureStopsTransport

-----------------------------------------------------------------------------
(* Host thread: the methods of the output.                                 *)

\* pause(state), which foobar calls when the state changes
Pause(state) ==
    /\ host = "idle"
    /\ state # paused
    /\ paused' = state
    /\ pacing_reset' = TRUE
    /\ offer' = 0
    /\ UNCHANGED <<host, callVars, streamVars, force_play, flush_requested, pcmVars,
                   notHostVars>>

\* can_write_samples()
CanWriteSamples ==
    /\ host = "idle"
    /\ offer' = Available
    /\ UNCHANGED <<host, callVars, queueVars, notHostVars>>

\* The frames a write() of n samples appends.
Written(n) ==
    [i \in 1 .. Least(n, Available) |->
        [epoch |-> stream_epoch, pos |-> accepted + i]]

\* write(data): what does not fit is dropped.
Write(n) ==
    /\ host = "idle"
    /\ Available > 0
    /\ accepted + n <= MaxFrames
    /\ pcm_queue' = pcm_queue \o Written(n)
    /\ accepted' = accepted + Least(n, Available)
    /\ offer' = 0
    /\ UNCHANGED <<host, callVars, streamVars, controlVars, stream_epoch,
                   notHostVars>>

\* on_flush()
OnFlush ==
    /\ host = "idle"
    /\ stream_epoch + 1 <= MaxEpoch
    /\ NextEpoch
    /\ flush_requested' = TRUE
    /\ offer' = 0
    /\ UNCHANGED <<host, callVars, streamVars, paused, notHostVars>>

\* on_force_play()
OnForcePlay ==
    /\ host = "idle"
    /\ force_play' = TRUE
    /\ offer' = 0
    /\ UNCHANGED <<host, callVars, streamVars, paused, flush_requested,
                   pacing_reset, pcmVars, notHostVars>>

\* The locked section of stop_stream().  The transport is stopped at the end
\* only if stream_open_ was set when the section was entered.
StopBegin(g) ==
    /\ host = "idle"
    /\ \/ g = "open" /\ playing /\ stream_epoch + 2 <= MaxEpoch
       \/ g = "close" /\ ~playing /\ stream_open
    /\ goal' = g
    /\ stop_transport' = stream_open
    /\ host' = IF Joinable THEN "cancel"
               ELSE IF stream_open THEN "stop_transport" ELSE "prepare"
    /\ offer' = 0
    /\ NextEpoch
    /\ stopping' = TRUE /\ started' = FALSE /\ stream_open' = FALSE
    /\ worker_error' = FALSE /\ flush_requested' = FALSE
    /\ UNCHANGED <<paused, notHostVars>>

\* cancel_pending_playback_open(): wakes a setup blocked on the network.
StopCancel ==
    /\ host = "cancel"
    /\ host' = "join"
    /\ UNCHANGED <<callVars, offer, queueVars, notHostVars>>

\* Mutant: the transport is left open behind the joined thread.
StopJoinForgetsTransport ==
    /\ host = "join"
    /\ render = "done"
    /\ render' = "none"
    /\ in_flight_frames' = 0
    /\ host' = IF goal = "open" THEN "prepare" ELSE "idle"
    /\ UNCHANGED <<callVars, offer, queueVars, caught, packet, epoch, mainVars,
                   receiverVars>>

\* render_thread_.join()
StopJoin ==
    /\ host = "join"
    /\ render = "done"
    /\ render' = "none"
    /\ in_flight_frames' = 0
    /\ host' = IF stop_transport THEN "stop_transport"
               ELSE IF goal = "open" THEN "prepare" ELSE "idle"
    /\ UNCHANGED <<callVars, offer, queueVars, caught, packet, epoch, mainVars,
                   receiverVars>>

\* stop_playback() under send_mutex_.  It may throw, which ends an open().
StopTransport ==
    /\ host = "stop_transport"
    /\ SendMutexFree
    /\ transport' = "closed"
    /\ host' \in {"idle"} \cup (IF goal = "open" THEN {"prepare"} ELSE {})
    /\ UNCHANGED <<callVars, offer, queueVars, renderVars, mainVars, timeline,
                   delivered>>

\* open(spec): prepare_playback_open()
OpenPrepare ==
    /\ host = "prepare"
    /\ host' = "publish"
    /\ UNCHANGED <<callVars, offer, queueVars, notHostVars>>

\* Mutant: the error of the stream before is kept.
OpenPublishKeepsError ==
    /\ host = "publish"
    /\ host' = "spawn"
    /\ NextEpoch
    /\ stopping' = FALSE /\ started' = TRUE /\ stream_open' = TRUE
    /\ flush_requested' = FALSE /\ paused' = FALSE
    /\ UNCHANGED <<callVars, offer, worker_error, notHostVars>>

\* open(spec): the new stream is published under queue_mutex_.
OpenPublish ==
    /\ host = "publish"
    /\ host' = "spawn"
    /\ NextEpoch
    /\ stopping' = FALSE /\ started' = TRUE /\ stream_open' = TRUE
    /\ worker_error' = FALSE /\ flush_requested' = FALSE /\ paused' = FALSE
    /\ UNCHANGED <<callVars, offer, notHostVars>>

\* open(spec): the render thread is started.
OpenSpawn ==
    /\ host = "spawn"
    /\ host' = "idle"
    /\ render' = "start"
    /\ UNCHANGED <<callVars, offer, queueVars, caught, packetVars, mainVars,
                   receiverVars>>

\* open(spec): the thread cannot be created.  stop_playback() follows, its
\* exceptions swallowed, and open() throws: the rest of a close.
OpenSpawnFails ==
    /\ host = "spawn"
    /\ host' = "stop_transport"
    /\ goal' = "close"
    /\ stopping' = TRUE /\ started' = FALSE /\ stream_open' = FALSE
    /\ UNCHANGED <<stop_transport, offer, worker_error, controlVars, pcmVars,
                   notHostVars>>

HostStop == StopCancel \/ StopJoin \/ StopTransport
HostOpen == OpenPrepare \/ OpenPublish \/ OpenSpawn \/ OpenSpawnFails

Host ==
    \/ \E state \in BOOLEAN : Pause(state)
    \/ CanWriteSamples
    \/ \E n \in 1 .. MaxWrite : Write(n)
    \/ OnFlush
    \/ OnForcePlay
    \/ \E g \in {"open", "close"} : StopBegin(g)
    \/ HostStop
    \/ HostOpen

-----------------------------------------------------------------------------
(* Render thread: render_loop().                                           *)

\* A render step that only moves the control point.
RenderGoto(from, to) ==
    /\ render = from
    /\ render' = to

\* What the exception handlers see; std says whether it derives from std::exception.
RenderThrows(from) ==
    /\ RenderGoto(from, "catch")
    /\ caught' \in {"std", "other"}

\* The thread ends at once if the stream was stopped before it ran.
RenderStart ==
    /\ render = "start"
    /\ render' = IF stopping THEN "done" ELSE "opening"
    /\ UNCHANGED <<notRenderVars, queueVars, caught, packetVars, receiverVars>>

\* open_playback_stream() connects the receivers.
OpenStream ==
    /\ RenderGoto("opening", "loop")
    /\ transport' = "open"
    /\ timeline' = stream_epoch
    /\ delivered' = 0
    /\ UNCHANGED <<notRenderVars, queueVars, caught, packetVars>>

\* open_playback_stream() throws: a network failure, or the setup is cancelled.
OpenStreamFails ==
    /\ RenderThrows("opening")
    /\ transport' = "closed"
    /\ UNCHANGED <<notRenderVars, queueVars, packetVars, timeline, delivered>>

\* Mutant: a stop is noticed only together with a packet to send.
LoopEndsWithPacket ==
    /\ RenderGoto("loop", "exit")
    /\ stopping /\ pcm_queue # <<>>
    /\ UNCHANGED <<notRenderVars, queueVars, caught, packetVars, receiverVars>>

\* while (!stopping_), and the break after the wait.
LoopEnds ==
    /\ RenderGoto("loop", "exit")
    /\ stopping
    /\ UNCHANGED <<notRenderVars, queueVars, caught, packetVars, receiverVars>>

\* Mutant: a short packet is never ready.
FullPacketReady == Len(pcm_queue) >= PacketFrames

\* A whole packet is queued, or the tail of the stream is forced out.
PacketReady ==
    \/ Len(pcm_queue) >= PacketFrames
    \/ force_play /\ pcm_queue # <<>>

\* Mutant: the flush branch is behind the pause.
FlushBeginUnpaused ==
    /\ RenderGoto("loop", "flushing")
    /\ ~stopping
    /\ flush_requested /\ ~paused
    /\ flush_requested' = FALSE
    /\ pacing_reset' = TRUE
    /\ UNCHANGED <<notRenderVars, streamVars, paused, force_play, pcmVars, caught,
                   packetVars, receiverVars>>

\* The flush branch: the flag is cleared before the receivers are flushed.
FlushBegin ==
    /\ RenderGoto("loop", "flushing")
    /\ ~stopping
    /\ flush_requested
    /\ flush_requested' = FALSE
    /\ pacing_reset' = TRUE
    /\ UNCHANGED <<notRenderVars, streamVars, paused, force_play, pcmVars, caught,
                   packetVars, receiverVars>>

\* flush_playback(): nothing happens to a transport that is not open.
FlushTransport ==
    /\ RenderGoto("flushing", "loop")
    /\ IF transport = "open"
       THEN timeline' = stream_epoch /\ delivered' = 0
       ELSE UNCHANGED <<timeline, delivered>>
    /\ UNCHANGED <<notRenderVars, queueVars, caught, packetVars, transport>>

FlushTransportFails ==
    /\ RenderThrows("flushing")
    /\ transport = "open"
    /\ UNCHANGED <<notRenderVars, queueVars, packetVars, receiverVars>>

\* The wait for the moment to send: the epoch it is for is remembered.
PacingBegin ==
    /\ RenderGoto("loop", "pacing")
    /\ ~stopping /\ ~flush_requested /\ ~paused
    /\ PacketReady
    /\ pacing_reset' = FALSE
    /\ epoch' = stream_epoch
    /\ UNCHANGED <<notRenderVars, streamVars, paused, force_play, flush_requested,
                   pcmVars, caught, packet, in_flight_frames, receiverVars>>

\* Mutant: a flush does not end the wait.
PacingIgnoresFlush == stopping \/ paused

\* The predicate of wait_until.
PacingInterrupted == stopping \/ paused \/ stream_epoch # epoch \/ pacing_reset

PacingRestarts ==
    /\ RenderGoto("pacing", "loop")
    /\ PacingInterrupted
    /\ UNCHANGED <<notRenderVars, queueVars, caught, packetVars, receiverVars>>

\* The deadline passes: a packet is popped, a short one padded with silence.
\* (The test for too few frames that precedes it is never true: what was chosen is still there.)
PopPacket ==
    LET count == Least(PacketFrames, Len(pcm_queue)) IN
    /\ RenderGoto("pacing", "check")
    /\ ~PacingInterrupted
    /\ PacketReady
    /\ packet' = SubSeq(pcm_queue, 1, count)
    /\ pcm_queue' = SubSeq(pcm_queue, count + 1, Len(pcm_queue))
    /\ force_play' = (force_play /\ Len(pcm_queue) > count)
    /\ in_flight_frames' = PacketFrames
    /\ UNCHANGED <<notRenderVars, streamVars, paused, flush_requested, pacing_reset,
                   stream_epoch, accepted, caught, epoch, receiverVars>>

\* Mutant: the epoch is not compared again before the packet is sent.
PacketCurrentIfRunning == ~stopping

\* packet_is_current, read under queue_mutex_ while send_mutex_ is held.
PacketIsCurrent == ~stopping /\ stream_epoch = epoch

\* Mutant: a packet that is not current is put back.
CheckPacketRequeues ==
    /\ render = "check"
    /\ render' = IF PacketIsCurrent THEN "send" ELSE "sent"
    /\ packet' = IF PacketIsCurrent THEN packet ELSE <<>>
    /\ pcm_queue' = IF PacketIsCurrent THEN pcm_queue ELSE packet \o pcm_queue
    /\ UNCHANGED <<notRenderVars, streamVars, controlVars, stream_epoch, accepted,
                   caught, epoch, in_flight_frames, receiverVars>>

CheckPacket ==
    /\ render = "check"
    /\ render' = IF PacketIsCurrent THEN "send" ELSE "sent"
    /\ packet' = IF PacketIsCurrent THEN packet ELSE <<>>
    /\ UNCHANGED <<notRenderVars, queueVars, caught, epoch, in_flight_frames,
                   receiverVars>>

\* write_playback_pcm(): a transport that is not open drops the packet silently.
SendPacket ==
    /\ RenderGoto("send", "sent")
    /\ delivered' = IF transport = "open" THEN delivered + Len(packet) ELSE delivered
    /\ packet' = <<>>
    /\ UNCHANGED <<notRenderVars, queueVars, caught, epoch, in_flight_frames,
                   transport, timeline>>

SendPacketFails ==
    /\ RenderThrows("send")
    /\ transport = "open"
    /\ packet' = <<>>
    /\ UNCHANGED <<notRenderVars, queueVars, epoch, in_flight_frames, receiverVars>>

PacketDone ==
    /\ RenderGoto("sent", "loop")
    /\ in_flight_frames' = 0
    /\ UNCHANGED <<notRenderVars, queueVars, caught, packet, epoch, receiverVars>>

\* The two handlers.  Only the one for std::exception recognises a cancelled
\* setup: an exception caught while stopping is not a failure.
Cancelled == caught = "std" /\ stopping

CatchException ==
    /\ render = "catch"
    /\ started' = FALSE
    /\ caught' = "none"
    /\ IF Cancelled
       THEN render' = "exit" /\ UNCHANGED worker_error
       ELSE render' = "report" /\ worker_error' = TRUE
    /\ UNCHANGED <<notRenderVars, stopping, stream_open, controlVars, pcmVars,
                   packetVars, receiverVars>>

\* report_playback_failure(): one stop is queued at a time.
ReportFailure ==
    /\ RenderGoto("report", "exit")
    /\ failure_stop_queued' = TRUE
    /\ callback' = IF failure_stop_queued THEN callback ELSE "queued"
    /\ UNCHANGED <<hostVars, queueVars, caught, packetVars, playing, receiverVars>>

RenderExit ==
    /\ RenderGoto("exit", "done")
    /\ in_flight_frames' = 0
    /\ UNCHANGED <<notRenderVars, queueVars, caught, packet, epoch, receiverVars>>

Render ==
    \/ RenderStart \/ OpenStream \/ OpenStreamFails
    \/ LoopEnds \/ FlushBegin \/ FlushTransport \/ FlushTransportFails
    \/ PacingBegin \/ PacingRestarts \/ PopPacket
    \/ CheckPacket \/ SendPacket \/ SendPacketFails \/ PacketDone
    \/ CatchException \/ ReportFailure \/ RenderExit

Next == MainThread \/ Host \/ Render

Spec == Init /\ [][Next]_vars

\* The threads are scheduled; every network operation ends by itself or by its
\* timeout; foobar runs queued callbacks and closes the output of a stopped
\* playback.  What the user and the decoder do is under no fairness.
Fairness ==
    /\ WF_vars(Render)
    /\ WF_vars(HostStop \/ HostOpen)
    /\ WF_vars(StopBegin("close"))
    /\ WF_vars(FailureStopsHost \/ FailureFindsStopped \/ FailureStopsTransport)

FairSpec == Spec /\ Fairness

-----------------------------------------------------------------------------
(* What makes the output correct.                                          *)

\* A packet about to reach an open transport holds consecutive frames of the
\* epoch the receivers were last opened or flushed for, and starts where the
\* packet before it ended: PCM written after a seek never overtakes the flush
\* of the receivers, PCM from before it never follows that flush, and between
\* two flushes no frame is lost, repeated or reordered (render_loop, on_flush).
PacketOnItsTimeline ==
    render = "send" /\ transport = "open" =>
        \A i \in 1 .. Len(packet) :
            packet[i] = [epoch |-> timeline, pos |-> delivered + i]

\* On an open, unflushed and healthy stream get_latency_samples() never
\* reports less than what was accepted by write() and not yet handed over.
LatencyCoversUndelivered ==
    transport = "open" /\ timeline = stream_epoch /\ started =>
        accepted - delivered <= Latency

\* When stop_stream() has returned, alone or inside open(), no render thread
\* is left and the receivers are closed.
StoppedMeansClosed ==
    \/ host \in {"prepare", "publish", "spawn"}
    \/ host = "idle" /\ ~stream_open
    => render = "none" /\ transport = "closed"

\* A stream that is_progressing() vouches for has a render thread at work, and
\* no error left by the stream before it.
ProgressHasRenderer ==
    started => /\ ~worker_error
               /\ \/ host = "spawn"
                  \/ render \notin {"none", "report", "exit", "done"}

\* What can_write_samples() promised still holds when write() is called: only
\* a failure of the render thread can take it back.
OfferStillHolds ==
    offer > 0 => worker_error \/ Available >= offer

\* A stop, alone or inside open(), ends even while receivers are connecting.
HostCallsEnd == host # "idle" ~> host = "idle"

\* A flush reaches the receivers, or the stream ends.
FlushReachesReceivers ==
    transport = "open" /\ timeline # stream_epoch ~>
        timeline = stream_epoch \/ transport = "closed" \/ worker_error

\* on_force_play() drains the queue to the last frame, short packet included.
ForcedTailDrains ==
    force_play /\ pcm_queue # <<>> ~>
        pcm_queue = <<>> \/ paused \/ stopping \/ worker_error

\* A failure of the render thread stops the playback it belongs to, also when
\* the stop queued for an earlier failure is still waiting.
FailureStopsPlayback == worker_error /\ stream_open ~> ~stream_open \/ ~playing

-----------------------------------------------------------------------------
(* The output implements PlaybackTimeline.                                 *)

Live == transport = "open" /\ render \notin {"catch", "report", "exit", "done", "none"}

Timeline == INSTANCE PlaybackTimeline WITH
    written <- stream_epoch,
    live <- Live,
    committed <- IF render = "send" /\ Live THEN Len(packet) ELSE 0

\* Whatever the threads do, the receivers are given what PlaybackTimeline allows.
ImplementsTimeline == Timeline!Spec

-----------------------------------------------------------------------------
(* The output drives the component state as HostCalls allows.              *)

CallPhase ==
    CASE host \in {"publish", "spawn", "cancel"} -> "prepared"
      [] host \in {"join", "stop_transport"} -> "stopping"
      [] host = "prepare" -> "closed"
      [] host = "idle" -> IF stream_open THEN "prepared" ELSE "closed"

\* A thread that is joined, or was never created, is over until stop_playback().
CallStream ==
    CASE render = "done" \/ host = "stop_transport" -> "over"
      [] render = "none" /\ host # "stop_transport" -> "none"
      [] OTHER -> "running"

Calls == INSTANCE HostCalls WITH phase <- CallPhase, stream <- CallStream

\* The calls into the component state come in the order it is written for: each
\* stop meets the end of the render thread, whatever became of that thread, and
\* no stream is prepared before that stop has returned (open, stop_stream).
CallsInOrder == Calls!Spec
=============================================================================
