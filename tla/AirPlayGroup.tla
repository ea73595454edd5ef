----------------------------- MODULE AirPlayGroup -----------------------------
(***************************************************************************)
(* The AirPlay side of a playback: registry selection, sessions of the     *)
(* session manager, connections of the RTSP client, engine clock and the   *)
(* group's timing anchor.  The operations are the critical sections of the *)
(* component state (its transport_mutex_ is free iff op = "idle"); what    *)
(* runs beside them is the host's cancel, which takes no lock, and a       *)
(* volume request that has read its session and not yet been sent.         *)
(*                                                                         *)
(* A session id is a number, 0 for the empty string.  An output's address, *)
(* the stream format, metadata and the record of queued packets are left   *)
(* out: within one stream the first two do not change, and no decision     *)
(* reads the others.  A connection's own handshake is RtspConnection.      *)
(***************************************************************************)
EXTENDS Integers, FiniteSets

CONSTANTS
  Output,        \* receivers the registry lists
  Offset,        \* their configured offset, in frames
  PacketFrames,  \* frames of one block
  MaxStreams, MaxSession, MaxCursor, MaxNow   \* bounds of the instance

ASSUME GroupAssumption ==
  /\ Output # {}
  /\ Offset \in [Output -> Int]
  /\ PacketFrames \in Nat \ {0}
  /\ MaxStreams \in Nat /\ MaxSession \in Nat /\ MaxCursor \in Nat /\ MaxNow \in Nat

VARIABLES
  playback,      \* closed, connecting, open, broken (its writer threw), failing
  op, who, todo, target,     \* the update under way, its caller, the outputs left
  selected,                  \* OutputRegistry, selected
  phase, open, rtsp_session_id,                \* AirPlaySessionState
  connection,                                  \* connections_: active session id
  ap2_sync_started, ap2_sync_start_rtp,        \* of the connection
  engine_open, frame_cursor,                   \* MultiroomEngine, SyncClock
  group_sync_anchor_valid, group_sync_start_rtp,
  cancel_open, cancel_client,                  \* the cancel flags of both layers
  canceller, pending, pending_cancelled,       \* cancel against the pending dial
  request,                                     \* volume request: output and id read
  now, streams, opened,                        \* clock and counters
  played, heard                   \* history

callVars == <<playback, op, who, todo, target>>
sessionVars == <<selected, phase, open, rtsp_session_id>>
connectionVars == <<connection, ap2_sync_started, ap2_sync_start_rtp>>
engineVars == <<engine_open, frame_cursor>>
anchorVars == <<group_sync_anchor_valid, group_sync_start_rtp>>
cancelVars == <<cancel_open, cancel_client, canceller, pending, pending_cancelled>>
boundVars == <<now, streams, opened>>
historyVars == <<played, heard>>
vars == <<callVars, sessionVars, connectionVars, engineVars, anchorVars,
          cancelVars, request, boundVars, historyVars>>

NoRequest == [on |-> FALSE, output |-> CHOOSE o \in Output : TRUE, id |-> 0]
NoPacket == [ts |-> -1, rtp |-> 0, at |-> 0]
SessionId == 0 .. MaxSession

PointsTyped ==
  /\ playback \in {"closed", "connecting", "open", "broken", "failing"}
  /\ op \in {"idle", "selected", "connect", "dial", "tune"}
  /\ who \in {"setup", "connecting update", "update"}
  /\ todo \in SUBSET Output /\ target \in Output
  /\ canceller \in {"idle", "client", "collect"}
  /\ pending \in {"none", "registered", "handshake"}

FlagsTyped ==
  /\ open \in [Output -> BOOLEAN] /\ ap2_sync_started \in [Output -> BOOLEAN]
  /\ engine_open \in BOOLEAN /\ group_sync_anchor_valid \in BOOLEAN
  /\ cancel_open \in BOOLEAN /\ cancel_client \in BOOLEAN /\ pending_cancelled \in BOOLEAN

SessionsTyped ==
  /\ selected \in SUBSET Output
  /\ phase \in [Output -> {"Closed", "Connecting", "Ready", "Failed"}]
  /\ rtsp_session_id \in [Output -> SessionId]

ConnectionsTyped ==
  /\ connection \in [Output -> SessionId] /\ ap2_sync_start_rtp \in [Output -> Int]
  /\ played \in [Output -> [ts : Int, rtp : Nat, at : Int]]

StreamTyped ==
  /\ frame_cursor \in Nat /\ group_sync_start_rtp \in Int
  /\ now \in Nat /\ streams \in Nat /\ opened \in SessionId

VolumeTyped ==
  /\ request \in [on : BOOLEAN, output : Output, id : SessionId]
  /\ heard \in [Output -> SessionId]

TypeOK ==
  /\ PointsTyped /\ FlagsTyped /\ SessionsTyped /\ ConnectionsTyped /\ StreamTyped
  /\ VolumeTyped

Init ==
  /\ playback = "closed" /\ op = "idle" /\ who = "update"
  /\ todo = {} /\ target = NoRequest.output /\ selected = {}
  /\ phase = [o \in Output |-> "Closed"] /\ open = [o \in Output |-> FALSE]
  /\ rtsp_session_id = [o \in Output |-> 0] /\ connection = [o \in Output |-> 0]
  /\ ap2_sync_started = [o \in Output |-> FALSE]
  /\ ap2_sync_start_rtp = [o \in Output |-> 0]
  /\ engine_open = FALSE /\ frame_cursor = 0
  /\ group_sync_anchor_valid = FALSE /\ group_sync_start_rtp = 0
  /\ cancel_open = FALSE /\ cancel_client = FALSE
  /\ canceller = "idle" /\ pending = "none" /\ pending_cancelled = FALSE
  /\ request = NoRequest /\ now = 0 /\ streams = 0 /\ opened = 0
  /\ played = [o \in Output |-> NoPacket]
  /\ heard = [o \in Output |-> 0]

-------------------------------------------------------------------------------
(* Sessions and connections *)

\* ready_output_ids(), and the test of every call that goes to a session.
ReadyOutputs == {o \in Output : phase[o] = "Ready" /\ open[o]}

\* close(): the client takes the connections of S out of its map.
CloseConnections(S) ==
  /\ connection' = [o \in Output |-> IF o \in S THEN 0 ELSE connection[o]]
  /\ ap2_sync_started' = [o \in Output |-> o \notin S /\ ap2_sync_started[o]]
  /\ ap2_sync_start_rtp' = [o \in Output |-> IF o \in S THEN 0 ELSE ap2_sync_start_rtp[o]]
  /\ played' = [o \in Output |-> IF o \in S THEN NoPacket ELSE played[o]]

\* close_control_session() and what follows it: the sessions S are closed, those
\* of `again' may be tried again.  The client is asked to close only a session
\* that is open or has an id.
CloseSessions(S, again) ==
  /\ phase' = [o \in Output |-> IF o \in S \cup again THEN "Closed" ELSE phase[o]]
  /\ open' = [o \in Output |-> o \notin S /\ open[o]]
  /\ rtsp_session_id' = [o \in Output |-> IF o \in S THEN 0 ELSE rtsp_session_id[o]]
  /\ CloseConnections({o \in S : open[o] \/ rtsp_session_id[o] # 0})

\* Mutant: the session stays ready.
FailSessionReady(o) ==
  /\ rtsp_session_id' = [rtsp_session_id EXCEPT ![o] = 0]
  /\ UNCHANGED <<phase, open>>

\* The session of o could not be opened; its connection, if it has one, stays.
FailSession(o) ==
  /\ phase' = [phase EXCEPT ![o] = "Failed"]
  /\ open' = [open EXCEPT ![o] = FALSE]
  /\ rtsp_session_id' = [rtsp_session_id EXCEPT ![o] = 0]

DropAnchor == group_sync_anchor_valid' = FALSE /\ group_sync_start_rtp' = 0

\* MultiroomEngine::open_stream(): the clock starts at 0.
OpenEngine == engine_open' = TRUE /\ frame_cursor' = 0

\* MultiroomEngine::stop() and AirPlayTransport::stop().
StopEngine ==
  /\ engine_open' = FALSE /\ frame_cursor' = 0
  /\ CloseSessions(Output, {})
  /\ DropAnchor

KeepStream == UNCHANGED <<engineVars, anchorVars, connectionVars, played>>

-------------------------------------------------------------------------------
(* Selection and connecting: playback setup and full control updates *)

\* prepare_playback_open(): the host resets the cancel flags, then starts setup.
Prepare ==
  /\ playback = "closed" /\ canceller = "idle" /\ streams < MaxStreams
  /\ cancel_open' = FALSE /\ cancel_client' = FALSE
  /\ playback' = "connecting" /\ streams' = streams + 1
  /\ UNCHANGED <<op, who, todo, target, sessionVars, connectionVars, engineVars, anchorVars,
                 canceller, pending, pending_cancelled, request, now, opened, historyVars>>

\* Who may begin an update: the setup once, the control worker when it is not
\* busy with a volume request; it connects if playback was and is open.
MayUpdate(caller) ==
  /\ op = "idle"
  /\ \/ caller = "setup" /\ playback = "connecting"
     \/ caller = "connecting update" /\ playback \in {"open", "broken"} /\ ~request.on
     \/ caller = "update" /\ ~request.on

\* set_enabled_outputs(): the registry takes the selection, a failed session of
\* it may be tried again, sessions outside it are closed.
SelectOutputs(caller, S) ==
  /\ MayUpdate(caller) /\ ~cancel_open
  /\ selected' = S
  /\ CloseSessions(Output \ S, {o \in S : phase[o] = "Failed"})
  /\ op' = "selected" /\ who' = caller
  /\ UNCHANGED <<playback, todo, target, engineVars, anchorVars, cancelVars, request,
                 boundVars, heard>>

\* The update of `caller' throws: a setup has to be unwound, an update is over.
UpdateThrows(caller) ==
  /\ op' = "idle" /\ todo' = {} /\ who' = "update"
  /\ playback' = IF caller = "setup" THEN "failing" ELSE playback
  /\ UNCHANGED target

\* prepare_outputs() sees a cancel between two outputs: the registry has the new
\* selection, the outputs before it are prepared, none is closed.
SelectCancelled(caller, S, done) ==
  /\ MayUpdate(caller) /\ cancel_open /\ done \subseteq S
  /\ selected' = S
  /\ phase' = [o \in Output |-> IF o \in done /\ phase[o] = "Failed" THEN "Closed" ELSE phase[o]]
  /\ UpdateThrows(caller)
  /\ KeepStream
  /\ UNCHANGED <<open, rtsp_session_id, cancelVars, request, boundVars, heard>>

\* A volume of the selection is refused: an unknown id, or a ready receiver that
\* does not answer.
VolumesFail ==
  /\ op = "selected"
  /\ UpdateThrows(who)
  /\ KeepStream
  /\ UNCHANGED <<sessionVars, cancelVars, request, boundVars, heard>>

\* An update of a closed playback stops here.
UpdateWithoutPlayback ==
  /\ op = "selected" /\ who = "update"
  /\ op' = "idle"
  /\ KeepStream
  /\ UNCHANGED <<playback, who, todo, target, sessionVars, cancelVars, request, boundVars,
                 heard>>

\* open_stream() for a setup (and for an update that finds no stream), then
\* connect_selected_outputs() with all selected outputs ahead of it.
StartConnecting ==
  /\ op = "selected" /\ who # "update"
  /\ op' = "connect" /\ todo' = selected
  /\ IF who = "setup" \/ ~engine_open
     THEN OpenEngine /\ DropAnchor
     ELSE UNCHANGED <<engineVars, anchorVars>>
  /\ UNCHANGED <<playback, who, target, sessionVars, connectionVars, cancelVars, request,
                 boundVars, historyVars>>

\* Mutant: every session is opened anew.
ReusableNever(o) == FALSE

\* can_reuse_ready_session: the session is ready and its connection open.
Reusable(o) == o \in ReadyOutputs

\* Such a session of a selected output is kept as it is.
ReuseSession(o) ==
  /\ op = "connect" /\ o \in todo /\ ~cancel_open /\ Reusable(o)
  /\ todo' = todo \ {o}
  /\ KeepStream
  /\ UNCHANGED <<playback, op, who, target, sessionVars, cancelVars, request, boundVars,
                 heard>>

\* The session is reset and the client asked to open a connection.
DialBegins(o) ==
  /\ op = "connect" /\ o \in todo /\ ~cancel_open /\ ~Reusable(o)
  /\ opened < MaxSession
  /\ phase' = [phase EXCEPT ![o] = "Connecting"]
  /\ open' = [open EXCEPT ![o] = FALSE]
  /\ rtsp_session_id' = [rtsp_session_id EXCEPT ![o] = 0]
  /\ op' = "dial" /\ target' = o
  /\ KeepStream
  /\ UNCHANGED <<playback, who, todo, selected, cancelVars, request, boundVars, heard>>

\* The connection is registered as pending, where a cancel can find it.
DialRegisters ==
  /\ op = "dial" /\ pending = "none"
  /\ pending' = "registered"
  /\ KeepStream
  /\ UNCHANGED <<callVars, sessionVars, cancel_open, cancel_client, canceller,
                 pending_cancelled, request, boundVars, heard>>

\* Mutant: the flag is read before the connection is registered.
DialUnchecked ==
  /\ op = "dial" /\ pending = "registered" /\ ~pending_cancelled
  /\ pending' = "handshake"
  /\ KeepStream
  /\ UNCHANGED <<callVars, sessionVars, cancel_open, cancel_client, canceller,
                 pending_cancelled, request, boundVars, heard>>

\* The client reads its cancel flag after it has registered the connection.  One
\* that is cancelled by then does not connect.
DialStarts ==
  /\ op = "dial" /\ pending = "registered" /\ ~pending_cancelled /\ ~cancel_client
  /\ pending' = "handshake"
  /\ KeepStream
  /\ UNCHANGED <<callVars, sessionVars, cancel_open, cancel_client, canceller,
                 pending_cancelled, request, boundVars, heard>>

\* The output is not fit for streaming, the connection cancelled or refused, the
\* handshake failed: only this session fails.
DialFails ==
  /\ op = "dial"
  /\ FailSession(target)
  /\ op' = "connect" /\ todo' = todo \ {target} /\ target' = NoRequest.output
  /\ pending' = "none" /\ pending_cancelled' = FALSE
  /\ KeepStream
  /\ UNCHANGED <<playback, who, selected, cancel_open, cancel_client, canceller,
                 request, boundVars, heard>>

\* The handshake succeeds, a cancel may have come too late for it.  The new
\* connection takes the place of one that was left behind.
DialOpens ==
  /\ op = "dial" /\ pending = "handshake"
  /\ opened' = opened + 1
  /\ phase' = [phase EXCEPT ![target] = "Ready"]
  /\ open' = [open EXCEPT ![target] = TRUE]
  /\ rtsp_session_id' = [rtsp_session_id EXCEPT ![target] = opened + 1]
  /\ connection' = [connection EXCEPT ![target] = opened + 1]
  /\ ap2_sync_started' = [ap2_sync_started EXCEPT ![target] = FALSE]
  /\ ap2_sync_start_rtp' = [ap2_sync_start_rtp EXCEPT ![target] = 0]
  /\ played' = [played EXCEPT ![target] = NoPacket]
  /\ heard' = [heard EXCEPT ![target] = 0]
  /\ op' = "tune" /\ pending' = "none" /\ pending_cancelled' = FALSE
  /\ UNCHANGED <<playback, who, todo, target, selected, engineVars, anchorVars, cancel_open,
                 cancel_client, canceller, request, now, streams>>

\* The first volume of a new session is accepted.
TuneOk ==
  /\ op = "tune"
  /\ heard' = [heard EXCEPT ![target] = rtsp_session_id[target]]
  /\ op' = "connect" /\ todo' = todo \ {target} /\ target' = NoRequest.output
  /\ KeepStream
  /\ UNCHANGED <<playback, who, sessionVars, cancelVars, request, boundVars>>

\* It is refused or not answered: the session counts as failed.
TuneFails ==
  /\ op = "tune"
  /\ FailSession(target)
  /\ op' = "connect" /\ todo' = todo \ {target} /\ target' = NoRequest.output
  /\ KeepStream
  /\ UNCHANGED <<playback, who, selected, cancelVars, request, boundVars, heard>>

\* The loop sees a cancel, also before an output that is not selected.
ConnectCancelled ==
  /\ op = "connect" /\ cancel_open /\ (todo # {} \/ selected # Output)
  /\ UpdateThrows(who)
  /\ KeepStream
  /\ UNCHANGED <<sessionVars, cancelVars, request, boundVars, heard>>

NoneConnected == selected # {} /\ selected \cap ReadyOutputs = {}

\* None of the selected receivers could be opened.
ConnectFails ==
  /\ op = "connect" /\ todo = {} /\ NoneConnected
  /\ UpdateThrows(who)
  /\ KeepStream
  /\ UNCHANGED <<sessionVars, cancelVars, request, boundVars, heard>>

\* A setup that was cancelled meanwhile stops the engine and fails.
ConnectedTooLate ==
  /\ op = "connect" /\ todo = {} /\ ~NoneConnected /\ who = "setup" /\ cancel_open
  /\ StopEngine
  /\ UpdateThrows(who)
  /\ UNCHANGED <<selected, cancelVars, request, boundVars, heard>>

\* At least one receiver is ready, or none was wanted.
Connected ==
  /\ op = "connect" /\ todo = {} /\ ~NoneConnected /\ (who = "setup" => ~cancel_open)
  /\ op' = "idle" /\ who' = "update"
  /\ playback' = IF who = "setup" THEN "open" ELSE playback
  /\ KeepStream
  /\ UNCHANGED <<todo, target, sessionVars, cancelVars, request, boundVars, heard>>

\* The handler of a setup that threw takes the lock again and stops the engine.
SetupUnwinds ==
  /\ playback = "failing" /\ op = "idle"
  /\ IF engine_open THEN StopEngine ELSE KeepStream /\ UNCHANGED <<phase, open, rtsp_session_id>>
  /\ playback' = "closed"
  /\ UNCHANGED <<op, who, todo, target, selected, cancelVars, request, boundVars, heard>>

Update ==
  \/ \E S \in SUBSET Output, caller \in {"setup", "connecting update", "update"} :
       \/ SelectOutputs(caller, S)
       \/ \E done \in SUBSET S : SelectCancelled(caller, S, done)
  \/ VolumesFail \/ UpdateWithoutPlayback \/ StartConnecting
  \/ \E o \in Output : ReuseSession(o) \/ DialBegins(o)
  \/ DialRegisters \/ DialStarts \/ DialFails \/ DialOpens \/ TuneOk \/ TuneFails
  \/ ConnectCancelled \/ ConnectFails \/ ConnectedTooLate \/ Connected \/ SetupUnwinds

-------------------------------------------------------------------------------
(* The stream *)

\* PacketScheduler::apply_offset(): a frame's time on an output, at least 0.
PresentationTimestamp(o, ts) == IF ts + Offset[o] < 0 THEN 0 ELSE ts + Offset[o]

\* Mutant: each block takes a new anchor.
NeedsAnchorAlways(valid) == TRUE

\* The group's anchor, the sender's clock at frame 0, is taken with the first block.
NeedsAnchor(valid) == ~valid

\* SyncClock::advance(), before the transport sees the block.
Advance == frame_cursor' = frame_cursor + PacketFrames

\* A connection takes the anchor with its first packet and keeps it.
SyncStart(o, start) == IF ap2_sync_started[o] THEN ap2_sync_start_rtp[o] ELSE start

\* What a receiver with this sync start plays: the frame and its time.
Packet(o, ts, start) ==
  [ts |-> ts, rtp |-> PresentationTimestamp(o, ts), at |-> start + PresentationTimestamp(o, ts)]

\* The block goes from receiver to receiver until one fails, which may have sent
\* its sync packet before.
Enqueued(outputs, synced, sent) ==
  /\ sent \subseteq synced /\ synced \subseteq outputs
  /\ Cardinality(synced \ sent) <= 1
  /\ synced # sent => sent # outputs

\* write_playback_pcm() and flush_playback(): with the transport's lock, for a
\* playback that is open; what they throw ends the render loop.
Called(completes) ==
  /\ op = "idle" /\ playback = "open"
  /\ playback' = IF completes THEN "open" ELSE "broken"

\* write_frames(): one packet for each ready output of the selection.
Write(synced, sent) ==
  LET outputs == selected \cap ReadyOutputs
      start == IF NeedsAnchor(group_sync_anchor_valid) THEN now - frame_cursor
               ELSE group_sync_start_rtp IN
  /\ Called(sent = outputs) /\ frame_cursor < MaxCursor
  /\ selected = {} \/ outputs # {}
  /\ Enqueued(outputs, synced, sent)
  /\ Advance
  /\ group_sync_anchor_valid' = TRUE /\ group_sync_start_rtp' = start
  /\ ap2_sync_started' = [o \in Output |-> o \in synced \/ ap2_sync_started[o]]
  /\ ap2_sync_start_rtp' =
       [o \in Output |-> IF o \in synced THEN SyncStart(o, start) ELSE ap2_sync_start_rtp[o]]
  /\ played' = [o \in Output |-> IF o \in sent
                                 THEN Packet(o, frame_cursor, SyncStart(o, start))
                                 ELSE played[o]]
  /\ UNCHANGED <<op, who, todo, target, sessionVars, connection, engine_open, cancelVars,
                 request, boundVars, heard>>

\* No selected output is ready: the clock has advanced, the stream is broken.
WriteFindsNone ==
  /\ Called(FALSE) /\ frame_cursor < MaxCursor
  /\ selected # {} /\ selected \cap ReadyOutputs = {}
  /\ Advance
  /\ UNCHANGED <<op, who, todo, target, sessionVars, connectionVars, engine_open, anchorVars,
                 cancelVars, request, boundVars, historyVars>>

\* Mutant: the group's anchor is dropped whatever the receivers answer.
FlushedWhatever(done) == TRUE

\* All ready connections have been flushed.
FlushedAll(done) == done = ReadyOutputs

\* flush(): the clock restarts, each ready connection drops the anchor in turn; a
\* request that fails leaves the rest and the group's anchor as they were.
Flush(done) ==
  /\ Called(FlushedAll(done)) /\ done \subseteq ReadyOutputs
  /\ frame_cursor' = 0
  /\ ap2_sync_started' = [o \in Output |-> o \notin done /\ ap2_sync_started[o]]
  /\ ap2_sync_start_rtp' = [o \in Output |-> IF o \in done THEN 0 ELSE ap2_sync_start_rtp[o]]
  /\ played' = [o \in Output |-> IF o \in done THEN NoPacket ELSE played[o]]
  /\ IF FlushedAll(done) THEN DropAnchor ELSE UNCHANGED anchorVars
  /\ UNCHANGED <<op, who, todo, target, sessionVars, connection, engine_open, cancelVars,
                 request, boundVars, heard>>

\* stop_playback(), the setup being over: all sessions and the flags.
Stop ==
  /\ op = "idle" /\ canceller = "idle" /\ playback \in {"closed", "open", "broken"}
  /\ IF playback = "closed" THEN KeepStream /\ UNCHANGED <<phase, open, rtsp_session_id>>
     ELSE StopEngine
  /\ playback' = "closed" /\ cancel_open' = FALSE /\ cancel_client' = FALSE
  /\ UNCHANGED <<op, who, todo, target, selected, canceller, pending, pending_cancelled,
                 request, boundVars, heard>>

Tick ==
  /\ now < MaxNow /\ now' = now + 1
  /\ UNCHANGED <<callVars, sessionVars, connectionVars, engineVars, anchorVars, cancelVars,
                 request, streams, opened, historyVars>>

Stream ==
  \/ \E synced \in SUBSET Output : \E sent \in SUBSET synced : Write(synced, sent)
  \/ WriteFindsNone \/ (\E done \in SUBSET Output : Flush(done)) \/ Stop \/ Tick

-------------------------------------------------------------------------------
(* Cancel and volume, without the transport's lock *)

KeepCall ==
  UNCHANGED <<callVars, sessionVars, connectionVars, engineVars, anchorVars, boundVars,
              played>>

\* cancel_pending_open() of the session manager.
CancelBegins ==
  /\ canceller = "idle" /\ playback # "closed"
  /\ cancel_open' = TRUE /\ canceller' = "client"
  /\ KeepCall /\ UNCHANGED <<cancel_client, pending, pending_cancelled, request, heard>>

\* cancel_pending_open() of the client: its flag first ...
CancelFlags ==
  /\ canceller = "client"
  /\ cancel_client' = TRUE /\ canceller' = "collect"
  /\ KeepCall /\ UNCHANGED <<cancel_open, pending, pending_cancelled, request, heard>>

\* ... then the connections that are pending.
CancelCollects ==
  /\ canceller = "collect"
  /\ canceller' = "idle"
  /\ pending_cancelled' = (pending_cancelled \/ pending # "none")
  /\ KeepCall /\ UNCHANGED <<cancel_open, cancel_client, pending, request, heard>>

\* set_volume() reads the session under the manager's lock, which a connect holds,
\* and lets go of it.
VolumeReads(o) ==
  /\ ~request.on /\ o \in ReadyOutputs
  /\ op \in {"idle", "selected"} /\ (op = "selected" => who = "setup")
  /\ request' = [on |-> TRUE, output |-> o, id |-> rtsp_session_id[o]]
  /\ KeepCall /\ UNCHANGED <<cancelVars, heard>>

\* Mutant: it is sent to whatever session the output has.
SameSessionAny(o, id) == connection[o] # 0

\* matches_active_rtsp_session() of the output's connection.
SameSession(o, id) == connection[o] # 0 /\ connection[o] = id

\* The client sends it if the output's connection still has that session.
VolumeSent ==
  /\ request.on
  /\ LET o == request.output IN
     heard' = IF SameSession(o, request.id)
              THEN [heard EXCEPT ![o] = request.id] ELSE heard
  /\ request' = NoRequest
  /\ KeepCall /\ UNCHANGED cancelVars

Beside == CancelBegins \/ CancelFlags \/ CancelCollects
          \/ (\E o \in Output : VolumeReads(o)) \/ VolumeSent

Next == Prepare \/ Update \/ Stream \/ Beside

Spec == Init /\ [][Next]_vars

-------------------------------------------------------------------------------
(* Properties *)

\* A session that counts as ready has a connection, and this connection is in
\* the session the manager knows: audio and requests of the group reach the
\* receiver (enqueue(), set_volume(), flush() of the session manager).
ReadyHasConnection ==
  \A o \in ReadyOutputs : connection[o] = rtsp_session_id[o] /\ connection[o] # 0

\* Two ready receivers that have played the same frame played it at one time, up
\* to their configured offsets; a clamped negative offset excepted.
PlayedTogether ==
  \A o, q \in ReadyOutputs :
    LET plays(r) == played[r].ts >= 0 /\ played[r].ts + Offset[r] >= 0 IN
    plays(o) /\ plays(q) /\ played[o].ts = played[q].ts
      => played[o].at - Offset[o] = played[q].at - Offset[q]

\* A cancel that has returned is known to the connection under way, whichever of
\* registration, flag and collection came first.
CancelHeard ==
  cancel_client /\ canceller = "idle" /\ pending = "handshake" => pending_cancelled

\* A volume reaches the session it was meant for, never a later one of the output.
VolumeOnItsSession ==
  \A o \in Output : heard[o] # 0 /\ connection[o] # 0 => heard[o] = connection[o]

\* A ready receiver that stays selected keeps its session and connection through
\* updates, failures of others and cancels, as long as the stream is not stopped.
\* (One whose first volume is under way is not ready yet: nobody has seen it so.)
StaysReady ==
  \A o \in selected \cap selected' :
    o \in ReadyOutputs /\ engine_open' /\ ~(op = "tune" /\ target = o)
      => phase'[o] = "Ready" /\ open'[o] /\ connection'[o] = connection[o]
ReadyStays == [][StaysReady]_vars

\* After a stop no receiver is left with a session (docs/ROADMAP.md:37).
StopLeavesNoConnection ==
  playback = "closed" /\ op = "idle" => \A o \in Output : connection[o] = 0

\* The group implements common play time: the line is the anchor, a receiver is on
\* it when its connection has sent its first sync packet.
OnTime == {o \in ReadyOutputs : ap2_sync_started[o]}
Time == INSTANCE GroupPlayTime WITH
  Receiver <- Output, begun <- group_sync_anchor_valid, line <- group_sync_start_rtp,
  told <- [o \in OnTime |-> ap2_sync_start_rtp[o]]
CommonPlayTime == Time!Spec
===============================================================================
