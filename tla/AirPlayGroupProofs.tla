-------------------------- MODULE AirPlayGroupProofs --------------------------
(***************************************************************************)
(* Proofs about AirPlayGroup, for every group of receivers, every offset   *)
(* and every bound.  What a group promises is not inductive: that two      *)
(* receivers play together depends on the anchor each of them was given,   *)
(* the anchor on nobody being left on the one before when it is dropped,   *)
(* and this on sessions that are not ready having no packet sent, which    *)
(* the steps of an update keep up.                                         *)
(***************************************************************************)
EXTENDS AirPlayGroup, TLAPS

\* The groups of variables only shorten UNCHANGED: they are never folded.
USE DEF callVars, sessionVars, connectionVars, engineVars, anchorVars, cancelVars,
        boundVars, historyVars

-----------------------------------------------------------------------------
(* The inductive invariant.                                                *)

\* Updates that connect belong to a playback that is set up or open, with a
\* stream of the engine; there is none while a setup has not begun to connect.
Phases ==
  /\ op \in {"connect", "dial", "tune"} => who # "update" /\ engine_open
  /\ op # "idle" /\ who = "setup" => playback = "connecting"
  /\ op # "idle" /\ who = "connecting update" => playback \in {"open", "broken"}
  /\ playback = "closed" => ~engine_open
  /\ playback = "connecting" /\ op \in {"idle", "selected"} => ~engine_open

\* A session id is left for the connection under way (a bound of the instance).
DialBound == op = "dial" => opened < MaxSession

\* Sessions are ready for a stream of the engine alone; the output that is dialed
\* is not ready, the one that is tuned is, and has sent nothing.
Sessions ==
  /\ ~engine_open => ReadyOutputs = {}
  /\ op = "dial" => target \notin ReadyOutputs
  /\ op = "tune" => target \in ReadyOutputs /\ ~ap2_sync_started[target]

\* A connection that has taken an anchor is the one of a ready session, and the
\* anchor is the group's.
OneAnchor ==
  \A o \in Output : ap2_sync_started[o] =>
    /\ o \in ReadyOutputs
    /\ group_sync_anchor_valid /\ ap2_sync_start_rtp[o] = group_sync_start_rtp

\* What a receiver plays has its time from the anchor of its connection.
PlayedFromAnchor ==
  \A o \in Output : played[o].ts >= 0 =>
    /\ ap2_sync_started[o]
    /\ played[o].at = ap2_sync_start_rtp[o] + PresentationTimestamp(o, played[o].ts)

\* A cancel that has set the client's flag has marked the connection under way, or
\* is about to.
CancelMarks ==
  cancel_client /\ canceller # "collect" /\ pending = "handshake" => pending_cancelled

Inv ==
  /\ TypeOK /\ Phases /\ DialBound /\ Sessions /\ ReadyHasConnection
  /\ OneAnchor /\ PlayedFromAnchor /\ VolumeOnItsSession /\ CancelMarks

-----------------------------------------------------------------------------
(* The initial states.                                                     *)

\* Any output will do for a request that is not made.
LEMMA NoRequestType == NoRequest \in [on : BOOLEAN, output : Output, id : SessionId]
BY GroupAssumption DEF NoRequest, SessionId

\* The id of no session, and the next one when a connection is under way.
LEMMA NoId == 0 \in SessionId
BY GroupAssumption DEF SessionId

\* The id of the next connection.
LEMMA NextId == StreamTyped /\ DialBound /\ op = "dial" => opened + 1 \in SessionId
BY GroupAssumption DEF SessionId, StreamTyped, DialBound

LEMMA NextIdPositive == StreamTyped => opened + 1 \in Nat \ {0}
BY GroupAssumption DEF SessionId, StreamTyped

\* Nothing is open, played or asked for at the start.
LEMMA InitInv == Init => Inv
<1>1. Init => TypeOK
  <2>1. Init => FlagsTyped
    BY Zenon DEF Init, FlagsTyped
  <2>2. Init => PointsTyped /\ SessionsTyped /\ StreamTyped
    BY NoRequestType, GroupAssumption
    DEF Init, PointsTyped, SessionsTyped, StreamTyped, SessionId
  <2>3. Init => ConnectionsTyped /\ VolumeTyped
    BY NoRequestType, GroupAssumption
    DEF Init, ConnectionsTyped, VolumeTyped, SessionId, NoPacket
  <2>. QED BY <2>1, <2>2, <2>3 DEF TypeOK
<1>2. Init => Phases /\ DialBound /\ CancelMarks
  BY DEF Init, Phases, DialBound, CancelMarks
<1>3. Init => Sessions /\ ReadyHasConnection
  BY DEF Init, Sessions, ReadyHasConnection, ReadyOutputs
<1>4. Init => OneAnchor /\ PlayedFromAnchor /\ VolumeOnItsSession
  BY DEF Init, OneAnchor, PlayedFromAnchor, VolumeOnItsSession, NoPacket
<1>. QED BY <1>1, <1>2, <1>3, <1>4 DEF Inv

-----------------------------------------------------------------------------
(* The steps.                                                              *)

\* The control points keep their types.
LEMMA PointsType == TypeOK /\ Next => PointsTyped'
<1> SUFFICES ASSUME TypeOK, Next PROVE PointsTyped'
  OBVIOUS
<1> USE NoRequestType DEF TypeOK, PointsTyped, SessionsTyped
<1>1. CASE Prepare
  BY <1>1 DEF Prepare
<1>2. ASSUME NEW S \in SUBSET Output,
             NEW caller \in {"setup", "connecting update", "update"}, SelectOutputs(caller, S)
      PROVE PointsTyped'
  BY <1>2 DEF SelectOutputs, MayUpdate
<1>3. ASSUME NEW S \in SUBSET Output, NEW done \in SUBSET S,
             NEW caller \in {"setup", "connecting update", "update"}, SelectCancelled(caller, S, done)
      PROVE PointsTyped'
  BY <1>3 DEF SelectCancelled, MayUpdate, UpdateThrows, KeepStream
<1>4. CASE VolumesFail
  BY <1>4 DEF VolumesFail, UpdateThrows, KeepStream
<1>5. CASE UpdateWithoutPlayback
  BY <1>5 DEF UpdateWithoutPlayback, KeepStream
<1>6. CASE StartConnecting
  BY <1>6 DEF StartConnecting
<1>7. ASSUME NEW o \in Output, ReuseSession(o) PROVE PointsTyped'
  BY <1>7 DEF ReuseSession, KeepStream
<1>8. ASSUME NEW o \in Output, DialBegins(o) PROVE PointsTyped'
  BY <1>8 DEF DialBegins, KeepStream
<1>9. CASE DialRegisters
  BY <1>9 DEF DialRegisters, KeepStream
<1>10. CASE DialStarts
  BY <1>10 DEF DialStarts, KeepStream
<1>11. CASE DialFails
  BY <1>11 DEF DialFails, KeepStream
<1>12. CASE DialOpens
  BY <1>12 DEF DialOpens, NoPacket
<1>13. CASE TuneOk
  BY <1>13 DEF TuneOk, KeepStream
<1>14. CASE TuneFails
  BY <1>14 DEF TuneFails, KeepStream
<1>15. CASE ConnectCancelled
  BY <1>15 DEF ConnectCancelled, UpdateThrows, KeepStream
<1>16. CASE ConnectFails
  BY <1>16 DEF ConnectFails, UpdateThrows, KeepStream
<1>17. CASE ConnectedTooLate
  BY <1>17 DEF ConnectedTooLate, UpdateThrows
<1>18. CASE Connected
  BY <1>18 DEF Connected, KeepStream
<1>19. CASE SetupUnwinds
  BY <1>19 DEF SetupUnwinds, KeepStream
<1>20. ASSUME NEW synced \in SUBSET Output, NEW sent \in SUBSET synced, Write(synced, sent)
      PROVE PointsTyped'
  BY <1>20 DEF Write, Called, Advance
<1>21. CASE WriteFindsNone
  BY <1>21 DEF WriteFindsNone, Called, Advance
<1>22. ASSUME NEW done \in SUBSET Output, Flush(done) PROVE PointsTyped'
  BY <1>22 DEF Flush, Called, NoPacket
<1>23. CASE Stop
  BY <1>23 DEF Stop, KeepStream
<1>24. CASE CancelBegins
  BY <1>24 DEF CancelBegins, KeepCall
<1>25. CASE CancelFlags
  BY <1>25 DEF CancelFlags, KeepCall
<1>26. CASE CancelCollects
  BY <1>26 DEF CancelCollects, KeepCall
<1>27. ASSUME NEW o \in Output, VolumeReads(o) PROVE PointsTyped'
  BY <1>27 DEF VolumeReads, KeepCall
<1>28. CASE Tick \/ VolumeSent
  <2>1. UNCHANGED <<callVars, cancelVars>>
    BY <1>28, Zenon DEF Tick, VolumeSent, KeepCall
  <2>. QED BY <2>1 DEF callVars, cancelVars
<1> HIDE DEF TypeOK, PointsTyped, SessionsTyped
<1>. QED BY <1>1, <1>2, <1>3, <1>4, <1>5, <1>6, <1>7, <1>8, <1>9, <1>10, <1>11, <1>12, <1>13,
     <1>14, <1>15, <1>16, <1>17, <1>18, <1>19, <1>20, <1>21, <1>22, <1>23, <1>24, <1>25, <1>26,
     <1>27, <1>28
  DEF Next, Update, Stream, Beside

\* The flags.
LEMMA FlagsType == TypeOK /\ Next => FlagsTyped'
<1> SUFFICES ASSUME TypeOK, Next PROVE FlagsTyped'
  OBVIOUS
<1> USE DEF TypeOK, FlagsTyped
<1>1. CASE Prepare
  BY <1>1, Zenon DEF Prepare
<1>2. ASSUME NEW S \in SUBSET Output,
             NEW caller \in {"setup", "connecting update", "update"}, SelectOutputs(caller, S)
      PROVE FlagsTyped'
  BY <1>2, Zenon DEF SelectOutputs, CloseSessions, CloseConnections, NoPacket
<1>3. CASE StartConnecting
  BY <1>3, Zenon DEF StartConnecting, OpenEngine, DropAnchor
<1>4. ASSUME NEW o \in Output, DialBegins(o) PROVE FlagsTyped'
  BY <1>4, Zenon DEF DialBegins, KeepStream
<1>5. CASE DialFails
  BY <1>5, Zenon DEF DialFails, FailSession, KeepStream
<1>6. CASE DialOpens
  BY <1>6, Zenon DEF DialOpens, NoPacket
<1>7. CASE TuneFails
  BY <1>7, Zenon DEF TuneFails, FailSession, KeepStream
<1>8. CASE ConnectedTooLate
  BY <1>8, Zenon DEF ConnectedTooLate, StopEngine, CloseSessions, CloseConnections, NoPacket,
    DropAnchor
<1>9. CASE SetupUnwinds
  BY <1>9, Zenon DEF SetupUnwinds, StopEngine, CloseSessions, CloseConnections, NoPacket,
    DropAnchor, KeepStream
<1>10. ASSUME NEW synced \in SUBSET Output, NEW sent \in SUBSET synced, Write(synced, sent)
      PROVE FlagsTyped'
  BY <1>10, Zenon DEF Write, Called, Advance
<1>11. ASSUME NEW done \in SUBSET Output, Flush(done) PROVE FlagsTyped'
  BY <1>11, Zenon DEF Flush, Called, NoPacket, DropAnchor
<1>12. CASE Stop
  BY <1>12, Zenon DEF Stop, KeepStream, StopEngine, CloseSessions, CloseConnections, NoPacket,
    DropAnchor
<1>13. CASE CancelBegins
  BY <1>13, Zenon DEF CancelBegins, KeepCall
<1>14. CASE CancelFlags
  BY <1>14, Zenon DEF CancelFlags, KeepCall
<1>15. CASE CancelCollects
  BY <1>15, Zenon DEF CancelCollects, KeepCall
<1>16. ASSUME NEW S \in SUBSET Output, NEW done \in SUBSET S,
             NEW caller \in {"setup", "connecting update", "update"}, SelectCancelled(caller, S, done)
      PROVE  FlagsTyped'
  BY <1>16, Zenon DEF SelectCancelled, KeepStream
<1>17. ASSUME NEW o \in Output, ReuseSession(o) PROVE FlagsTyped'
  BY <1>17, Zenon DEF ReuseSession, KeepStream
<1>18. ASSUME NEW o \in Output, VolumeReads(o) PROVE FlagsTyped'
  BY <1>18, Zenon DEF VolumeReads, KeepCall
<1>19. CASE VolumesFail \/ UpdateWithoutPlayback \/ DialRegisters \/ DialStarts \/ TuneOk
          \/ ConnectCancelled \/ ConnectFails \/ Connected \/ WriteFindsNone \/ Tick
          \/ VolumeSent
  BY <1>19, Zenon DEF VolumesFail, KeepStream, UpdateWithoutPlayback, DialRegisters,
    DialStarts, TuneOk, ConnectCancelled, ConnectFails, Connected, WriteFindsNone, Called,
    Advance, Tick, VolumeSent, KeepCall
<1> HIDE DEF TypeOK, FlagsTyped
<1>. QED BY <1>1, <1>2, <1>3, <1>4, <1>5, <1>6, <1>7, <1>8, <1>9, <1>10, <1>11, <1>12, <1>13,
     <1>14, <1>15, <1>16, <1>17, <1>18, <1>19
  DEF Next, Update, Stream, Beside

\* The clock, the anchor and the counters.
LEMMA StreamType == TypeOK /\ DialBound /\ Next => StreamTyped'
<1> SUFFICES ASSUME TypeOK, DialBound, Next PROVE StreamTyped'
  OBVIOUS
<1> USE GroupAssumption DEF TypeOK, StreamTyped, DialBound, SessionId
<1>1. CASE Prepare
  BY <1>1 DEF Prepare
<1>2. CASE StartConnecting
  BY <1>2 DEF StartConnecting, OpenEngine, DropAnchor
<1>3. CASE DialOpens
  BY <1>3 DEF DialOpens, NoPacket
<1>4. CASE ConnectedTooLate
  BY <1>4 DEF ConnectedTooLate, StopEngine, DropAnchor
<1>5. CASE SetupUnwinds
  BY <1>5 DEF SetupUnwinds, StopEngine, DropAnchor, KeepStream
<1>6. ASSUME NEW synced \in SUBSET Output, NEW sent \in SUBSET synced, Write(synced, sent)
      PROVE StreamTyped'
  BY <1>6 DEF Write, Called, Advance
<1>7. CASE WriteFindsNone
  BY <1>7 DEF WriteFindsNone, Called, Advance
<1>8. ASSUME NEW done \in SUBSET Output, Flush(done) PROVE StreamTyped'
  BY <1>8 DEF Flush, Called, NoPacket, DropAnchor
<1>9. CASE Stop
  BY <1>9 DEF Stop, KeepStream, StopEngine, DropAnchor
<1>10. CASE Tick
  BY <1>10 DEF Tick
<1>11. ASSUME NEW S \in SUBSET Output,
             NEW caller \in {"setup", "connecting update", "update"}, SelectOutputs(caller, S)
      PROVE  StreamTyped'
  BY <1>11 DEF SelectOutputs
<1>12. ASSUME NEW S \in SUBSET Output, NEW done \in SUBSET S,
             NEW caller \in {"setup", "connecting update", "update"}, SelectCancelled(caller, S, done)
      PROVE  StreamTyped'
  BY <1>12 DEF SelectCancelled, KeepStream
<1>13. ASSUME NEW o \in Output, ReuseSession(o) PROVE StreamTyped'
  BY <1>13 DEF ReuseSession, KeepStream
<1>14. ASSUME NEW o \in Output, DialBegins(o) PROVE StreamTyped'
  BY <1>14 DEF DialBegins, KeepStream
<1>15. ASSUME NEW o \in Output, VolumeReads(o) PROVE StreamTyped'
  BY <1>15 DEF VolumeReads, KeepCall
<1>16. CASE VolumesFail \/ UpdateWithoutPlayback \/ DialRegisters \/ DialStarts
          \/ DialFails \/ TuneOk \/ TuneFails \/ ConnectCancelled \/ ConnectFails
          \/ Connected \/ CancelBegins \/ CancelFlags \/ CancelCollects \/ VolumeSent
  BY <1>16 DEF VolumesFail, KeepStream, UpdateWithoutPlayback, DialRegisters, DialStarts,
    DialFails, TuneOk, TuneFails, ConnectCancelled, ConnectFails, Connected, CancelBegins,
    KeepCall, CancelFlags, CancelCollects, VolumeSent
<1> HIDE DEF TypeOK, StreamTyped, DialBound, SessionId
<1>. QED BY <1>1, <1>2, <1>3, <1>4, <1>5, <1>6, <1>7, <1>8, <1>9, <1>10, <1>11, <1>12, <1>13,
     <1>14, <1>15, <1>16
  DEF Next, Update, Stream, Beside

\* The volume request, and what was heard.
LEMMA VolumeType == TypeOK /\ Next => VolumeTyped'
<1> SUFFICES ASSUME TypeOK, Next PROVE VolumeTyped'
  OBVIOUS
<1> USE NoRequestType, NoId DEF TypeOK, VolumeTyped, PointsTyped, SessionsTyped
<1>1. CASE DialOpens
  BY <1>1 DEF DialOpens, NoPacket
<1>2. CASE TuneOk
  BY <1>2 DEF TuneOk, KeepStream
<1>3. ASSUME NEW o \in Output, VolumeReads(o) PROVE VolumeTyped'
  BY <1>3 DEF VolumeReads, KeepCall
<1>4. CASE VolumeSent
  BY <1>4 DEF VolumeSent, KeepCall
<1>5. ASSUME NEW S \in SUBSET Output,
             NEW caller \in {"setup", "connecting update", "update"}, SelectOutputs(caller, S)
      PROVE  VolumeTyped'
  BY <1>5 DEF SelectOutputs
<1>6. ASSUME NEW S \in SUBSET Output, NEW done \in SUBSET S,
             NEW caller \in {"setup", "connecting update", "update"}, SelectCancelled(caller, S, done)
      PROVE  VolumeTyped'
  BY <1>6 DEF SelectCancelled, KeepStream
<1>7. ASSUME NEW o \in Output, ReuseSession(o) PROVE VolumeTyped'
  BY <1>7 DEF ReuseSession, KeepStream
<1>8. ASSUME NEW o \in Output, DialBegins(o) PROVE VolumeTyped'
  BY <1>8 DEF DialBegins, KeepStream
<1>9. ASSUME NEW synced \in SUBSET Output, NEW sent \in SUBSET synced, Write(synced, sent)
      PROVE  VolumeTyped'
  BY <1>9 DEF Write, Called, Advance
<1>10. ASSUME NEW done \in SUBSET Output, Flush(done) PROVE VolumeTyped'
  BY <1>10 DEF Flush, Called, NoPacket
<1>11. CASE Prepare \/ VolumesFail \/ UpdateWithoutPlayback \/ StartConnecting
          \/ DialRegisters \/ DialStarts \/ DialFails \/ TuneFails \/ ConnectCancelled
          \/ ConnectFails \/ ConnectedTooLate \/ Connected \/ SetupUnwinds
          \/ WriteFindsNone \/ Stop \/ Tick \/ CancelBegins \/ CancelFlags
          \/ CancelCollects
  BY <1>11 DEF Prepare, VolumesFail, KeepStream, UpdateWithoutPlayback, StartConnecting,
    DialRegisters, DialStarts, DialFails, TuneFails, ConnectCancelled, ConnectFails,
    ConnectedTooLate, Connected, SetupUnwinds, WriteFindsNone, Called, Advance, Stop, Tick,
    CancelBegins, KeepCall, CancelFlags, CancelCollects
<1> HIDE DEF TypeOK, VolumeTyped, PointsTyped, SessionsTyped
<1>. QED BY <1>1, <1>2, <1>3, <1>4, <1>5, <1>6, <1>7, <1>8, <1>9, <1>10, <1>11
  DEF Next, Update, Stream, Beside

\* A receiver that has not begun to play, and what one plays.
LEMMA NoPacketType == NoPacket \in [ts : Int, rtp : Nat, at : Int]
BY DEF NoPacket

\* The packet a receiver is sent.
LEMMA PacketType ==
  ASSUME NEW o \in Output, NEW ts \in Nat, NEW start \in Int
  PROVE  Packet(o, ts, start) \in [ts : Int, rtp : Nat, at : Int]
<1>1. PresentationTimestamp(o, ts) \in Nat
  BY GroupAssumption DEF PresentationTimestamp
<1>. QED BY <1>1 DEF Packet

\* Closing sessions and their connections.
LEMMA CloseSessionsType ==
  ASSUME TypeOK, NEW S, NEW again, CloseSessions(S, again)
  PROVE  /\ phase' \in [Output -> {"Closed", "Connecting", "Ready", "Failed"}]
         /\ rtsp_session_id' \in [Output -> SessionId]
         /\ ConnectionsTyped'
<1>1. phase' \in [Output -> {"Closed", "Connecting", "Ready", "Failed"}]
  BY DEF CloseSessions, TypeOK, SessionsTyped
<1>2. rtsp_session_id' \in [Output -> SessionId]
  BY NoId DEF CloseSessions, TypeOK, SessionsTyped
<1>3. ASSUME NEW T, CloseConnections(T) PROVE ConnectionsTyped'
  BY <1>3, NoId, NoPacketType DEF CloseConnections, TypeOK, ConnectionsTyped
<1>. QED BY <1>1, <1>2, <1>3 DEF CloseSessions

\* The sessions.
LEMMA SessionsType == TypeOK /\ DialBound /\ Next => SessionsTyped'
<1> SUFFICES ASSUME TypeOK, DialBound, Next PROVE SessionsTyped'
  OBVIOUS
<1> USE NoId DEF TypeOK, PointsTyped, SessionsTyped
<1>1. ASSUME NEW S \in SUBSET Output,
             NEW caller \in {"setup", "connecting update", "update"}, SelectOutputs(caller, S)
      PROVE SessionsTyped'
  BY <1>1, CloseSessionsType DEF SelectOutputs
<1>2. ASSUME NEW S \in SUBSET Output, NEW done \in SUBSET S,
             NEW caller \in {"setup", "connecting update", "update"}, SelectCancelled(caller, S, done)
      PROVE SessionsTyped'
  BY <1>2 DEF SelectCancelled, KeepStream
<1>3. ASSUME NEW o \in Output, DialBegins(o) PROVE SessionsTyped'
  BY <1>3 DEF DialBegins, KeepStream
<1>4. CASE DialFails
  BY <1>4 DEF DialFails, FailSession, KeepStream
<1>5. CASE DialOpens
  BY <1>5, NextId DEF DialOpens, NoPacket
<1>6. CASE TuneFails
  BY <1>6 DEF TuneFails, FailSession, KeepStream
<1>7. CASE ConnectedTooLate
  BY <1>7, CloseSessionsType DEF ConnectedTooLate, StopEngine
<1>8. CASE SetupUnwinds
  BY <1>8, CloseSessionsType DEF SetupUnwinds, StopEngine, KeepStream
<1>9. CASE Stop
  BY <1>9, CloseSessionsType DEF Stop, KeepStream, StopEngine
<1>10. ASSUME NEW o \in Output, ReuseSession(o) PROVE SessionsTyped'
  BY <1>10 DEF ReuseSession, KeepStream
<1>11. ASSUME NEW synced \in SUBSET Output, NEW sent \in SUBSET synced, Write(synced, sent)
      PROVE  SessionsTyped'
  BY <1>11 DEF Write, Called, Advance
<1>12. ASSUME NEW done \in SUBSET Output, Flush(done) PROVE SessionsTyped'
  BY <1>12 DEF Flush, Called, NoPacket
<1>13. ASSUME NEW o \in Output, VolumeReads(o) PROVE SessionsTyped'
  BY <1>13 DEF VolumeReads, KeepCall
<1>14. CASE Prepare \/ VolumesFail \/ UpdateWithoutPlayback \/ StartConnecting
          \/ DialRegisters \/ DialStarts \/ TuneOk \/ ConnectCancelled \/ ConnectFails
          \/ Connected \/ WriteFindsNone \/ Tick \/ CancelBegins \/ CancelFlags
          \/ CancelCollects \/ VolumeSent
  BY <1>14 DEF Prepare, VolumesFail, KeepStream, UpdateWithoutPlayback, StartConnecting,
    DialRegisters, DialStarts, TuneOk, ConnectCancelled, ConnectFails, Connected,
    WriteFindsNone, Called, Advance, Tick, CancelBegins, KeepCall, CancelFlags, CancelCollects,
    VolumeSent
<1> HIDE DEF TypeOK, PointsTyped, SessionsTyped
<1>. QED BY <1>1, <1>2, <1>3, <1>4, <1>5, <1>6, <1>7, <1>8, <1>9, <1>10, <1>11, <1>12, <1>13,
     <1>14
  DEF Next, Update, Stream, Beside

\* Their connections.
LEMMA ConnectionsType == TypeOK /\ DialBound /\ Next => ConnectionsTyped'
<1> SUFFICES ASSUME TypeOK, DialBound, Next PROVE ConnectionsTyped'
  OBVIOUS
<1> USE NoId DEF TypeOK, ConnectionsTyped
<1>1. ASSUME NEW S \in SUBSET Output,
             NEW caller \in {"setup", "connecting update", "update"}, SelectOutputs(caller, S)
      PROVE ConnectionsTyped'
  BY <1>1, CloseSessionsType DEF SelectOutputs
<1>2. CASE DialOpens
  <2>1. PICK id \in SessionId : connection' = [connection EXCEPT ![target] = id]
    BY <1>2, NextId, Zenon DEF DialOpens
  <2>2. /\ ap2_sync_start_rtp' = [ap2_sync_start_rtp EXCEPT ![target] = 0]
        /\ played' = [played EXCEPT ![target] = NoPacket]
    BY <1>2, Zenon DEF DialOpens
  <2>3. target \in Output
    BY DEF PointsTyped
  <2>. QED BY <2>1, <2>2, <2>3, NoPacketType
<1>3. CASE ConnectedTooLate
  BY <1>3, CloseSessionsType DEF ConnectedTooLate, StopEngine
<1>4. CASE SetupUnwinds
  BY <1>4, CloseSessionsType DEF SetupUnwinds, StopEngine, KeepStream
<1>5. ASSUME NEW synced \in SUBSET Output, NEW sent \in SUBSET synced, Write(synced, sent)
      PROVE ConnectionsTyped'
  <2> DEFINE start == IF NeedsAnchor(group_sync_anchor_valid) THEN now - frame_cursor
                      ELSE group_sync_start_rtp
  <2>1. start \in Int /\ frame_cursor \in Nat
    BY DEF StreamTyped, FlagsTyped, NeedsAnchor
  <2> HIDE DEF start
  <2>2. \A o \in Output : SyncStart(o, start) \in Int
    BY <2>1 DEF SyncStart
  <2>3. \A o \in Output :
          Packet(o, frame_cursor, SyncStart(o, start)) \in [ts : Int, rtp : Nat, at : Int]
    BY <2>1, <2>2, PacketType
  <2>4. /\ connection' = connection
        /\ ap2_sync_start_rtp' = [o \in Output |-> IF o \in synced THEN SyncStart(o, start)
                                                   ELSE ap2_sync_start_rtp[o]]
        /\ played' = [o \in Output |-> IF o \in sent
                                       THEN Packet(o, frame_cursor, SyncStart(o, start))
                                       ELSE played[o]]
    BY <1>5, Zenon DEF Write, start
  <2>. QED BY <2>2, <2>3, <2>4
<1>6. ASSUME NEW done \in SUBSET Output, Flush(done) PROVE ConnectionsTyped'
  <2>1. /\ connection' = connection
        /\ ap2_sync_start_rtp' = [o \in Output |-> IF o \in done THEN 0
                                                   ELSE ap2_sync_start_rtp[o]]
        /\ played' = [o \in Output |-> IF o \in done THEN NoPacket ELSE played[o]]
    BY <1>6, Zenon DEF Flush
  <2>. QED BY <2>1, NoPacketType
<1>7. CASE Stop
  BY <1>7, CloseSessionsType DEF Stop, KeepStream, StopEngine
<1>8. ASSUME NEW S \in SUBSET Output, NEW done \in SUBSET S,
             NEW caller \in {"setup", "connecting update", "update"}, SelectCancelled(caller, S, done)
      PROVE  ConnectionsTyped'
  BY <1>8 DEF SelectCancelled, KeepStream
<1>9. ASSUME NEW o \in Output, ReuseSession(o) PROVE ConnectionsTyped'
  BY <1>9 DEF ReuseSession, KeepStream
<1>10. ASSUME NEW o \in Output, DialBegins(o) PROVE ConnectionsTyped'
  BY <1>10 DEF DialBegins, KeepStream
<1>11. ASSUME NEW o \in Output, VolumeReads(o) PROVE ConnectionsTyped'
  BY <1>11 DEF VolumeReads, KeepCall
<1>12. CASE Prepare \/ VolumesFail \/ UpdateWithoutPlayback \/ StartConnecting
          \/ DialRegisters \/ DialStarts \/ DialFails \/ TuneOk \/ TuneFails
          \/ ConnectCancelled \/ ConnectFails \/ Connected \/ WriteFindsNone \/ Tick
          \/ CancelBegins \/ CancelFlags \/ CancelCollects \/ VolumeSent
  BY <1>12 DEF Prepare, VolumesFail, KeepStream, UpdateWithoutPlayback, StartConnecting,
    DialRegisters, DialStarts, DialFails, TuneOk, TuneFails, ConnectCancelled, ConnectFails,
    Connected, WriteFindsNone, Called, Advance, Tick, CancelBegins, KeepCall, CancelFlags,
    CancelCollects, VolumeSent
<1> HIDE DEF TypeOK, ConnectionsTyped
<1>. QED BY <1>1, <1>2, <1>3, <1>4, <1>5, <1>6, <1>7, <1>8, <1>9, <1>10, <1>11, <1>12
  DEF Next, Update, Stream, Beside

\* All variables keep their types.
LEMMA TypeStep == TypeOK /\ DialBound /\ Next => TypeOK'
BY PointsType, FlagsType, StreamType, VolumeType, SessionsType, ConnectionsType DEF TypeOK

\* Who connects, and when the engine has a stream.
LEMMA PhasesStep == TypeOK /\ Phases /\ Next => Phases'
<1> SUFFICES ASSUME TypeOK, Phases, Next PROVE Phases'
  OBVIOUS
<1> USE DEF TypeOK, PointsTyped, FlagsTyped, Phases
<1>1. CASE Prepare
  BY <1>1 DEF Prepare
<1>2. ASSUME NEW S \in SUBSET Output,
             NEW caller \in {"setup", "connecting update", "update"}, SelectOutputs(caller, S)
      PROVE Phases'
  BY <1>2 DEF SelectOutputs, MayUpdate
<1>3. ASSUME NEW S \in SUBSET Output, NEW done \in SUBSET S,
             NEW caller \in {"setup", "connecting update", "update"}, SelectCancelled(caller, S, done)
      PROVE Phases'
  BY <1>3 DEF SelectCancelled, MayUpdate, UpdateThrows, KeepStream
<1>4. CASE VolumesFail
  BY <1>4 DEF VolumesFail, UpdateThrows, KeepStream
<1>5. CASE UpdateWithoutPlayback
  BY <1>5 DEF UpdateWithoutPlayback, KeepStream
<1>6. CASE StartConnecting
  BY <1>6 DEF StartConnecting, OpenEngine
<1>7. ASSUME NEW o \in Output, DialBegins(o) PROVE Phases'
  BY <1>7 DEF DialBegins, KeepStream
<1>8. CASE DialFails
  BY <1>8 DEF DialFails, KeepStream
<1>9. CASE DialOpens
  BY <1>9 DEF DialOpens, NoPacket
<1>10. CASE TuneOk
  BY <1>10 DEF TuneOk, KeepStream
<1>11. CASE TuneFails
  BY <1>11 DEF TuneFails, KeepStream
<1>12. CASE ConnectCancelled
  BY <1>12 DEF ConnectCancelled, UpdateThrows, KeepStream
<1>13. CASE ConnectFails
  BY <1>13 DEF ConnectFails, UpdateThrows, KeepStream
<1>14. CASE ConnectedTooLate
  BY <1>14 DEF ConnectedTooLate, StopEngine, UpdateThrows
<1>15. CASE Connected
  BY <1>15 DEF Connected, KeepStream
<1>16. CASE SetupUnwinds
  BY <1>16 DEF SetupUnwinds, StopEngine, KeepStream
<1>17. ASSUME NEW synced \in SUBSET Output, NEW sent \in SUBSET synced, Write(synced, sent)
      PROVE Phases'
  BY <1>17 DEF Write, Called, Advance
<1>18. CASE WriteFindsNone
  BY <1>18 DEF WriteFindsNone, Called, Advance
<1>19. ASSUME NEW done \in SUBSET Output, Flush(done) PROVE Phases'
  BY <1>19 DEF Flush, Called, NoPacket
<1>20. CASE Stop
  BY <1>20 DEF Stop, KeepStream, StopEngine
<1>21. ASSUME NEW o \in Output, ReuseSession(o) PROVE Phases'
  BY <1>21 DEF ReuseSession, KeepStream
<1>22. ASSUME NEW o \in Output, VolumeReads(o) PROVE Phases'
  BY <1>22 DEF VolumeReads, KeepCall
<1>23. CASE DialRegisters \/ DialStarts \/ Tick \/ CancelBegins \/ CancelFlags
          \/ CancelCollects \/ VolumeSent
  <2>1. UNCHANGED <<op, who, playback, engine_open>>
    BY <1>23, Zenon DEF DialRegisters, KeepStream, DialStarts, Tick, CancelBegins, KeepCall,
      CancelFlags, CancelCollects, VolumeSent
  <2>. QED BY <2>1
<1> HIDE DEF TypeOK, PointsTyped, FlagsTyped, Phases
<1>. QED BY <1>1, <1>2, <1>3, <1>4, <1>5, <1>6, <1>7, <1>8, <1>9, <1>10, <1>11, <1>12, <1>13,
     <1>14, <1>15, <1>16, <1>17, <1>18, <1>19, <1>20, <1>21, <1>22, <1>23
  DEF Next, Update, Stream, Beside

\* An id is left for a dial that has begun.
LEMMA DialBoundStep == DialBound /\ Next => DialBound'
<1> SUFFICES ASSUME DialBound, Next PROVE DialBound'
  OBVIOUS
<1> USE DEF DialBound
<1>1. ASSUME NEW S \in SUBSET Output,
             NEW caller \in {"setup", "connecting update", "update"}, SelectOutputs(caller, S)
      PROVE DialBound'
  BY <1>1 DEF SelectOutputs
<1>2. ASSUME NEW S \in SUBSET Output, NEW done \in SUBSET S,
             NEW caller \in {"setup", "connecting update", "update"}, SelectCancelled(caller, S, done)
      PROVE DialBound'
  BY <1>2 DEF SelectCancelled, UpdateThrows, KeepStream
<1>3. CASE VolumesFail
  BY <1>3 DEF VolumesFail, UpdateThrows, KeepStream
<1>4. CASE UpdateWithoutPlayback
  BY <1>4 DEF UpdateWithoutPlayback, KeepStream
<1>5. CASE StartConnecting
  BY <1>5 DEF StartConnecting
<1>6. ASSUME NEW o \in Output, DialBegins(o) PROVE DialBound'
  BY <1>6 DEF DialBegins, KeepStream
<1>7. CASE DialFails
  BY <1>7 DEF DialFails, KeepStream
<1>8. CASE DialOpens
  BY <1>8 DEF DialOpens, NoPacket
<1>9. CASE TuneOk
  BY <1>9 DEF TuneOk, KeepStream
<1>10. CASE TuneFails
  BY <1>10 DEF TuneFails, KeepStream
<1>11. CASE ConnectCancelled
  BY <1>11 DEF ConnectCancelled, UpdateThrows, KeepStream
<1>12. CASE ConnectFails
  BY <1>12 DEF ConnectFails, UpdateThrows, KeepStream
<1>13. CASE ConnectedTooLate
  BY <1>13 DEF ConnectedTooLate, UpdateThrows
<1>14. CASE Connected
  BY <1>14 DEF Connected, KeepStream
<1>15. ASSUME NEW o \in Output, ReuseSession(o) PROVE DialBound'
  BY <1>15 DEF ReuseSession, KeepStream
<1>16. ASSUME NEW synced \in SUBSET Output, NEW sent \in SUBSET synced, Write(synced, sent)
      PROVE  DialBound'
  BY <1>16 DEF Write, Called, Advance
<1>17. ASSUME NEW done \in SUBSET Output, Flush(done) PROVE DialBound'
  BY <1>17 DEF Flush, Called, NoPacket
<1>18. ASSUME NEW o \in Output, VolumeReads(o) PROVE DialBound'
  BY <1>18 DEF VolumeReads, KeepCall
<1>19. CASE Prepare \/ DialRegisters \/ DialStarts \/ SetupUnwinds \/ WriteFindsNone
          \/ Stop \/ Tick \/ CancelBegins \/ CancelFlags \/ CancelCollects \/ VolumeSent
  BY <1>19 DEF Prepare, DialRegisters, KeepStream, DialStarts, SetupUnwinds, WriteFindsNone,
    Called, Advance, Stop, Tick, CancelBegins, KeepCall, CancelFlags, CancelCollects,
    VolumeSent
<1> HIDE DEF DialBound
<1>. QED BY <1>1, <1>2, <1>3, <1>4, <1>5, <1>6, <1>7, <1>8, <1>9, <1>10, <1>11, <1>12, <1>13,
     <1>14, <1>15, <1>16, <1>17, <1>18, <1>19
  DEF Next, Update, Stream, Beside

\* What a cancel has marked stays marked until the dial is over.
LEMMA CancelStep == TypeOK /\ CancelMarks /\ Next => CancelMarks'
<1> SUFFICES ASSUME TypeOK, CancelMarks, Next PROVE CancelMarks'
  OBVIOUS
<1> USE DEF CancelMarks
<1>1. CASE Prepare
  BY <1>1 DEF Prepare
<1>2. CASE DialRegisters
  BY <1>2 DEF DialRegisters, KeepStream
<1>3. CASE DialStarts
  BY <1>3 DEF DialStarts, KeepStream
<1>4. CASE DialFails
  BY <1>4 DEF DialFails, KeepStream
<1>5. CASE DialOpens
  BY <1>5 DEF DialOpens, NoPacket
<1>6. CASE Stop
  BY <1>6 DEF Stop, KeepStream
<1>7. CASE CancelBegins
  BY <1>7 DEF CancelBegins, KeepCall
<1>8. CASE CancelFlags
  BY <1>8 DEF CancelFlags, KeepCall
<1>9. CASE CancelCollects
  BY <1>9 DEF CancelCollects, KeepCall
<1>10. ASSUME NEW S \in SUBSET Output,
             NEW caller \in {"setup", "connecting update", "update"}, SelectOutputs(caller, S)
      PROVE  CancelMarks'
  BY <1>10 DEF SelectOutputs
<1>11. ASSUME NEW S \in SUBSET Output, NEW done \in SUBSET S,
             NEW caller \in {"setup", "connecting update", "update"}, SelectCancelled(caller, S, done)
      PROVE  CancelMarks'
  BY <1>11 DEF SelectCancelled, KeepStream
<1>12. ASSUME NEW o \in Output, ReuseSession(o) PROVE CancelMarks'
  BY <1>12 DEF ReuseSession, KeepStream
<1>13. ASSUME NEW o \in Output, DialBegins(o) PROVE CancelMarks'
  BY <1>13 DEF DialBegins, KeepStream
<1>14. ASSUME NEW synced \in SUBSET Output, NEW sent \in SUBSET synced, Write(synced, sent)
      PROVE  CancelMarks'
  BY <1>14 DEF Write, Called, Advance
<1>15. ASSUME NEW done \in SUBSET Output, Flush(done) PROVE CancelMarks'
  BY <1>15 DEF Flush, Called, NoPacket
<1>16. ASSUME NEW o \in Output, VolumeReads(o) PROVE CancelMarks'
  BY <1>16 DEF VolumeReads, KeepCall
<1>17. CASE VolumesFail \/ UpdateWithoutPlayback \/ StartConnecting \/ TuneOk \/ TuneFails
          \/ ConnectCancelled \/ ConnectFails \/ ConnectedTooLate \/ Connected
          \/ SetupUnwinds \/ WriteFindsNone \/ Tick \/ VolumeSent
  BY <1>17 DEF VolumesFail, KeepStream, UpdateWithoutPlayback, StartConnecting, TuneOk,
    TuneFails, ConnectCancelled, ConnectFails, ConnectedTooLate, Connected, SetupUnwinds,
    WriteFindsNone, Called, Advance, Tick, VolumeSent, KeepCall
<1> HIDE DEF CancelMarks
<1>. QED BY <1>1, <1>2, <1>3, <1>4, <1>5, <1>6, <1>7, <1>8, <1>9, <1>10, <1>11, <1>12, <1>13,
     <1>14, <1>15, <1>16, <1>17
  DEF Next, Update, Stream, Beside

\* Who is ready, and which connection a session knows.
LEMMA SessionsStep == Inv /\ Next => (Sessions /\ ReadyHasConnection)'
<1> SUFFICES ASSUME Inv, Next PROVE (Sessions /\ ReadyHasConnection)'
  OBVIOUS
<1> USE DEF Inv, TypeOK, PointsTyped, FlagsTyped, SessionsTyped, Phases, Sessions, ReadyHasConnection, ReadyOutputs
<1>1. ASSUME NEW S \in SUBSET Output,
             NEW caller \in {"setup", "connecting update", "update"}, SelectOutputs(caller, S)
      PROVE (Sessions /\ ReadyHasConnection)'
  BY <1>1 DEF SelectOutputs, MayUpdate, CloseSessions, CloseConnections
<1>2. ASSUME NEW S \in SUBSET Output, NEW done \in SUBSET S,
             NEW caller \in {"setup", "connecting update", "update"}, SelectCancelled(caller, S, done)
      PROVE (Sessions /\ ReadyHasConnection)'
  BY <1>2 DEF SelectCancelled, MayUpdate, UpdateThrows, KeepStream
<1>3. CASE VolumesFail
  BY <1>3 DEF VolumesFail, UpdateThrows, KeepStream
<1>4. CASE UpdateWithoutPlayback
  BY <1>4 DEF UpdateWithoutPlayback, KeepStream
<1>5. CASE StartConnecting
  BY <1>5 DEF StartConnecting, OpenEngine
<1>6. ASSUME NEW o \in Output, DialBegins(o) PROVE (Sessions /\ ReadyHasConnection)'
  BY <1>6 DEF DialBegins, Reusable, KeepStream
<1>7. CASE DialFails
  BY <1>7 DEF DialFails, FailSession, KeepStream
<1>8. CASE DialOpens
  <2>1. opened + 1 \in Nat \ {0}
    BY NextIdPositive, Zenon
  <2>2. PICK id \in Nat \ {0} : /\ rtsp_session_id' = [rtsp_session_id EXCEPT ![target] = id]
                               /\ connection' = [connection EXCEPT ![target] = id]
    BY <1>8, <2>1, Zenon DEF DialOpens
  <2>3. /\ phase' = [phase EXCEPT ![target] = "Ready"]
        /\ open' = [open EXCEPT ![target] = TRUE]
        /\ ap2_sync_started' = [ap2_sync_started EXCEPT ![target] = FALSE]
        /\ op = "dial" /\ op' = "tune" /\ UNCHANGED <<target, engine_open>>
    BY <1>8, Zenon DEF DialOpens
  <2>4. connection \in [Output -> SessionId]
    BY DEF ConnectionsTyped
  <2>. QED BY <2>2, <2>3, <2>4
<1>9. CASE TuneOk
  BY <1>9 DEF TuneOk, KeepStream
<1>10. CASE TuneFails
  BY <1>10 DEF TuneFails, FailSession, KeepStream
<1>11. CASE ConnectCancelled
  BY <1>11 DEF ConnectCancelled, UpdateThrows, KeepStream
<1>12. CASE ConnectFails
  BY <1>12 DEF ConnectFails, UpdateThrows, KeepStream
<1>13. CASE ConnectedTooLate
  BY <1>13 DEF ConnectedTooLate, StopEngine, CloseSessions, CloseConnections, UpdateThrows
<1>14. CASE Connected
  BY <1>14 DEF Connected, KeepStream
<1>15. CASE SetupUnwinds
  BY <1>15 DEF SetupUnwinds, StopEngine, CloseSessions, CloseConnections, KeepStream
<1>16. ASSUME NEW synced \in SUBSET Output, NEW sent \in SUBSET synced, Write(synced, sent)
      PROVE (Sessions /\ ReadyHasConnection)'
  BY <1>16 DEF Write, Called, Advance
<1>17. ASSUME NEW done \in SUBSET Output, Flush(done) PROVE (Sessions /\ ReadyHasConnection)'
  BY <1>17 DEF Flush, Called
<1>18. CASE Stop
  BY <1>18 DEF Stop, KeepStream, StopEngine, CloseSessions, CloseConnections
<1>19. ASSUME NEW o \in Output, ReuseSession(o) PROVE (Sessions /\ ReadyHasConnection)'
  BY <1>19 DEF ReuseSession, Reusable, KeepStream
<1>20. ASSUME NEW o \in Output, VolumeReads(o) PROVE (Sessions /\ ReadyHasConnection)'
  BY <1>20 DEF VolumeReads, KeepCall
<1>21. CASE Prepare \/ DialRegisters \/ DialStarts \/ WriteFindsNone \/ Tick
          \/ CancelBegins \/ CancelFlags \/ CancelCollects \/ VolumeSent
  <2>1. UNCHANGED <<phase, open, rtsp_session_id, connection, engine_open, op, target, ap2_sync_started>>
    BY <1>21, Zenon DEF Prepare, DialRegisters, KeepStream, DialStarts, WriteFindsNone, Called,
      Advance, Tick, CancelBegins, KeepCall, CancelFlags, CancelCollects, VolumeSent
  <2>. QED BY <2>1
<1> HIDE DEF Inv, TypeOK, PointsTyped, FlagsTyped, SessionsTyped, Phases, Sessions, ReadyHasConnection, ReadyOutputs
<1>. QED BY <1>1, <1>2, <1>3, <1>4, <1>5, <1>6, <1>7, <1>8, <1>9, <1>10, <1>11, <1>12, <1>13,
     <1>14, <1>15, <1>16, <1>17, <1>18, <1>19, <1>20, <1>21
  DEF Next, Update, Stream, Beside

\* Closing sessions leaves a connection alone or ends it.
LEMMA CloseSessionsLeaves ==
  ASSUME NEW S, NEW again, CloseSessions(S, again), TypeOK, VolumeOnItsSession, UNCHANGED heard
  PROVE  VolumeOnItsSession'
BY DEF CloseSessions, CloseConnections, VolumeOnItsSession, TypeOK, ConnectionsTyped, VolumeTyped

\* A volume is heard in the session of the connection.
LEMMA VolumeStep == Inv /\ Next => VolumeOnItsSession'
<1> SUFFICES ASSUME Inv, Next PROVE VolumeOnItsSession'
  OBVIOUS
<1> USE DEF Inv, Sessions, ReadyHasConnection, ReadyOutputs, VolumeOnItsSession
<1>1. ASSUME NEW S \in SUBSET Output,
             NEW caller \in {"setup", "connecting update", "update"}, SelectOutputs(caller, S)
      PROVE VolumeOnItsSession'
  BY <1>1, CloseSessionsLeaves DEF SelectOutputs, TypeOK, PointsTyped, VolumeTyped,
    ConnectionsTyped, SessionsTyped
<1>2. CASE DialOpens
  BY <1>2 DEF DialOpens, TypeOK, PointsTyped, VolumeTyped, ConnectionsTyped, SessionsTyped
<1>3. CASE TuneOk
  BY <1>3 DEF TuneOk, KeepStream, TypeOK, PointsTyped, VolumeTyped, ConnectionsTyped,
    SessionsTyped
<1>4. CASE ConnectedTooLate
  BY <1>4, CloseSessionsLeaves DEF ConnectedTooLate, StopEngine, TypeOK, PointsTyped,
    VolumeTyped, ConnectionsTyped, SessionsTyped
<1>5. CASE SetupUnwinds
  <2>1. CASE engine_open
    BY <1>5, <2>1, CloseSessionsLeaves DEF SetupUnwinds, StopEngine
  <2>2. CASE ~(engine_open)
    BY <1>5, <2>2, Zenon DEF SetupUnwinds, KeepStream
  <2>. QED BY <2>1, <2>2
<1>6. CASE Stop
  <2>1. CASE playback # "closed"
    BY <1>6, <2>1, CloseSessionsLeaves DEF Stop, StopEngine
  <2>2. CASE ~(playback # "closed")
    BY <1>6, <2>2, Zenon DEF Stop, KeepStream
  <2>. QED BY <2>1, <2>2
<1>7. CASE VolumeSent
  BY <1>7 DEF VolumeSent, SameSession, KeepCall, TypeOK, PointsTyped, VolumeTyped,
    ConnectionsTyped, SessionsTyped
<1>8. ASSUME NEW S \in SUBSET Output, NEW done \in SUBSET S,
             NEW caller \in {"setup", "connecting update", "update"}, SelectCancelled(caller, S, done)
      PROVE  VolumeOnItsSession'
  BY <1>8 DEF SelectCancelled, KeepStream
<1>9. ASSUME NEW o \in Output, ReuseSession(o) PROVE VolumeOnItsSession'
  BY <1>9 DEF ReuseSession, KeepStream
<1>10. ASSUME NEW o \in Output, DialBegins(o) PROVE VolumeOnItsSession'
  BY <1>10 DEF DialBegins, KeepStream
<1>11. ASSUME NEW synced \in SUBSET Output, NEW sent \in SUBSET synced, Write(synced, sent)
      PROVE  VolumeOnItsSession'
  BY <1>11 DEF Write, Called, Advance
<1>12. ASSUME NEW done \in SUBSET Output, Flush(done) PROVE VolumeOnItsSession'
  BY <1>12 DEF Flush, Called
<1>13. ASSUME NEW o \in Output, VolumeReads(o) PROVE VolumeOnItsSession'
  BY <1>13 DEF VolumeReads, KeepCall
<1>14. CASE Prepare \/ VolumesFail \/ UpdateWithoutPlayback \/ StartConnecting
          \/ DialRegisters \/ DialStarts \/ DialFails \/ TuneFails \/ ConnectCancelled
          \/ ConnectFails \/ Connected \/ WriteFindsNone \/ Tick \/ CancelBegins
          \/ CancelFlags \/ CancelCollects
  <2>1. UNCHANGED <<heard, connection>>
    BY <1>14, Zenon DEF Prepare, VolumesFail, KeepStream, UpdateWithoutPlayback,
      StartConnecting, DialRegisters, DialStarts, DialFails, TuneFails, ConnectCancelled,
      ConnectFails, Connected, WriteFindsNone, Called, Advance, Tick, CancelBegins, KeepCall,
      CancelFlags, CancelCollects
  <2>. QED BY <2>1
<1> HIDE DEF Inv, Sessions, ReadyHasConnection, ReadyOutputs, VolumeOnItsSession
<1>. QED BY <1>1, <1>2, <1>3, <1>4, <1>5, <1>6, <1>7, <1>8, <1>9, <1>10, <1>11, <1>12, <1>13,
     <1>14
  DEF Next, Update, Stream, Beside

\* Nobody is left on an anchor that is dropped.
LEMMA AnchorStep == Inv /\ Next => OneAnchor'
<1> SUFFICES ASSUME Inv, Next PROVE OneAnchor'
  OBVIOUS
<1> USE DEF Inv, Sessions, OneAnchor, ReadyOutputs
<1>1. ASSUME NEW S \in SUBSET Output,
             NEW caller \in {"setup", "connecting update", "update"}, SelectOutputs(caller, S)
      PROVE OneAnchor'
  BY <1>1 DEF SelectOutputs, CloseSessions, CloseConnections, TypeOK, FlagsTyped, Phases,
    SessionsTyped, PointsTyped
<1>2. ASSUME NEW S \in SUBSET Output, NEW done \in SUBSET S,
             NEW caller \in {"setup", "connecting update", "update"}, SelectCancelled(caller, S, done)
      PROVE OneAnchor'
  BY <1>2 DEF SelectCancelled, KeepStream, TypeOK, FlagsTyped, Phases, SessionsTyped,
    PointsTyped
<1>3. CASE StartConnecting
  BY <1>3 DEF StartConnecting, OpenEngine, DropAnchor, TypeOK, FlagsTyped, Phases,
    SessionsTyped, PointsTyped
<1>4. ASSUME NEW o \in Output, DialBegins(o) PROVE OneAnchor'
  BY <1>4 DEF DialBegins, Reusable, KeepStream, TypeOK, FlagsTyped, Phases, SessionsTyped,
    PointsTyped
<1>5. CASE DialFails
  BY <1>5 DEF DialFails, FailSession, KeepStream, TypeOK, FlagsTyped, Phases, SessionsTyped,
    PointsTyped
<1>6. CASE DialOpens
  <2>1. /\ phase' = [phase EXCEPT ![target] = "Ready"]
        /\ open' = [open EXCEPT ![target] = TRUE]
        /\ ap2_sync_started' = [ap2_sync_started EXCEPT ![target] = FALSE]
        /\ ap2_sync_start_rtp' = [ap2_sync_start_rtp EXCEPT ![target] = 0]
        /\ op = "dial" /\ UNCHANGED anchorVars
    BY <1>6, Zenon DEF DialOpens
  <2>. QED BY <2>1 DEF TypeOK, FlagsTyped, SessionsTyped, ConnectionsTyped, PointsTyped
<1>7. CASE TuneFails
  BY <1>7 DEF TuneFails, FailSession, KeepStream, TypeOK, FlagsTyped, Phases, SessionsTyped,
    PointsTyped
<1>8. CASE ConnectedTooLate
  BY <1>8 DEF ConnectedTooLate, StopEngine, CloseSessions, CloseConnections, DropAnchor,
    TypeOK, FlagsTyped, Phases, SessionsTyped, PointsTyped
<1>9. CASE SetupUnwinds
  BY <1>9 DEF SetupUnwinds, StopEngine, CloseSessions, CloseConnections, DropAnchor,
    KeepStream, TypeOK, FlagsTyped, Phases, SessionsTyped, PointsTyped
<1>10. ASSUME NEW synced \in SUBSET Output, NEW sent \in SUBSET synced, Write(synced, sent)
      PROVE OneAnchor'
  <2> DEFINE start == IF NeedsAnchor(group_sync_anchor_valid) THEN now - frame_cursor
                      ELSE group_sync_start_rtp
  <2>1. /\ group_sync_anchor_valid' = TRUE /\ group_sync_start_rtp' = start
        /\ ap2_sync_started' = [o \in Output |-> o \in synced \/ ap2_sync_started[o]]
        /\ ap2_sync_start_rtp' = [o \in Output |-> IF o \in synced THEN SyncStart(o, start)
                                                   ELSE ap2_sync_start_rtp[o]]
        /\ synced \subseteq ReadyOutputs /\ UNCHANGED <<phase, open>>
    BY <1>10, Zenon DEF Write, Enqueued, ReadyOutputs
  <2>2. group_sync_anchor_valid => start = group_sync_start_rtp
    BY Zenon DEF NeedsAnchor
  <2> HIDE DEF start
  <2>3. \A o \in Output : SyncStart(o, start) = start
    BY <2>2, Zenon DEF SyncStart
  <2>4. \A o \in Output : ap2_sync_started'[o] =>
          ap2_sync_start_rtp'[o] = IF o \in synced THEN start ELSE ap2_sync_start_rtp[o]
    BY <2>1, <2>3, Zenon
  <2>5. ASSUME NEW o \in Output, ap2_sync_started'[o]
        PROVE  /\ o \in ReadyOutputs' /\ group_sync_anchor_valid'
               /\ ap2_sync_start_rtp'[o] = group_sync_start_rtp'
    <3>1. CASE o \in synced
      BY <2>1, <2>4, <2>5, <3>1, Zenon
    <3>2. CASE o \notin synced
      BY <2>1, <2>2, <2>4, <2>5, <3>2, Zenon
    <3>. QED BY <3>1, <3>2
  <2>. QED BY <2>5, Zenon
<1>11. ASSUME NEW done \in SUBSET Output, Flush(done) PROVE OneAnchor'
  BY <1>11 DEF Flush, Called, FlushedAll, DropAnchor, TypeOK, FlagsTyped, Phases,
    SessionsTyped, PointsTyped
<1>12. CASE Stop
  BY <1>12 DEF Stop, KeepStream, StopEngine, CloseSessions, CloseConnections, DropAnchor,
    TypeOK, FlagsTyped, Phases, SessionsTyped, PointsTyped
<1>13. ASSUME NEW o \in Output, ReuseSession(o) PROVE OneAnchor'
  BY <1>13 DEF ReuseSession, Reusable, KeepStream
<1>14. ASSUME NEW o \in Output, VolumeReads(o) PROVE OneAnchor'
  BY <1>14 DEF VolumeReads, KeepCall
<1>15. CASE Prepare \/ VolumesFail \/ UpdateWithoutPlayback \/ DialRegisters \/ DialStarts
          \/ TuneOk \/ ConnectCancelled \/ ConnectFails \/ Connected \/ WriteFindsNone
          \/ Tick \/ CancelBegins \/ CancelFlags \/ CancelCollects \/ VolumeSent
  <2>1. UNCHANGED <<phase, open, ap2_sync_started, ap2_sync_start_rtp, group_sync_anchor_valid, group_sync_start_rtp>>
    BY <1>15, Zenon DEF Prepare, VolumesFail, KeepStream, UpdateWithoutPlayback, DialRegisters,
      DialStarts, TuneOk, ConnectCancelled, ConnectFails, Connected, WriteFindsNone, Called,
      Advance, Tick, CancelBegins, KeepCall, CancelFlags, CancelCollects, VolumeSent
  <2>. QED BY <2>1
<1> HIDE DEF Inv, Sessions, OneAnchor, ReadyOutputs
<1>. QED BY <1>1, <1>2, <1>3, <1>4, <1>5, <1>6, <1>7, <1>8, <1>9, <1>10, <1>11, <1>12, <1>13,
     <1>14, <1>15
  DEF Next, Update, Stream, Beside

\* A connection that is closed has played nothing, the others what they had.
LEMMA CloseSessionsPlayed ==
  ASSUME NEW S, NEW again, CloseSessions(S, again), PlayedFromAnchor, TypeOK
  PROVE  PlayedFromAnchor'
<1> DEFINE T == {o \in S : open[o] \/ rtsp_session_id[o] # 0}
<1>1. \A o \in Output : IF o \in T THEN played'[o] = NoPacket
                        ELSE /\ played'[o] = played[o]
                             /\ ap2_sync_started'[o] = ap2_sync_started[o]
                             /\ ap2_sync_start_rtp'[o] = ap2_sync_start_rtp[o]
  <2>1. CloseConnections(T)
    BY Zenon DEF CloseSessions
  <2> HIDE DEF T
  <2>2. ASSUME NEW o \in Output, o \notin T
        PROVE  ap2_sync_started'[o] = ap2_sync_started[o]
    BY <2>1, <2>2, Zenon DEF CloseConnections, TypeOK, FlagsTyped
  <2>. QED BY <2>1, <2>2, Zenon DEF CloseConnections
<1>2. ~(NoPacket.ts >= 0)
  BY DEF NoPacket
<1>. QED BY <1>1, <1>2, Zenon DEF PlayedFromAnchor

\* Receivers play from the anchor of their connection.
LEMMA PlayedStep == Inv /\ Next => PlayedFromAnchor'
<1> SUFFICES ASSUME Inv, Next PROVE PlayedFromAnchor'
  OBVIOUS
<1> USE DEF Inv, PlayedFromAnchor
<1>1. ASSUME NEW S \in SUBSET Output,
             NEW caller \in {"setup", "connecting update", "update"}, SelectOutputs(caller, S)
      PROVE PlayedFromAnchor'
  BY <1>1, CloseSessionsPlayed DEF SelectOutputs, TypeOK, FlagsTyped, ConnectionsTyped
<1>2. CASE DialOpens
  BY <1>2 DEF DialOpens, NoPacket, TypeOK, FlagsTyped, ConnectionsTyped
<1>3. CASE ConnectedTooLate
  BY <1>3, CloseSessionsPlayed, SMTT(30) DEF ConnectedTooLate, StopEngine, TypeOK, FlagsTyped,
    ConnectionsTyped
<1>4. CASE SetupUnwinds
  BY <1>4, SMTT(30) DEF SetupUnwinds, StopEngine, CloseSessions, CloseConnections, NoPacket, KeepStream,
    TypeOK, FlagsTyped, ConnectionsTyped
<1>5. ASSUME NEW synced \in SUBSET Output, NEW sent \in SUBSET synced, Write(synced, sent)
      PROVE PlayedFromAnchor'
  <2> DEFINE start == IF NeedsAnchor(group_sync_anchor_valid) THEN now - frame_cursor
                      ELSE group_sync_start_rtp
             ts == frame_cursor
  <2>1. /\ sent \subseteq synced
        /\ ap2_sync_started' = [o \in Output |-> o \in synced \/ ap2_sync_started[o]]
        /\ ap2_sync_start_rtp' = [o \in Output |-> IF o \in synced THEN SyncStart(o, start)
                                                   ELSE ap2_sync_start_rtp[o]]
        /\ played' = [o \in Output |-> IF o \in sent THEN Packet(o, ts, SyncStart(o, start))
                                       ELSE played[o]]
    BY <1>5, Zenon DEF Write, Enqueued
  <2> HIDE DEF start, ts
  <2>2. ASSUME NEW o \in Output, played'[o].ts >= 0
        PROVE  /\ ap2_sync_started'[o]
               /\ played'[o].at = ap2_sync_start_rtp'[o] + PresentationTimestamp(o, played'[o].ts)
    <3>1. CASE o \in sent
      <4>1. /\ played'[o] = Packet(o, ts, SyncStart(o, start))
            /\ ap2_sync_start_rtp'[o] = SyncStart(o, start) /\ ap2_sync_started'[o]
        BY <2>1, <3>1, Zenon
      <4>2. /\ Packet(o, ts, SyncStart(o, start)).ts = ts
            /\ Packet(o, ts, SyncStart(o, start)).at
                 = SyncStart(o, start) + PresentationTimestamp(o, ts)
        BY DEF Packet
      <4>. QED BY <4>1, <4>2
    <3>2. CASE o \notin sent
      <4>1. played'[o] = played[o]
        BY <2>1, <3>2, Zenon
      <4>2. /\ ap2_sync_started[o]
            /\ played[o].at = ap2_sync_start_rtp[o] + PresentationTimestamp(o, played[o].ts)
        BY <2>2, <4>1, Zenon
      <4>3. SyncStart(o, start) = ap2_sync_start_rtp[o]
        BY <4>2, Zenon DEF SyncStart
      <4>4. ap2_sync_start_rtp'[o] = ap2_sync_start_rtp[o] /\ ap2_sync_started'[o]
        BY <2>1, <4>2, <4>3, Zenon
      <4>. QED BY <4>1, <4>2, <4>4, Zenon
    <3>. QED BY <3>1, <3>2
  <2>. QED BY <2>2, Zenon
<1>6. ASSUME NEW done \in SUBSET Output, Flush(done) PROVE PlayedFromAnchor'
  BY <1>6 DEF Flush, Called, NoPacket, TypeOK, FlagsTyped, ConnectionsTyped
<1>7. CASE Stop
  BY <1>7 DEF Stop, KeepStream, StopEngine, CloseSessions, CloseConnections, NoPacket, TypeOK,
    FlagsTyped, ConnectionsTyped
<1>8. ASSUME NEW S \in SUBSET Output, NEW done \in SUBSET S,
             NEW caller \in {"setup", "connecting update", "update"}, SelectCancelled(caller, S, done)
      PROVE  PlayedFromAnchor'
  BY <1>8 DEF SelectCancelled, KeepStream
<1>9. ASSUME NEW o \in Output, ReuseSession(o) PROVE PlayedFromAnchor'
  BY <1>9 DEF ReuseSession, KeepStream
<1>10. ASSUME NEW o \in Output, DialBegins(o) PROVE PlayedFromAnchor'
  BY <1>10 DEF DialBegins, KeepStream
<1>11. ASSUME NEW o \in Output, VolumeReads(o) PROVE PlayedFromAnchor'
  BY <1>11 DEF VolumeReads, KeepCall
<1>12. CASE Prepare \/ VolumesFail \/ UpdateWithoutPlayback \/ StartConnecting
          \/ DialRegisters \/ DialStarts \/ DialFails \/ TuneOk \/ TuneFails
          \/ ConnectCancelled \/ ConnectFails \/ Connected \/ WriteFindsNone \/ Tick
          \/ CancelBegins \/ CancelFlags \/ CancelCollects \/ VolumeSent
  <2>1. UNCHANGED <<ap2_sync_started, ap2_sync_start_rtp, played>>
    BY <1>12, Zenon DEF Prepare, VolumesFail, KeepStream, UpdateWithoutPlayback,
      StartConnecting, DialRegisters, DialStarts, DialFails, TuneOk, TuneFails,
      ConnectCancelled, ConnectFails, Connected, WriteFindsNone, Called, Advance, Tick,
      CancelBegins, KeepCall, CancelFlags, CancelCollects, VolumeSent
  <2>. QED BY <2>1
<1> HIDE DEF Inv, PlayedFromAnchor
<1>. QED BY <1>1, <1>2, <1>3, <1>4, <1>5, <1>6, <1>7, <1>8, <1>9, <1>10, <1>11, <1>12
  DEF Next, Update, Stream, Beside

-----------------------------------------------------------------------------
(* The invariants and the action property.                                 *)

\* Every step keeps the invariant.
LEMMA InvStep == Inv /\ [Next]_vars => Inv'
<1> SUFFICES ASSUME Inv, [Next]_vars PROVE Inv'
  OBVIOUS
<1>1. CASE Next
  <2>1. TypeOK /\ Phases /\ DialBound /\ CancelMarks
    BY DEF Inv
  <2>. QED BY <1>1, <2>1, TypeStep, PhasesStep, DialBoundStep, SessionsStep, AnchorStep,
              PlayedStep, VolumeStep, CancelStep DEF Inv
<1>2. CASE UNCHANGED vars
  <2>1. TypeOK'
    <3>1. PointsTyped'
      BY <1>2, Zenon DEF Inv, TypeOK, PointsTyped, vars
    <3>2. (SessionsTyped /\ FlagsTyped)'
      BY <1>2, Zenon DEF Inv, TypeOK, SessionsTyped, FlagsTyped, vars
    <3>3. (ConnectionsTyped /\ StreamTyped /\ VolumeTyped)'
      BY <1>2, Zenon DEF Inv, TypeOK, ConnectionsTyped, StreamTyped, VolumeTyped, vars
    <3>. QED BY <3>1, <3>2, <3>3 DEF TypeOK
  <2>2. (Phases /\ DialBound /\ Sessions /\ ReadyHasConnection /\ CancelMarks)'
    BY <1>2, Zenon DEF Inv, Phases, DialBound, Sessions, ReadyHasConnection, ReadyOutputs,
       CancelMarks, vars
  <2>3. (OneAnchor /\ PlayedFromAnchor /\ VolumeOnItsSession)'
    BY <1>2, Zenon DEF Inv, OneAnchor, PlayedFromAnchor, VolumeOnItsSession, ReadyOutputs, vars
  <2>. QED BY <2>1, <2>2, <2>3 DEF Inv
<1>. QED BY <1>1, <1>2

\* The invariant holds in every reachable state, whatever fails half way.
THEOREM Invariance == Spec => []Inv
<1>. QED BY InitInv, InvStep, PTL DEF Spec

\* Every variable keeps its type.
THEOREM TypeCorrect == Spec => []TypeOK
<1>1. Inv => TypeOK
  BY DEF Inv
<1>. QED BY <1>1, Invariance, PTL

\* Whatever fails, is cancelled, deselected or opened anew: a session that counts as
\* ready is the one its receiver's connection is in.
THEOREM ConnectionCorrect == Spec => []ReadyHasConnection
<1>1. Inv => ReadyHasConnection
  BY DEF Inv
<1>. QED BY <1>1, Invariance, PTL

\* Two ready receivers play a frame at one time, up to their configured offsets, whenever
\* each of them joined and however a block or a flush failed before.
THEOREM PlayedTogetherCorrect == Spec => []PlayedTogether
<1>1. Inv => PlayedTogether
  <2> SUFFICES ASSUME Inv, NEW o \in ReadyOutputs, NEW q \in ReadyOutputs,
                      played[o].ts >= 0, played[o].ts + Offset[o] >= 0,
                      played[q].ts >= 0, played[q].ts + Offset[q] >= 0,
                      played[o].ts = played[q].ts
               PROVE  played[o].at - Offset[o] = played[q].at - Offset[q]
    BY Zenon DEF PlayedTogether
  <2>1. o \in Output /\ q \in Output
    BY DEF ReadyOutputs
  <2>2. ASSUME NEW r \in Output, played[r].ts >= 0, played[r].ts + Offset[r] >= 0
        PROVE  played[r].at - Offset[r] = group_sync_start_rtp + played[r].ts
    <3>1. played[r].at = group_sync_start_rtp + PresentationTimestamp(r, played[r].ts)
      BY <2>2, Zenon DEF Inv, OneAnchor, PlayedFromAnchor
    <3>2. played[r].ts \in Int /\ played[r].at \in Int /\ Offset[r] \in Int
      BY GroupAssumption DEF Inv, TypeOK, ConnectionsTyped
    <3>3. group_sync_start_rtp \in Int
      BY DEF Inv, TypeOK, StreamTyped
    <3>4. PresentationTimestamp(r, played[r].ts) = played[r].ts + Offset[r]
      BY <2>2, <3>2 DEF PresentationTimestamp
    <3>. QED BY <3>1, <3>2, <3>3, <3>4
  <2>. QED BY <2>1, <2>2
<1>. QED BY <1>1, Invariance, PTL

\* A cancel that has returned is known to the connection under way.
THEOREM CancelCorrect == Spec => []CancelHeard
<1>1. Inv => CancelHeard
  BY DEF Inv, CancelMarks, CancelHeard
<1>. QED BY <1>1, Invariance, PTL

\* A volume never reaches another session than the one it was meant for.
THEOREM VolumeCorrect == Spec => []VolumeOnItsSession
<1>1. Inv => VolumeOnItsSession
  BY DEF Inv
<1>. QED BY <1>1, Invariance, PTL

\* No step takes the session of a ready receiver that stays selected.
LEMMA StaysStep == Inv /\ Next => StaysReady
<1> SUFFICES ASSUME Inv, Next PROVE StaysReady
  OBVIOUS
<1> USE DEF Inv, Sessions, ReadyOutputs, StaysReady
<1>1. ASSUME NEW S \in SUBSET Output,
             NEW caller \in {"setup", "connecting update", "update"}, SelectOutputs(caller, S)
      PROVE StaysReady
  BY <1>1 DEF SelectOutputs, CloseSessions, CloseConnections, TypeOK, FlagsTyped,
    SessionsTyped, PointsTyped, ConnectionsTyped
<1>2. ASSUME NEW S \in SUBSET Output, NEW done \in SUBSET S,
             NEW caller \in {"setup", "connecting update", "update"}, SelectCancelled(caller, S, done)
      PROVE StaysReady
  BY <1>2 DEF SelectCancelled, KeepStream, TypeOK, FlagsTyped, SessionsTyped, PointsTyped,
    ConnectionsTyped
<1>3. ASSUME NEW o \in Output, DialBegins(o) PROVE StaysReady
  BY <1>3 DEF DialBegins, Reusable, KeepStream, TypeOK, FlagsTyped, SessionsTyped, PointsTyped,
    ConnectionsTyped
<1>4. CASE DialFails
  BY <1>4 DEF DialFails, FailSession, KeepStream, TypeOK, FlagsTyped, SessionsTyped,
    PointsTyped, ConnectionsTyped
<1>5. CASE DialOpens
  BY <1>5 DEF DialOpens, TypeOK, FlagsTyped, SessionsTyped, PointsTyped, ConnectionsTyped
<1>6. CASE TuneFails
  BY <1>6 DEF TuneFails, FailSession, KeepStream, TypeOK, FlagsTyped, SessionsTyped,
    PointsTyped, ConnectionsTyped
<1>7. CASE ConnectedTooLate
  BY <1>7 DEF ConnectedTooLate, StopEngine, CloseSessions, CloseConnections, TypeOK,
    FlagsTyped, SessionsTyped, PointsTyped, ConnectionsTyped
<1>8. CASE SetupUnwinds
  BY <1>8 DEF SetupUnwinds, StopEngine, CloseSessions, CloseConnections, KeepStream, TypeOK,
    FlagsTyped, SessionsTyped, PointsTyped, ConnectionsTyped
<1>9. CASE Stop
  BY <1>9 DEF Stop, KeepStream, StopEngine, CloseSessions, CloseConnections, TypeOK,
    FlagsTyped, SessionsTyped, PointsTyped, ConnectionsTyped
<1>10. ASSUME NEW o \in Output, ReuseSession(o) PROVE StaysReady
  BY <1>10 DEF ReuseSession, Reusable, KeepStream
<1>11. ASSUME NEW synced \in SUBSET Output, NEW sent \in SUBSET synced, Write(synced, sent)
      PROVE  StaysReady
  BY <1>11 DEF Write, Called, Advance
<1>12. ASSUME NEW done \in SUBSET Output, Flush(done) PROVE StaysReady
  BY <1>12 DEF Flush, Called
<1>13. ASSUME NEW o \in Output, VolumeReads(o) PROVE StaysReady
  BY <1>13 DEF VolumeReads, KeepCall
<1>14. CASE Prepare \/ VolumesFail \/ UpdateWithoutPlayback \/ StartConnecting
          \/ DialRegisters \/ DialStarts \/ TuneOk \/ ConnectCancelled \/ ConnectFails
          \/ Connected \/ WriteFindsNone \/ Tick \/ CancelBegins \/ CancelFlags
          \/ CancelCollects \/ VolumeSent
  <2>1. UNCHANGED <<selected, phase, open, connection>>
    BY <1>14, Zenon DEF Prepare, VolumesFail, KeepStream, UpdateWithoutPlayback,
      StartConnecting, DialRegisters, DialStarts, TuneOk, ConnectCancelled, ConnectFails,
      Connected, WriteFindsNone, Called, Advance, Tick, CancelBegins, KeepCall, CancelFlags,
      CancelCollects, VolumeSent
  <2>. QED BY <2>1
<1> HIDE DEF Inv, Sessions, ReadyOutputs, StaysReady
<1>. QED BY <1>1, <1>2, <1>3, <1>4, <1>5, <1>6, <1>7, <1>8, <1>9, <1>10, <1>11, <1>12, <1>13,
     <1>14
  DEF Next, Update, Stream, Beside

\* A ready receiver that stays selected keeps its connection, whatever happens to others.
THEOREM ReadyStaysCorrect == Spec => ReadyStays
<1>1. Inv /\ [Next]_vars => [StaysReady]_vars
  BY StaysStep
<1>. QED BY <1>1, Invariance, PTL DEF ReadyStays, Spec

-----------------------------------------------------------------------------
(* The group implements GroupPlayTime.                                     *)

\* At first nobody is on the timeline.
LEMMA TimeInit == Init => Time!Init
<1> SUFFICES ASSUME Init PROVE Time!Init
  OBVIOUS
<1>1. OnTime = {}
  BY DEF Init, OnTime, ReadyOutputs
<1>. QED BY <1>1 DEF Init, Time!Init, Time!Nobody

\* Nothing changes for the group's time.
Still == group_sync_anchor_valid' = group_sync_anchor_valid
         /\ group_sync_start_rtp' = group_sync_start_rtp
         /\ OnTime' = OnTime
         /\ \A o \in OnTime : ap2_sync_start_rtp'[o] = ap2_sync_start_rtp[o]

LEMMA StillTime == Still => UNCHANGED Time!vars
BY Zenon DEF Still, Time!vars

\* Receivers leave, and keep the time of those that stay.
Left == group_sync_anchor_valid' = group_sync_anchor_valid
        /\ group_sync_start_rtp' = group_sync_start_rtp
        /\ OnTime' \subseteq OnTime
        /\ \A o \in OnTime' : ap2_sync_start_rtp'[o] = ap2_sync_start_rtp[o]

LEMMA LeftTime == ASSUME Left PROVE \E S \in SUBSET Output : Time!Leave(S)
<1> DEFINE told == [o \in OnTime |-> ap2_sync_start_rtp[o]]
<1>1. PICK S \in SUBSET Output : S = OnTime \ OnTime'
  BY DEF OnTime, ReadyOutputs
<1>2. OnTime' = DOMAIN told \ S
  BY <1>1 DEF Left
<1>3. [o \in OnTime' |-> ap2_sync_start_rtp'[o]] = [o \in DOMAIN told \ S |-> told[o]]
  BY <1>2 DEF Left
<1>4. Time!Leave(S)
  BY <1>3, Zenon DEF Time!Leave, Left
<1>. QED BY <1>4, Zenon

\* The timeline ends and nobody is left on it.
Over == group_sync_anchor_valid' = FALSE /\ group_sync_start_rtp' = 0 /\ OnTime' = {}

LEMMA OverTime == Over => Time!End
BY DEF Over, Time!End, Time!Nobody

\* A receiver is on the timeline if its connection has begun to send.
LEMMA OnTimeStarted == Inv => OnTime = {o \in Output : ap2_sync_started[o]}
BY DEF Inv, OneAnchor, OnTime, ReadyOutputs

Playing == \E S \in SUBSET Output : Time!Play(S)

\* Closing all sessions leaves no connection that has begun to send.
LEMMA CloseAllStarted ==
  ASSUME Inv, CloseSessions(Output, {})
  PROVE  \A o \in Output : ~ap2_sync_started'[o]
<1> DEFINE T == {o \in Output : open[o] \/ rtsp_session_id[o] # 0}
<1>1. CloseConnections(T)
  BY Zenon DEF CloseSessions
<1>2. \A o \in Output : ap2_sync_started[o] => o \in T
  BY Zenon DEF Inv, OneAnchor, ReadyOutputs
<1> HIDE DEF T
<1>. QED BY <1>1, <1>2, Zenon DEF CloseConnections

\* What a step does to the group's time.
LEMMA GroupStep == Inv /\ Next => Still \/ Left \/ Over \/ Playing
<1> SUFFICES ASSUME Inv, Next PROVE Still \/ Left \/ Over \/ Playing
  OBVIOUS
<1>. OnTime = {o \in Output : ap2_sync_started[o]}
  BY OnTimeStarted
<1>. OnTime' = {o \in Output : ap2_sync_started'[o]}
  <2>1. Inv'
    BY InvStep
  <2>. QED BY <2>1, Zenon DEF Inv, OneAnchor, OnTime, ReadyOutputs
<1>1. ASSUME NEW S \in SUBSET Output,
             NEW caller \in {"setup", "connecting update", "update"}, SelectOutputs(caller, S)
      PROVE Still \/ Left \/ Over \/ Playing
  <2> DEFINE T == {p \in Output \ S : open[p] \/ rtsp_session_id[p] # 0}
  <2>1. CloseConnections(T) /\ UNCHANGED anchorVars
    BY <1>1, Zenon DEF SelectOutputs, CloseSessions
  <2> HIDE DEF T
  <2>2. \A o \in Output : ap2_sync_started'[o] =>
          ap2_sync_started[o] /\ ap2_sync_start_rtp'[o] = ap2_sync_start_rtp[o]
    BY <2>1, Zenon DEF CloseConnections
  <2>. QED BY <2>1, <2>2, Zenon DEF Left
<1>2. CASE StartConnecting
  <2>1. CASE who = "setup" \/ ~engine_open
    <3>1. \A o \in Output : ~ap2_sync_started[o]
      BY <1>2, <2>1 DEF StartConnecting, Inv, Phases, Sessions, OneAnchor
    <3>2. DropAnchor /\ UNCHANGED ap2_sync_started
      BY <1>2, <2>1, Zenon DEF StartConnecting
    <3>. QED BY <3>1, <3>2, Zenon DEF Over, DropAnchor
  <2>2. CASE ~(who = "setup" \/ ~engine_open)
    BY <1>2, <2>2, Zenon DEF StartConnecting, Still
  <2>. QED BY <2>1, <2>2
<1>3. CASE DialOpens
  <2>1. op = "dial"
    BY <1>3 DEF DialOpens
  <2>2. ~ap2_sync_started[target] /\ target \in Output
    BY <2>1 DEF Inv, Sessions, OneAnchor, TypeOK, PointsTyped
  <2>3. /\ ap2_sync_started' = [ap2_sync_started EXCEPT ![target] = FALSE]
        /\ ap2_sync_start_rtp' = [ap2_sync_start_rtp EXCEPT ![target] = 0]
        /\ UNCHANGED anchorVars
    BY <1>3, Zenon DEF DialOpens
  <2>4. \A o \in Output : ap2_sync_started'[o] = ap2_sync_started[o]
    BY <2>2, <2>3 DEF Inv, TypeOK, FlagsTyped
  <2>5. \A o \in Output : o # target => ap2_sync_start_rtp'[o] = ap2_sync_start_rtp[o]
    BY <2>3 DEF Inv, TypeOK, ConnectionsTyped
  <2>. QED BY <2>2, <2>3, <2>4, <2>5, Zenon DEF Still
<1>4. CASE ConnectedTooLate
  <2>1. DropAnchor /\ \A o \in Output : ~ap2_sync_started'[o]
    BY <1>4, CloseAllStarted, Zenon DEF ConnectedTooLate, StopEngine
  <2>. QED BY <2>1, Zenon DEF Over, DropAnchor
<1>5. CASE SetupUnwinds
  <2>1. CASE engine_open
    <3>1. DropAnchor /\ \A o \in Output : ~ap2_sync_started'[o]
      BY <1>5, <2>1, CloseAllStarted, Zenon DEF SetupUnwinds, StopEngine
    <3>. QED BY <3>1, Zenon DEF Over, DropAnchor
  <2>2. CASE ~engine_open
    BY <1>5, <2>2, Zenon DEF SetupUnwinds, KeepStream, Still
  <2>. QED BY <2>1, <2>2
<1>6. ASSUME NEW synced \in SUBSET Output, NEW sent \in SUBSET synced, Write(synced, sent)
      PROVE Still \/ Left \/ Over \/ Playing
  <2> DEFINE start == IF NeedsAnchor(group_sync_anchor_valid) THEN now - frame_cursor
                      ELSE group_sync_start_rtp
             told == [o \in OnTime |-> ap2_sync_start_rtp[o]]
  <2>1. /\ group_sync_anchor_valid' = TRUE /\ group_sync_start_rtp' = start
        /\ ap2_sync_started' = [o \in Output |-> o \in synced \/ ap2_sync_started[o]]
        /\ ap2_sync_start_rtp' = [o \in Output |-> IF o \in synced THEN SyncStart(o, start)
                                                   ELSE ap2_sync_start_rtp[o]]
    BY <1>6, Zenon DEF Write
  <2>2. start \in Int
    BY DEF Inv, TypeOK, StreamTyped, FlagsTyped, NeedsAnchor
  <2>3. group_sync_anchor_valid => start = group_sync_start_rtp
    BY Zenon DEF NeedsAnchor
  <2> HIDE DEF start
  <2>4. OnTime' = OnTime \cup synced
    BY <2>1, Zenon
  <2>5. \A o \in OnTime' :
          ap2_sync_start_rtp'[o] = IF o \in OnTime THEN ap2_sync_start_rtp[o] ELSE start
    BY <2>1, <2>4, Zenon DEF SyncStart
  <2>6. [o \in OnTime' |-> ap2_sync_start_rtp'[o]]
          = [o \in DOMAIN told \cup synced |->
               IF o \in DOMAIN told THEN told[o] ELSE group_sync_start_rtp']
    BY <2>1, <2>4, <2>5
  <2>7. Time!Play(synced)
    BY <2>1, <2>2, <2>3, <2>6, Zenon DEF Time!Play
  <2>. QED BY <2>7, Zenon DEF Playing
<1>7. ASSUME NEW done \in SUBSET Output, Flush(done) PROVE Still \/ Left \/ Over \/ Playing
  <2>1. /\ ap2_sync_started' = [o \in Output |-> o \notin done /\ ap2_sync_started[o]]
        /\ ap2_sync_start_rtp' = [o \in Output |-> IF o \in done THEN 0
                                                   ELSE ap2_sync_start_rtp[o]]
        /\ IF FlushedAll(done) THEN DropAnchor ELSE UNCHANGED anchorVars
    BY <1>7, Zenon DEF Flush
  <2>2. CASE FlushedAll(done)
    <3>1. \A o \in Output : ap2_sync_started[o] => o \in done
      BY <2>2, Zenon DEF FlushedAll, Inv, OneAnchor
    <3>. QED BY <2>1, <2>2, <3>1, Zenon DEF Over, DropAnchor
  <2>3. CASE ~FlushedAll(done)
    BY <2>1, <2>3, Zenon DEF Left
  <2>. QED BY <2>2, <2>3
<1>8. CASE Stop
  <2>1. CASE playback # "closed"
    <3>1. DropAnchor /\ \A o \in Output : ~ap2_sync_started'[o]
      BY <1>8, <2>1, CloseAllStarted, Zenon DEF Stop, StopEngine
    <3>. QED BY <3>1, Zenon DEF Over, DropAnchor
  <2>2. CASE playback = "closed"
    BY <1>8, <2>2, Zenon DEF Stop, KeepStream, Still
  <2>. QED BY <2>1, <2>2
<1>9. ASSUME NEW S \in SUBSET Output, NEW done \in SUBSET S,
             NEW caller \in {"setup", "connecting update", "update"}, SelectCancelled(caller, S, done)
      PROVE  Still \/ Left \/ Over \/ Playing
  BY <1>9, Zenon DEF Still, SelectCancelled, KeepStream
<1>10. ASSUME NEW o \in Output, ReuseSession(o) PROVE Still \/ Left \/ Over \/ Playing
  BY <1>10, Zenon DEF Still, ReuseSession, KeepStream
<1>11. ASSUME NEW o \in Output, DialBegins(o) PROVE Still \/ Left \/ Over \/ Playing
  BY <1>11, Zenon DEF Still, DialBegins, KeepStream
<1>12. ASSUME NEW o \in Output, VolumeReads(o) PROVE Still \/ Left \/ Over \/ Playing
  BY <1>12, Zenon DEF Still, VolumeReads, KeepCall
<1>13. CASE Prepare \/ VolumesFail \/ UpdateWithoutPlayback \/ DialRegisters \/ DialStarts
          \/ DialFails \/ TuneOk \/ TuneFails \/ ConnectCancelled \/ ConnectFails
          \/ Connected \/ WriteFindsNone \/ Tick \/ CancelBegins \/ CancelFlags
          \/ CancelCollects \/ VolumeSent
  <2>1. UNCHANGED <<ap2_sync_started, ap2_sync_start_rtp, group_sync_anchor_valid, group_sync_start_rtp>>
    BY <1>13, Zenon DEF Prepare, VolumesFail, KeepStream, UpdateWithoutPlayback, DialRegisters,
      DialStarts, DialFails, TuneOk, TuneFails, ConnectCancelled, ConnectFails, Connected,
      WriteFindsNone, Called, Advance, Tick, CancelBegins, KeepCall, CancelFlags,
      CancelCollects, VolumeSent
  <2>. QED BY <2>1, Zenon DEF Still
<1>. QED BY <1>1, <1>2, <1>3, <1>4, <1>5, <1>6, <1>7, <1>8, <1>9, <1>10, <1>11, <1>12, <1>13
  DEF Next, Update, Stream, Beside

\* Receivers that join late, fail, leave or are flushed one by one: the group keeps
\* what GroupPlayTime promises.
THEOREM GroupKeepsPlayTime == Spec => CommonPlayTime
<1>1. Inv /\ [Next]_vars => [Time!Next]_Time!vars
  <2> SUFFICES ASSUME Inv, [Next]_vars PROVE [Time!Next]_Time!vars
    OBVIOUS
  <2>1. CASE Next
    BY <2>1, GroupStep, StillTime, LeftTime, OverTime, Zenon DEF Time!Next, Playing
  <2>2. CASE UNCHANGED vars
    <3>1. Still
      BY <2>2, Zenon DEF vars, Still, OnTime, ReadyOutputs
    <3>. QED BY <3>1, StillTime
  <2>. QED BY <2>1, <2>2
<1>. QED BY <1>1, TimeInit, Invariance, PTL DEF Spec, CommonPlayTime, Time!Spec

=============================================================================
