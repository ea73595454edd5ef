------------------------ MODULE MultiroomOutputProofs ------------------------
(***************************************************************************)
(* Proofs about MultiroomOutput, for every packet size, buffer size and    *)
(* bound.  The invariants of MultiroomOutput are not inductive: they speak *)
(* of the moment a packet is sent or a call returns, and depend on where   *)
(* both threads were before.  ControlInv says how the two threads' control *)
(* points go together; TimelineInv accounts for every frame of an epoch,   *)
(* queued, in hand or delivered, at each step of the render loop.          *)
(***************************************************************************)
EXTENDS MultiroomOutput, SequenceTheorems, TLAPS

\* The groups of variables only shorten UNCHANGED: they are never folded.
USE DEF hostVars, callVars, queueVars, streamVars, controlVars, pcmVars,
        renderVars, packetVars, mainVars, receiverVars, notHostVars,
        notRenderVars

\* The render loop past the opening of the receivers.
LoopSteps == {"loop", "flushing", "pacing", "check", "send", "sent"}

-----------------------------------------------------------------------------
(* The inductive invariant.                                                *)

\* stop_stream() works on a stopped stream, and after the join alone; open()
\* publishes and spawns on closed receivers.
HostPhases ==
    /\ stopping <=> ~stream_open
    /\ stopping => ~started
    /\ host = "idle" => (stream_open <=> render # "none")
    /\ host \in {"cancel", "join"} => stopping /\ stop_transport /\ render # "none"
    /\ host = "stop_transport" => stopping /\ render = "none"
    /\ host \in {"prepare", "publish"} => stopping /\ render = "none" /\ transport = "closed"
    /\ host = "spawn" => ~stopping /\ render = "none" /\ transport = "closed"
    /\ host # "idle" => offer = 0

\* Where the receivers are known to be closed.
ClosedPhases ==
    /\ host = "idle" /\ ~stream_open => transport = "closed"
    /\ render \in {"start", "opening"} => transport = "closed"

ControlInv == HostPhases /\ ClosedPhases /\ ProgressHasRenderer

\* pcm_queue_ holds the newest frames of the epoch, in order.
QueueHoldsNewest ==
    /\ Len(pcm_queue) <= accepted
    /\ \A i \in 1 .. Len(pcm_queue) :
        pcm_queue[i] = [epoch |-> stream_epoch, pos |-> accepted - Len(pcm_queue) + i]

\* The epoch a packet is for, and the receivers' timeline, are never ahead; the
\* packet's epoch is behind as soon as a stop or a flush is pending.
EpochsBehind ==
    /\ epoch <= stream_epoch
    /\ timeline <= stream_epoch
    /\ render \in {"pacing", "check", "send"} =>
        /\ stopping \/ flush_requested => epoch < stream_epoch
        /\ transport = "open" => timeline = epoch

\* Receivers on another timeline than the host will be flushed or stopped.
TimelineOrFlush ==
    render \in LoopSteps \ {"flushing"} /\ transport = "open" =>
        timeline = stream_epoch \/ flush_requested \/ stopping

\* Nothing of an epoch has left the queue before the receivers are on it.
NothingPopped ==
    \/ flush_requested \/ stopping
    \/ render \in {"none", "start", "opening", "flushing"}
    => accepted = Len(pcm_queue)

\* Every accepted frame of the receivers' timeline is delivered, in hand or queued.
FramesAccounted ==
    transport = "open" /\ timeline = stream_epoch =>
        /\ render \in {"loop", "flushing", "pacing", "sent"} =>
            accepted = delivered + Len(pcm_queue)
        /\ render \in {"check", "send"} =>
            accepted = delivered + Len(packet) + Len(pcm_queue)
        /\ render = "catch" =>
            accepted - delivered <= Len(pcm_queue) + in_flight_frames

\* The packet in hand is a full or short one, and holds the next frames.
PacketInHand ==
    render \in {"check", "send"} =>
        /\ Len(packet) \in 1 .. PacketFrames
        /\ in_flight_frames = PacketFrames
        /\ transport = "open" =>
            \A i \in 1 .. Len(packet) :
                packet[i] = [epoch |-> timeline, pos |-> delivered + i]

TimelineInv ==
    /\ QueueHoldsNewest /\ EpochsBehind /\ TimelineOrFlush
    /\ NothingPopped /\ FramesAccounted /\ PacketInHand

-----------------------------------------------------------------------------
(* What writing and popping do to the queue.                               *)

\* Available is a number of frames the buffer has room for.
LEMMA AvailableRange ==
    ASSUME TypeOK
    PROVE  Available \in 0 .. Capacity /\ Len(pcm_queue) + Available <= Capacity
BY SizesAssumption, LenProperties DEF TypeOK, ValuesTyped, Available

\* write() appends the next frames of the epoch behind those already queued.
LEMMA WriteAppends ==
    ASSUME TypeOK, NEW n \in Nat
    PROVE  LET k == Least(n, Available)
               q == pcm_queue \o Written(n)
           IN  /\ k \in Nat
               /\ q \in Seq(Frame)
               /\ Len(q) = Len(pcm_queue) + k
               /\ \A i \in 1 .. Len(pcm_queue) : q[i] = pcm_queue[i]
               /\ \A i \in Len(pcm_queue) + 1 .. Len(q) :
                    q[i] = [epoch |-> stream_epoch,
                            pos |-> accepted + i - Len(pcm_queue)]
<1> DEFINE k == Least(n, Available)
           w == Written(n)
           q == pcm_queue \o w
<1>1. k \in Nat
  BY AvailableRange, SizesAssumption DEF Least
<1>2. /\ w \in Seq(Frame)
      /\ Len(w) = k
      /\ \A i \in 1 .. k : w[i] = [epoch |-> stream_epoch, pos |-> accepted + i]
  <2>1. w = [i \in 1 .. k |-> [epoch |-> stream_epoch, pos |-> accepted + i]]
    BY DEF Written
  <2>2. \A i \in 1 .. k : [epoch |-> stream_epoch, pos |-> accepted + i] \in Frame
    BY <1>1 DEF TypeOK, ValuesTyped, Frame
  <2>3. w \in [1 .. k -> Frame]
    BY <2>1, <2>2
  <2>4. w \in Seq(Frame)
    BY <2>3, <1>1, SeqDef
  <2>5. Len(w) = k
    BY <2>3, <2>4, <1>1, LenProperties
  <2>. QED BY <2>1, <2>4, <2>5
<1>3. /\ q \in Seq(Frame)
      /\ Len(q) = Len(pcm_queue) + k
      /\ \A i \in 1 .. Len(pcm_queue) + k :
            q[i] = IF i <= Len(pcm_queue) THEN pcm_queue[i] ELSE w[i - Len(pcm_queue)]
  <2>1. pcm_queue \in Seq(Frame)
    BY DEF TypeOK, ValuesTyped
  <2>. HIDE DEF w, k
  <2>2. /\ q \in Seq(Frame)
        /\ Len(q) = Len(pcm_queue) + Len(w)
        /\ \A i \in 1 .. Len(pcm_queue) + Len(w) :
              q[i] = IF i <= Len(pcm_queue) THEN pcm_queue[i] ELSE w[i - Len(pcm_queue)]
    BY <2>1, <1>2, ConcatProperties
  <2>. QED BY <2>2, <1>2
<1>4. Len(pcm_queue) \in Nat
  BY LenProperties DEF TypeOK, ValuesTyped
<1>5. \A i \in Len(pcm_queue) + 1 .. Len(q) :
        q[i] = [epoch |-> stream_epoch, pos |-> accepted + i - Len(pcm_queue)]
  <2>1. TAKE i \in Len(pcm_queue) + 1 .. Len(q)
  <2>2. i - Len(pcm_queue) \in 1 .. k /\ q[i] = w[i - Len(pcm_queue)]
    BY <2>1, <1>1, <1>3, <1>4
  <2>3. q[i] = [epoch |-> stream_epoch, pos |-> accepted + (i - Len(pcm_queue))]
    BY <2>2, <1>2
  <2>. QED BY <2>3, <1>4 DEF TypeOK, ValuesTyped
<1>. QED BY <1>1, <1>3, <1>4, <1>5

\* A pop cuts the queue in two: the packet, short only when the tail is forced
\* out, and the rest.
LEMMA PopCuts ==
    ASSUME TypeOK, PacketReady
    PROVE  LET count == Least(PacketFrames, Len(pcm_queue))
               p == SubSeq(pcm_queue, 1, count)
               q == SubSeq(pcm_queue, count + 1, Len(pcm_queue))
           IN  /\ count \in 1 .. PacketFrames /\ count <= Len(pcm_queue)
               /\ p \in Seq(Frame) /\ Len(p) = count
               /\ \A i \in 1 .. Len(p) : p[i] = pcm_queue[i]
               /\ q \in Seq(Frame) /\ Len(q) = Len(pcm_queue) - count
               /\ \A i \in 1 .. Len(q) : q[i] = pcm_queue[count + i]
<1> DEFINE count == Least(PacketFrames, Len(pcm_queue))
           p == SubSeq(pcm_queue, 1, count)
           q == SubSeq(pcm_queue, count + 1, Len(pcm_queue))
<1>1. Len(pcm_queue) \in Nat \ {0}
  BY SizesAssumption, EmptySeq, LenProperties DEF TypeOK, ValuesTyped, PacketReady
<1>2. count \in 1 .. PacketFrames /\ count <= Len(pcm_queue)
  BY <1>1, SizesAssumption DEF Least
<1>3. \A i \in 1 .. Len(pcm_queue) : pcm_queue[i] \in Frame
  BY ElementOfSeq DEF TypeOK, ValuesTyped
<1>4. /\ p \in Seq(Frame) /\ Len(p) = count
      /\ \A i \in 1 .. Len(p) : p[i] = pcm_queue[i]
  <2>1. \A i \in 1 .. count : pcm_queue[i] \in Frame
    BY <1>1, <1>2, <1>3, SizesAssumption
  <2>2. /\ p \in Seq(Frame)
        /\ Len(p) = IF 1 <= count THEN count - 1 + 1 ELSE 0
        /\ \A i \in 1 .. count - 1 + 1 : p[i] = pcm_queue[1 + i - 1]
    BY <2>1, <1>2, SizesAssumption, SubSeqProperties
  <2>. QED BY <2>2, <1>2, SizesAssumption
<1>5. /\ q \in Seq(Frame) /\ Len(q) = Len(pcm_queue) - count
      /\ \A i \in 1 .. Len(q) : q[i] = pcm_queue[count + i]
  <2> DEFINE all == Len(pcm_queue)
             size == IF count + 1 <= all THEN all - (count + 1) + 1 ELSE 0
  <2>1. \A i \in count + 1 .. all : pcm_queue[i] \in Frame
    BY <1>1, <1>2, <1>3, SizesAssumption
  <2>2. count + 1 \in Int /\ all \in Int
    BY <1>1, <1>2, SizesAssumption
  <2>3. /\ q \in Seq(Frame) /\ Len(q) = size
        /\ \A i \in 1 .. all - (count + 1) + 1 : q[i] = pcm_queue[count + 1 + i - 1]
    <3> HIDE DEF count
    <3>. QED BY <2>1, <2>2, SubSeqProperties
  <2>4. size = all - count /\ all - (count + 1) + 1 = all - count
    BY <1>1, <1>2, SizesAssumption
  <2> HIDE DEF q, count, size, all
  <2>5. ASSUME NEW i \in 1 .. Len(q) PROVE q[i] = pcm_queue[count + i]
    <3>1. q[i] = pcm_queue[count + 1 + i - 1]
      BY <2>3, <2>4, Zenon
    <3>2. count + 1 + i - 1 = count + i
      BY <1>2, SizesAssumption
    <3>. QED BY <3>1, <3>2, Zenon
  <2>6. q \in Seq(Frame) /\ Len(q) = all - count
    BY <2>3, <2>4, Zenon
  <2>. QED BY <2>5, <2>6, Zenon DEF all
<1> HIDE DEF count, p, q
<1>6. /\ count \in 1 .. PacketFrames /\ count <= Len(pcm_queue)
      /\ p \in Seq(Frame) /\ Len(p) = count
      /\ \A i \in 1 .. Len(p) : p[i] = pcm_queue[i]
      /\ q \in Seq(Frame) /\ Len(q) = Len(pcm_queue) - count
      /\ \A i \in 1 .. Len(q) : q[i] = pcm_queue[count + i]
  BY <1>2, <1>4, <1>5, Zenon
<1>. QED BY <1>6, Zenon DEF count, p, q

-----------------------------------------------------------------------------
(* Type correctness.                                                       *)

LEMMA InitType == Init => TypeOK
<1>1. Init => FlagsTyped
  BY Zenon DEF Init, FlagsTyped
<1>2. Init => ValuesTyped
  BY SizesAssumption, EmptySeq DEF Init, ValuesTyped, HostSteps, RenderSteps
<1>. QED BY <1>1, <1>2 DEF TypeOK

\* Flags stay flags.  (A lemma of its own because the leaves about Booleans
\* and those about numbers are for different provers.)
LEMMA FlagsType == FlagsTyped /\ Next => FlagsTyped'
<1> SUFFICES ASSUME FlagsTyped, Next PROVE FlagsTyped'
  OBVIOUS
<1> USE DEF FlagsTyped, RenderGoto, RenderThrows
<1>1. CASE UserPlay
  BY <1>1, Zenon DEF UserPlay
<1>2. CASE UserStop
  BY <1>2, Zenon DEF UserStop
<1>3. CASE FailureStopsHost
  BY <1>3, Zenon DEF FailureStopsHost
<1>4. CASE FailureFindsStopped
  BY <1>4, Zenon DEF FailureFindsStopped
<1>5. CASE FailureStopsTransport
  BY <1>5, Zenon DEF FailureStopsTransport
<1>6. ASSUME NEW state \in BOOLEAN, Pause(state) PROVE FlagsTyped'
  BY <1>6, Zenon DEF Pause
<1>7. CASE CanWriteSamples
  BY <1>7, Zenon DEF CanWriteSamples
<1>8. ASSUME NEW n \in 1 .. MaxWrite, Write(n) PROVE FlagsTyped'
  BY <1>8, Zenon DEF Write
<1>9. CASE OnFlush
  BY <1>9, Zenon DEF OnFlush, NextEpoch
<1>10. CASE OnForcePlay
  BY <1>10, Zenon DEF OnForcePlay
<1>11. ASSUME NEW g \in {"open", "close"}, StopBegin(g) PROVE FlagsTyped'
  BY <1>11, Zenon DEF StopBegin, NextEpoch
<1>12. CASE StopCancel
  BY <1>12, Zenon DEF StopCancel
<1>13. CASE StopJoin
  BY <1>13, Zenon DEF StopJoin
<1>14. CASE StopTransport
  BY <1>14, Zenon DEF StopTransport
<1>15. CASE OpenPrepare
  BY <1>15, Zenon DEF OpenPrepare
<1>16. CASE OpenPublish
  BY <1>16, Zenon DEF OpenPublish, NextEpoch
<1>17. CASE OpenSpawn
  BY <1>17, Zenon DEF OpenSpawn
<1>18. CASE OpenSpawnFails
  BY <1>18, Zenon DEF OpenSpawnFails
<1>19. CASE RenderStart
  BY <1>19, Zenon DEF RenderStart
<1>20. CASE OpenStream
  BY <1>20, Zenon DEF OpenStream
<1>21. CASE OpenStreamFails
  BY <1>21, Zenon DEF OpenStreamFails
<1>22. CASE LoopEnds
  BY <1>22, Zenon DEF LoopEnds
<1>23. CASE PacingRestarts
  BY <1>23, Zenon DEF PacingRestarts
<1>24. CASE FlushBegin
  BY <1>24, Zenon DEF FlushBegin
<1>25. CASE FlushTransport
  BY <1>25, Zenon DEF FlushTransport
<1>26. CASE FlushTransportFails
  BY <1>26, Zenon DEF FlushTransportFails
<1>27. CASE PacingBegin
  BY <1>27, Zenon DEF PacingBegin
<1>28. CASE PopPacket
  BY <1>28, Zenon DEF PopPacket
<1>29. CASE CheckPacket
  BY <1>29, Zenon DEF CheckPacket
<1>30. CASE PacketDone
  BY <1>30, Zenon DEF PacketDone
<1>31. CASE SendPacket
  BY <1>31, Zenon DEF SendPacket
<1>32. CASE SendPacketFails
  BY <1>32, Zenon DEF SendPacketFails
<1>33. CASE CatchException
  BY <1>33, Zenon DEF CatchException
<1>34. CASE ReportFailure
  BY <1>34, Zenon DEF ReportFailure
<1>35. CASE RenderExit
  BY <1>35, Zenon DEF RenderExit
<1>. QED
  BY <1>1, <1>2, <1>3, <1>4, <1>5, <1>6, <1>7, <1>8, <1>9, <1>10, <1>11, <1>12,
     <1>13, <1>14, <1>15, <1>16, <1>17, <1>18, <1>19, <1>20, <1>21, <1>22, <1>23, <1>24,
     <1>25, <1>26, <1>27, <1>28, <1>29, <1>30, <1>31, <1>32, <1>33, <1>34, <1>35
  DEF Next, MainThread, Host, HostStop, HostOpen, Render

\* A step of the user, or of the callback queued by a failure, keeps the types.
LEMMA MainThreadType == TypeOK /\ MainThread => ValuesTyped'
BY DEF TypeOK, ValuesTyped, MainThread, UserPlay, UserStop, FailureStopsHost,
       FailureFindsStopped, FailureStopsTransport

\* A step of the output's methods keeps the types.
LEMMA HostType == TypeOK /\ Host => ValuesTyped'
<1> SUFFICES ASSUME TypeOK, Host PROVE ValuesTyped'
  OBVIOUS
<1>. ValuesTyped
  BY DEF TypeOK
<1> USE DEF ValuesTyped
<1>1. ASSUME NEW state \in BOOLEAN, Pause(state) PROVE ValuesTyped'
  BY <1>1, SizesAssumption DEF Pause
<1>2. CASE CanWriteSamples
  BY <1>2, AvailableRange DEF CanWriteSamples
<1>3. ASSUME NEW n \in 1 .. MaxWrite, Write(n) PROVE ValuesTyped'
  <2>1. Least(n, Available) \in Nat /\ Least(n, Available) <= Available
    BY AvailableRange, SizesAssumption DEF Least
  <2>2. /\ pcm_queue' \in Seq(Frame)
        /\ Len(pcm_queue') = Len(pcm_queue) + Least(n, Available)
    BY <1>3, WriteAppends, SizesAssumption DEF Write
  <2>3. Len(pcm_queue') <= Capacity
    BY <2>1, <2>2, AvailableRange, SizesAssumption, LenProperties
    <2>. QED BY <1>3, <2>1, <2>2, <2>3, SizesAssumption DEF Write
<1>4. CASE OnFlush
  BY <1>4, EmptySeq, SizesAssumption DEF OnFlush, NextEpoch
<1>5. CASE OnForcePlay
  BY <1>5, SizesAssumption DEF OnForcePlay
<1>6. ASSUME NEW g \in {"open", "close"}, StopBegin(g) PROVE ValuesTyped'
  BY <1>6, EmptySeq, SizesAssumption DEF StopBegin, NextEpoch, HostSteps
<1>7. CASE HostStop
  BY <1>7 DEF HostStop, StopCancel, StopJoin, StopTransport, HostSteps,
              RenderSteps
<1>8. CASE OpenPublish
  BY <1>8, EmptySeq, SizesAssumption DEF OpenPublish, NextEpoch, HostSteps
<1>9. CASE OpenPrepare \/ OpenSpawn \/ OpenSpawnFails
  BY <1>9 DEF OpenPrepare, OpenSpawn, OpenSpawnFails, HostSteps, RenderSteps
<1>. QED BY <1>1, <1>2, <1>3, <1>4, <1>5, <1>6, <1>7, <1>8, <1>9 DEF Host, HostOpen

\* A step of the render loop keeps the types.
LEMMA RenderType == TypeOK /\ Render => ValuesTyped'
<1> SUFFICES ASSUME TypeOK, Render PROVE ValuesTyped'
  OBVIOUS
<1>. ValuesTyped
  BY DEF TypeOK
<1> USE DEF ValuesTyped, RenderSteps, RenderGoto, RenderThrows
<1>1. CASE RenderStart \/ LoopEnds
  BY <1>1 DEF RenderStart, LoopEnds
<1>8. CASE OpenStream \/ OpenStreamFails
  BY <1>8 DEF OpenStream, OpenStreamFails
<1>2. CASE FlushBegin
  BY <1>2 DEF FlushBegin
<1>9. CASE FlushTransport \/ FlushTransportFails
  BY <1>9, SMTT(30) DEF FlushTransport, FlushTransportFails
<1>3. CASE PacingBegin \/ PacingRestarts
  BY <1>3 DEF PacingBegin, PacingRestarts
<1>4. CASE PopPacket
  <2>1. /\ packet' \in Seq(Frame) /\ pcm_queue' \in Seq(Frame)
        /\ Len(pcm_queue') <= Len(pcm_queue)
    <3>1. PacketReady /\ Len(pcm_queue) \in Nat
      BY <1>4, LenProperties DEF PopPacket
    <3>. QED BY <1>4, <3>1, PopCuts, SizesAssumption, SMTT(30) DEF PopPacket
  <2>2. Len(pcm_queue') <= Capacity
    BY <2>1, SizesAssumption, LenProperties
  <2>. QED BY <1>4, <2>1, <2>2 DEF PopPacket
<1>5. CASE CheckPacket \/ PacketDone
  BY <1>5, EmptySeq DEF CheckPacket, PacketDone
<1>6. CASE SendPacket \/ SendPacketFails
  <2>1. Len(packet) \in Nat /\ <<>> \in Seq(Frame)
    BY EmptySeq, LenProperties
  <2>2. CASE SendPacket
    <3>1. delivered' \in Nat
      BY <2>1, <2>2 DEF SendPacket
    <3>. QED BY <2>1, <2>2, <3>1 DEF SendPacket
  <2>3. CASE SendPacketFails
    BY <2>1, <2>3 DEF SendPacketFails
  <2>. QED BY <1>6, <2>2, <2>3
<1>7. CASE CatchException \/ ReportFailure \/ RenderExit
  BY <1>7 DEF CatchException, ReportFailure, RenderExit
<1> HIDE DEF ValuesTyped, RenderSteps, RenderGoto, RenderThrows
<1>. QED BY <1>1, <1>2, <1>3, <1>4, <1>5, <1>6, <1>7, <1>8, <1>9 DEF Render

\* A step that changes nothing keeps the types.
LEMMA StutterType == TypeOK /\ UNCHANGED vars => TypeOK'
BY DEF TypeOK, FlagsTyped, ValuesTyped, vars

\* Every variable keeps its type, whatever the sizes and bounds.
THEOREM TypeCorrect == Spec => []TypeOK
<1>1. TypeOK /\ [Next]_vars => TypeOK'
  BY StutterType, FlagsType, MainThreadType, HostType, RenderType DEF Next, TypeOK
<1>. QED BY <1>1, InitType, PTL DEF Spec

-----------------------------------------------------------------------------
(* How the threads' control points go together.                            *)

LEMMA InitControl == Init => ControlInv
BY DEF Init, ControlInv, HostPhases, ClosedPhases, ProgressHasRenderer

LEMMA NextControl == TypeOK /\ ControlInv /\ Next => ControlInv'
<1> SUFFICES ASSUME TypeOK, ControlInv, Next PROVE ControlInv'
  OBVIOUS
<1> USE DEF TypeOK, ValuesTyped, HostSteps, RenderSteps,
            ControlInv, HostPhases, ClosedPhases, ProgressHasRenderer,
            RenderGoto, RenderThrows
<1>1. CASE UserPlay
  BY <1>1 DEF UserPlay
<1>2. CASE UserStop
  BY <1>2 DEF UserStop
<1>3. CASE FailureStopsHost
  BY <1>3 DEF FailureStopsHost
<1>4. CASE FailureFindsStopped
  BY <1>4 DEF FailureFindsStopped
<1>5. CASE FailureStopsTransport
  BY <1>5 DEF FailureStopsTransport
<1>6. ASSUME NEW state \in BOOLEAN, Pause(state) PROVE ControlInv'
  BY <1>6 DEF Pause
<1>7. CASE CanWriteSamples
  BY <1>7 DEF CanWriteSamples
<1>8. ASSUME NEW n \in 1 .. MaxWrite, Write(n) PROVE ControlInv'
  BY <1>8 DEF Write
<1>9. CASE OnFlush
  BY <1>9 DEF OnFlush, NextEpoch
<1>10. CASE OnForcePlay
  BY <1>10 DEF OnForcePlay
<1>11. ASSUME NEW g \in {"open", "close"}, StopBegin(g) PROVE ControlInv'
  BY <1>11 DEF StopBegin, Joinable, NextEpoch
<1>12. CASE StopCancel
  BY <1>12 DEF StopCancel
<1>13. CASE StopJoin
  BY <1>13 DEF StopJoin
<1>14. CASE StopTransport
  BY <1>14 DEF StopTransport
<1>15. CASE OpenPrepare
  BY <1>15 DEF OpenPrepare
<1>16. CASE OpenPublish
  BY <1>16 DEF OpenPublish, NextEpoch
<1>17. CASE OpenSpawn
  BY <1>17 DEF OpenSpawn
<1>18. CASE OpenSpawnFails
  BY <1>18 DEF OpenSpawnFails
<1>19. CASE RenderStart
  BY <1>19 DEF RenderStart
<1>20. CASE OpenStream
  BY <1>20 DEF OpenStream
<1>21. CASE OpenStreamFails
  BY <1>21 DEF OpenStreamFails
<1>22. CASE LoopEnds
  BY <1>22 DEF LoopEnds
<1>23. CASE FlushBegin
  BY <1>23 DEF FlushBegin
<1>24. CASE FlushTransport
  BY <1>24 DEF FlushTransport
<1>25. CASE FlushTransportFails
  BY <1>25 DEF FlushTransportFails
<1>26. CASE PacingBegin
  BY <1>26 DEF PacingBegin
<1>27. CASE PacingRestarts
  BY <1>27 DEF PacingRestarts
<1>28. CASE PopPacket
  BY <1>28 DEF PopPacket
<1>29. CASE CheckPacket
  BY <1>29 DEF CheckPacket
<1>30. CASE SendPacket
  BY <1>30 DEF SendPacket
<1>31. CASE SendPacketFails
  BY <1>31 DEF SendPacketFails
<1>32. CASE PacketDone
  BY <1>32 DEF PacketDone
<1>33. CASE CatchException
  BY <1>33 DEF CatchException
<1>34. CASE ReportFailure
  BY <1>34 DEF ReportFailure
<1>35. CASE RenderExit
  BY <1>35 DEF RenderExit
<1>. QED
  BY <1>1, <1>2, <1>3, <1>4, <1>5, <1>6, <1>7, <1>8, <1>9, <1>10, <1>11, <1>12,
     <1>13, <1>14, <1>15, <1>16, <1>17, <1>18, <1>19, <1>20, <1>21, <1>22, <1>23, <1>24,
     <1>25, <1>26, <1>27, <1>28, <1>29, <1>30, <1>31, <1>32, <1>33, <1>34, <1>35
  DEF Next, MainThread, Host, HostStop, HostOpen, Render

-----------------------------------------------------------------------------
(* Where every frame of an epoch is.                                       *)

LEMMA InitTimeline == Init => TimelineInv
BY EmptySeq
DEF Init, TimelineInv, QueueHoldsNewest, EpochsBehind, TimelineOrFlush,
    NothingPopped, FramesAccounted, PacketInHand, LoopSteps

LEMMA NextTimeline == TypeOK /\ ControlInv /\ TimelineInv /\ Next => TimelineInv'
<1> SUFFICES ASSUME TypeOK, ControlInv, TimelineInv, Next PROVE TimelineInv'
  OBVIOUS
<1>0. Len(pcm_queue) \in Nat /\ Len(packet) \in Nat
  BY LenProperties DEF TypeOK, ValuesTyped
<1> USE <1>0 DEF TypeOK, ValuesTyped, ControlInv, HostPhases, ClosedPhases,
            TimelineInv, QueueHoldsNewest, EpochsBehind, TimelineOrFlush,
            NothingPopped, FramesAccounted, PacketInHand, LoopSteps,
            RenderGoto, RenderThrows
<1>1. CASE UserPlay
  BY <1>1 DEF UserPlay
<1>2. CASE UserStop
  BY <1>2 DEF UserStop
<1>3. CASE FailureStopsHost
  BY <1>3 DEF FailureStopsHost
<1>4. CASE FailureFindsStopped
  BY <1>4 DEF FailureFindsStopped
<1>5. CASE FailureStopsTransport
  BY <1>5 DEF FailureStopsTransport
<1>6. ASSUME NEW state \in BOOLEAN, Pause(state) PROVE TimelineInv'
  BY <1>6 DEF Pause
<1>7. CASE CanWriteSamples
  BY <1>7 DEF CanWriteSamples
<1>8. ASSUME NEW n \in 1 .. MaxWrite, Write(n) PROVE TimelineInv'
  <2> DEFINE k == Least(n, Available)
  <2>1. /\ k \in Nat
        /\ accepted' = accepted + k
        /\ Len(pcm_queue') = Len(pcm_queue) + k
        /\ \A i \in 1 .. Len(pcm_queue) : pcm_queue'[i] = pcm_queue[i]
        /\ \A i \in Len(pcm_queue) + 1 .. Len(pcm_queue') :
              pcm_queue'[i] = [epoch |-> stream_epoch,
                               pos |-> accepted + i - Len(pcm_queue)]
    <3>1. n \in Nat
      BY <1>8, SizesAssumption
    <3>. HIDE DEF TypeOK
    <3>. QED BY <1>8, <3>1, WriteAppends DEF Write
  <2>2. ~stopping
    BY <1>8 DEF Write, Available
  <2> HIDE DEF k
  <2>3. QueueHoldsNewest'
    <3>1. /\ \A i \in 1 .. Len(pcm_queue) : pcm_queue[i] =
                [epoch |-> stream_epoch, pos |-> accepted - Len(pcm_queue) + i]
          /\ accepted \in Nat /\ Len(pcm_queue) <= accepted
          /\ stream_epoch' = stream_epoch
      BY <1>8 DEF Write
    <3> HIDE DEF TypeOK, ValuesTyped, ControlInv, HostPhases, ClosedPhases,
                TimelineInv, EpochsBehind, TimelineOrFlush, NothingPopped,
                FramesAccounted, PacketInHand,
                QueueHoldsNewest
    <3>2. ASSUME NEW i \in 1 .. Len(pcm_queue')
          PROVE  pcm_queue'[i] = [epoch |-> stream_epoch,
                                  pos |-> accepted' - Len(pcm_queue') + i]
      <4>1. CASE i <= Len(pcm_queue)
        <5>0. i \in 1 .. Len(pcm_queue)
          BY <4>1
        <5>1. pcm_queue'[i] = [epoch |-> stream_epoch, pos |-> accepted - Len(pcm_queue) + i]
          BY <2>1, <3>1, <5>0
        <5>2. accepted' - Len(pcm_queue') + i = accepted - Len(pcm_queue) + i
          BY <2>1, <3>1
        <5>. QED BY <5>1, <5>2
      <4>2. CASE i > Len(pcm_queue)
        <5>1. i \in Len(pcm_queue) + 1 .. Len(pcm_queue')
          BY <2>1, <4>2
        <5>2. accepted' - Len(pcm_queue') + i = accepted + i - Len(pcm_queue)
          BY <2>1, <3>1
        <5>. QED BY <2>1, <5>1, <5>2
      <4>. QED BY <2>1, <4>1, <4>2
    <3>. QED BY <2>1, <3>1, <3>2 DEF QueueHoldsNewest
  <2>4. (EpochsBehind /\ TimelineOrFlush /\ PacketInHand)'
    BY <1>8 DEF Write
  <2>5. (NothingPopped /\ FramesAccounted)'
    <3>1. NothingPopped'
      BY <1>8, <2>1, <2>2 DEF Write
    <3>2. FramesAccounted'
      <4>1. /\ FramesAccounted
            /\ accepted \in Nat /\ delivered \in Nat /\ in_flight_frames \in Nat
            /\ UNCHANGED <<render, packet, in_flight_frames, transport,
                           timeline, delivered, stream_epoch>>
        BY <1>8, SizesAssumption DEF Write
      <4> HIDE DEF TypeOK, ValuesTyped, ControlInv, HostPhases, ClosedPhases,
                TimelineInv, EpochsBehind, TimelineOrFlush, NothingPopped,
                PacketInHand, QueueHoldsNewest
      <4>2. /\ in_flight_frames' = in_flight_frames /\ delivered' = delivered
            /\ render' = render
        BY <4>1, Zenon
      <4>. QED BY <2>1, <4>1, <4>2, SMTT(30) DEF FramesAccounted
    <3>. QED BY <3>1, <3>2
  <2>. QED BY <2>3, <2>4, <2>5
<1>9. CASE OnFlush
  BY <1>9, EmptySeq DEF OnFlush, NextEpoch
<1>10. CASE OnForcePlay
  BY <1>10 DEF OnForcePlay
<1>11. ASSUME NEW g \in {"open", "close"}, StopBegin(g) PROVE TimelineInv'
  BY <1>11, EmptySeq DEF StopBegin, NextEpoch
<1>12. CASE StopCancel
  BY <1>12 DEF StopCancel
<1>13. CASE StopJoin
  BY <1>13 DEF StopJoin
<1>14. CASE StopTransport
  BY <1>14 DEF StopTransport
<1>15. CASE OpenPrepare
  BY <1>15 DEF OpenPrepare
<1>16. CASE OpenPublish
  BY <1>16, EmptySeq DEF OpenPublish, NextEpoch
<1>17. CASE OpenSpawn
  BY <1>17 DEF OpenSpawn
<1>18. CASE OpenSpawnFails
  BY <1>18 DEF OpenSpawnFails
<1>19. CASE RenderStart
  BY <1>19 DEF RenderStart
<1>20. CASE OpenStream
  BY <1>20 DEF OpenStream
<1>21. CASE OpenStreamFails
  BY <1>21 DEF OpenStreamFails
<1>22. CASE LoopEnds
  BY <1>22 DEF LoopEnds
<1>23. CASE FlushBegin
  BY <1>23 DEF FlushBegin
<1>24. CASE FlushTransport
  BY <1>24 DEF FlushTransport
<1>25. CASE FlushTransportFails
  BY <1>25, SizesAssumption DEF FlushTransportFails
<1>26. CASE PacingBegin
  BY <1>26 DEF PacingBegin
<1>27. CASE PacingRestarts
  BY <1>27 DEF PacingRestarts
<1>28. CASE PopPacket
  <2> DEFINE count == Least(PacketFrames, Len(pcm_queue))
  <2>1. /\ count \in 1 .. PacketFrames /\ count <= Len(pcm_queue)
        /\ Len(packet') = count
        /\ \A i \in 1 .. count : packet'[i] = pcm_queue[i]
        /\ Len(pcm_queue') = Len(pcm_queue) - count
        /\ \A i \in 1 .. Len(pcm_queue') : pcm_queue'[i] = pcm_queue[count + i]
    <3>. HIDE DEF TypeOK
    <3>. QED BY <1>28, PopCuts DEF PopPacket
  <2> HIDE DEF count
  <2>2. ~stopping /\ ~flush_requested /\ epoch = stream_epoch
    BY <1>28 DEF PopPacket, PacingInterrupted
  <2>3. /\ \A i \in 1 .. Len(pcm_queue) : pcm_queue[i] =
              [epoch |-> stream_epoch, pos |-> accepted - Len(pcm_queue) + i]
        /\ accepted \in Nat /\ Len(pcm_queue) <= accepted /\ delivered \in Nat
        /\ stream_epoch' = stream_epoch /\ accepted' = accepted
        /\ PacketFrames \in Nat
    BY <1>28, SizesAssumption DEF PopPacket
  <2>4. QueueHoldsNewest'
    <3> HIDE DEF TypeOK, ValuesTyped, ControlInv, HostPhases, ClosedPhases,
                TimelineInv, EpochsBehind, TimelineOrFlush, NothingPopped,
                FramesAccounted, PacketInHand,
                QueueHoldsNewest
    <3>1. ASSUME NEW i \in 1 .. Len(pcm_queue')
          PROVE  pcm_queue'[i] = [epoch |-> stream_epoch,
                                  pos |-> accepted - Len(pcm_queue') + i]
      <4>1. count + i \in 1 .. Len(pcm_queue)
        BY <2>1, <2>3
      <4>2. accepted - Len(pcm_queue') + i = accepted - Len(pcm_queue) + (count + i)
        BY <2>1, <2>3
      <4>. QED BY <2>1, <2>3, <4>1, <4>2
    <3>. QED BY <2>1, <2>3, <3>1 DEF QueueHoldsNewest
  <2>5. (EpochsBehind /\ TimelineOrFlush /\ NothingPopped)'
    BY <1>28, <2>2 DEF PopPacket
  <2>6. transport = "open" /\ timeline = stream_epoch =>
            accepted = delivered + Len(pcm_queue)
    BY <1>28 DEF PopPacket
  <2>7. /\ render' = "check" /\ in_flight_frames' = PacketFrames
        /\ transport' = transport /\ timeline' = timeline /\ delivered' = delivered
        /\ transport = "open" => timeline = stream_epoch
    BY <1>28, <2>2 DEF PopPacket
  <2>8. FramesAccounted'
    <3> HIDE DEF TypeOK, ValuesTyped, ControlInv, HostPhases, ClosedPhases,
                TimelineInv, EpochsBehind, TimelineOrFlush, NothingPopped,
                FramesAccounted, PacketInHand,
                QueueHoldsNewest
    <3>. QED BY <2>1, <2>3, <2>6, <2>7 DEF FramesAccounted
  <2>9. PacketInHand'
    <3> HIDE DEF TypeOK, ValuesTyped, ControlInv, HostPhases, ClosedPhases,
                TimelineInv, EpochsBehind, TimelineOrFlush, NothingPopped,
                FramesAccounted, PacketInHand,
                QueueHoldsNewest
    <3>1. ASSUME transport = "open", NEW i \in 1 .. count
          PROVE  packet'[i] = [epoch |-> timeline, pos |-> delivered + i]
      <4>1. i \in 1 .. Len(pcm_queue)
        BY <2>1, <2>3
      <4>2. accepted - Len(pcm_queue) + i = delivered + i
        BY <2>1, <2>3, <2>6, <2>7, <3>1
      <4>. QED BY <2>1, <2>3, <2>7, <3>1, <4>1, <4>2
    <3>. QED BY <2>1, <2>3, <2>7, <3>1 DEF PacketInHand
  <2>. QED BY <2>4, <2>5, <2>8, <2>9
<1>29. CASE CheckPacket
  BY <1>29 DEF CheckPacket, PacketIsCurrent
<1>30. CASE SendPacket
  BY <1>30, EmptySeq DEF SendPacket
<1>31. CASE SendPacketFails
  BY <1>31, EmptySeq DEF SendPacketFails
<1>32. CASE PacketDone
  BY <1>32 DEF PacketDone
<1>33. CASE CatchException
  BY <1>33 DEF CatchException
<1>34. CASE ReportFailure
  BY <1>34 DEF ReportFailure
<1>35. CASE RenderExit
  BY <1>35 DEF RenderExit
<1>. QED
  BY <1>1, <1>2, <1>3, <1>4, <1>5, <1>6, <1>7, <1>8, <1>9, <1>10, <1>11, <1>12,
     <1>13, <1>14, <1>15, <1>16, <1>17, <1>18, <1>19, <1>20, <1>21, <1>22, <1>23, <1>24,
     <1>25, <1>26, <1>27, <1>28, <1>29, <1>30, <1>31, <1>32, <1>33, <1>34, <1>35
  DEF Next, MainThread, Host, HostStop, HostOpen, Render

-----------------------------------------------------------------------------
(* The invariants of the output.                                           *)

Inv == TypeOK /\ ControlInv /\ TimelineInv

LEMMA StutterInv == ControlInv /\ TimelineInv /\ UNCHANGED vars => ControlInv' /\ TimelineInv'
BY DEF ControlInv, HostPhases, ClosedPhases, ProgressHasRenderer, TimelineInv,
       QueueHoldsNewest, EpochsBehind, TimelineOrFlush, NothingPopped,
       FramesAccounted, PacketInHand, vars

\* Every step keeps the types.
LEMMA NextType == TypeOK /\ Next => TypeOK'
BY FlagsType, MainThreadType, HostType, RenderType DEF Next, TypeOK

\* The invariant holds in every reachable state.
LEMMA Invariance == Spec => []Inv
<1>1. Init => Inv
  BY InitType, InitControl, InitTimeline DEF Inv
<1>2. Inv /\ [Next]_vars => Inv'
  BY NextType, StutterType, NextControl, NextTimeline, StutterInv DEF Inv
<1>. QED BY <1>1, <1>2, PTL DEF Spec

\* No packet crosses a flush of the receivers in either direction, and none is
\* lost, repeated or reordered between two flushes.
THEOREM TimelineCorrect == Spec => []PacketOnItsTimeline
<1>1. Inv => PacketOnItsTimeline
  BY DEF Inv, TimelineInv, PacketInHand, PacketOnItsTimeline
<1>. QED BY <1>1, Invariance, PTL

\* get_latency_samples() covers every frame accepted and not yet handed over.
THEOREM LatencyCorrect == Spec => []LatencyCoversUndelivered
<1>1. Inv => LatencyCoversUndelivered
  <2> SUFFICES ASSUME Inv, transport = "open", timeline = stream_epoch, started
               PROVE  accepted - delivered <= Latency
    BY DEF LatencyCoversUndelivered
  <2>1. /\ Len(pcm_queue) \in Nat /\ Len(packet) \in Nat
        /\ accepted \in Nat /\ delivered \in Nat /\ in_flight_frames \in Nat
    BY LenProperties, SizesAssumption DEF Inv, TypeOK, ValuesTyped
  <2>2. render \in LoopSteps \cup {"catch"}
    <3>1. host # "spawn"
      BY DEF Inv, ControlInv, HostPhases
    <3>2. render \notin {"none", "report", "exit", "done", "start", "opening"}
      BY <3>1 DEF Inv, ControlInv, ProgressHasRenderer, ClosedPhases
    <3>. QED BY <3>2 DEF Inv, TypeOK, ValuesTyped, RenderSteps, LoopSteps
  <2>3. CASE render \in {"loop", "flushing", "pacing", "sent"}
    BY <2>1, <2>3 DEF Inv, TimelineInv, FramesAccounted, Latency
  <2>4. CASE render \in {"check", "send"}
    <3>1. Len(packet) <= in_flight_frames
      BY <2>4, SizesAssumption DEF Inv, TimelineInv, PacketInHand
    <3>. QED BY <2>1, <2>4, <3>1 DEF Inv, TimelineInv, FramesAccounted, Latency
  <2>5. CASE render = "catch"
    BY <2>1, <2>5 DEF Inv, TimelineInv, FramesAccounted, Latency
  <2>. QED BY <2>2, <2>3, <2>4, <2>5 DEF LoopSteps
<1>. QED BY <1>1, Invariance, PTL

\* A stop that has returned leaves neither a render thread nor open receivers.
THEOREM StopCorrect == Spec => []StoppedMeansClosed
<1>1. Inv => StoppedMeansClosed
  BY DEF Inv, ControlInv, HostPhases, ClosedPhases, StoppedMeansClosed
<1>. QED BY <1>1, Invariance, PTL

\* A stream that reports progress has a healthy render thread.
THEOREM ProgressCorrect == Spec => []ProgressHasRenderer
<1>1. Inv => ProgressHasRenderer
  BY DEF Inv, ControlInv
<1>. QED BY <1>1, Invariance, PTL

\* What can_write_samples() answered is taken back by a failure or a call of the host
\* only: the render thread adds room.
LEMMA OfferStep == Inv /\ OfferStillHolds /\ Next => OfferStillHolds'
<1> SUFFICES ASSUME Inv, OfferStillHolds, Next PROVE OfferStillHolds'
  OBVIOUS
<1>1. ASSUME NEW state \in BOOLEAN, Pause(state) PROVE OfferStillHolds'
  <2>1. offer' = 0
    BY <1>1, Zenon DEF Pause
  <2>. QED BY <2>1 DEF OfferStillHolds
<1>2. CASE CanWriteSamples
  <2>1. offer' = Available /\ Available' = Available
    BY <1>2, Zenon DEF CanWriteSamples, Available
  <2>2. Available \in Nat
    BY AvailableRange, SizesAssumption DEF Inv
  <2>. QED BY <2>1, <2>2 DEF OfferStillHolds
<1>3. ASSUME NEW n \in 1 .. MaxWrite, Write(n) PROVE OfferStillHolds'
  <2>1. offer' = 0
    BY <1>3, Zenon DEF Write
  <2>. QED BY <2>1 DEF OfferStillHolds
<1>4. CASE OnFlush
  <2>1. offer' = 0
    BY <1>4, Zenon DEF OnFlush
  <2>. QED BY <2>1 DEF OfferStillHolds
<1>5. CASE OnForcePlay
  <2>1. offer' = 0
    BY <1>5, Zenon DEF OnForcePlay
  <2>. QED BY <2>1 DEF OfferStillHolds
<1>6. ASSUME NEW g \in {"open", "close"}, StopBegin(g) PROVE OfferStillHolds'
  <2>1. offer' = 0
    BY <1>6, Zenon DEF StopBegin
  <2>. QED BY <2>1 DEF OfferStillHolds
<1>7. CASE OpenPublish
  <2>1. offer = 0 /\ offer' = offer
    BY <1>7 DEF OpenPublish, Inv, ControlInv, HostPhases
  <2>. QED BY <2>1 DEF OfferStillHolds
<1>8. CASE OpenSpawnFails
  <2>1. offer = 0 /\ offer' = offer
    BY <1>8 DEF OpenSpawnFails, Inv, ControlInv, HostPhases
  <2>. QED BY <2>1 DEF OfferStillHolds
<1>9. CASE PopPacket
  <2>1. UNCHANGED <<started, stopping, paused, worker_error, offer>>
    BY <1>9, Zenon DEF PopPacket
  <2>2. Len(pcm_queue') <= Len(pcm_queue) /\ Len(pcm_queue') \in Nat /\ Len(pcm_queue) \in Nat
    <3>1. Len(pcm_queue) \in Nat
      BY LenProperties DEF Inv, TypeOK, ValuesTyped
    <3>2. PacketReady
      BY <1>9, Zenon DEF PopPacket
    <3>3. PICK count \in Nat : /\ count <= Len(pcm_queue)
                            /\ pcm_queue' = SubSeq(pcm_queue, count + 1, Len(pcm_queue))
                            /\ Len(pcm_queue') = Len(pcm_queue) - count
      <4>1. pcm_queue' = SubSeq(pcm_queue, Least(PacketFrames, Len(pcm_queue)) + 1,
                                Len(pcm_queue))
        BY <1>9, Zenon DEF PopPacket
      <4>2. Least(PacketFrames, Len(pcm_queue)) \in Nat
        BY <3>1, SizesAssumption DEF Least
      <4>. QED BY <3>2, <4>1, <4>2, PopCuts DEF Inv
    <3>. QED BY <3>1, <3>3
  <2>3. Available' >= Available
    BY <2>1, <2>2, SizesAssumption DEF Available
  <2>4. Available \in Nat /\ Available' \in Nat /\ offer \in Nat
    BY <2>2, SizesAssumption, AvailableRange DEF Available, Inv, TypeOK, ValuesTyped
  <2>. QED BY <2>1, <2>3, <2>4 DEF OfferStillHolds
<1>10. CASE CatchException
  <2>1. CASE worker_error'
    BY <2>1, Zenon DEF OfferStillHolds
  <2>2. CASE ~worker_error'
    <3>1. stopping /\ worker_error' = worker_error /\ offer' = offer
      BY <1>10, <2>2, Zenon DEF CatchException, Cancelled
    <3>2. Available = 0
      BY <3>1 DEF Available
    <3>3. offer = 0
      <4>1. offer \in Nat
        BY SizesAssumption DEF Inv, TypeOK, ValuesTyped
      <4>2. ~worker_error
        BY <2>2, <3>1, Zenon
      <4>. QED BY <3>2, <4>1, <4>2 DEF OfferStillHolds
    <3>. QED BY <3>1, <3>3 DEF OfferStillHolds
  <2>. QED BY <2>1, <2>2
<1>11. CASE UserPlay \/ UserStop \/ FailureStopsHost \/ FailureFindsStopped
          \/ FailureStopsTransport \/ StopCancel \/ StopJoin \/ StopTransport
          \/ OpenPrepare \/ OpenSpawn \/ RenderStart \/ OpenStream \/ OpenStreamFails
          \/ LoopEnds \/ FlushBegin \/ FlushTransport \/ FlushTransportFails
          \/ PacingBegin \/ PacingRestarts \/ CheckPacket \/ SendPacket \/ SendPacketFails
          \/ PacketDone \/ ReportFailure \/ RenderExit
  <2>1. UNCHANGED <<started, stopping, paused, worker_error, pcm_queue, offer>>
    BY <1>11, Zenon DEF UserPlay, MainThreadFree, UserStop, FailureStopsHost,
      FailureFindsStopped, FailureStopsTransport, StopCancel, StopJoin, StopTransport,
      SendMutexFree, OpenPrepare, OpenSpawn, RenderStart, OpenStream, RenderGoto,
      OpenStreamFails, RenderThrows, LoopEnds, FlushBegin, FlushTransport, FlushTransportFails,
      PacingBegin, PacketReady, PacingRestarts, PacingInterrupted, CheckPacket,
      PacketIsCurrent, SendPacket, SendPacketFails, PacketDone, ReportFailure, RenderExit
  <2>. QED BY <2>1, Zenon DEF OfferStillHolds, Available
<1>. QED BY <1>1, <1>2, <1>3, <1>4, <1>5, <1>6, <1>7, <1>8, <1>9, <1>10, <1>11
  DEF Next, MainThread, Host, HostStop, HostOpen, Render

\* A write() finds the room that was offered, unless the render thread has failed.
THEOREM OfferCorrect == Spec => []OfferStillHolds
<1>1. Init => OfferStillHolds
  BY DEF Init, OfferStillHolds
<1>2. Inv /\ OfferStillHolds /\ [Next]_vars => OfferStillHolds'
  <2>1. OfferStillHolds /\ UNCHANGED vars => OfferStillHolds'
    <3> SUFFICES ASSUME OfferStillHolds, UNCHANGED vars PROVE OfferStillHolds'
      OBVIOUS
    <3>1. UNCHANGED <<started, stopping, paused, worker_error, pcm_queue, offer>>
      BY DEF vars
    <3>. QED BY <3>1, Zenon DEF OfferStillHolds, Available
  <2>. QED BY <2>1, OfferStep
<1>. QED BY <1>1, <1>2, Invariance, PTL DEF Spec

-----------------------------------------------------------------------------
(* The output implements PlaybackTimeline.                                 *)

LEMMA TimelineInit == Init => Timeline!Init
BY DEF Init, Timeline!Init, Live

\* Every step is one of the abstract steps, or changes nothing there.
LEMMA TimelineStep == Inv /\ Next => [Timeline!Next]_Timeline!timelineVars
<1> SUFFICES ASSUME Inv, Next PROVE [Timeline!Next]_Timeline!timelineVars
  OBVIOUS
<1>0. Len(pcm_queue) \in Nat /\ Len(packet) \in Nat
  BY LenProperties DEF Inv, TypeOK, ValuesTyped
<1> USE <1>0 DEF Inv, TypeOK, ValuesTyped, ControlInv, HostPhases, ClosedPhases,
            TimelineInv, EpochsBehind, LoopSteps,
            RenderGoto, RenderThrows, Live,
            Timeline!Next, Timeline!timelineVars, Timeline!Accept,
            Timeline!NewEpoch, Timeline!Restart, Timeline!Commit,
            Timeline!Deliver, Timeline!End
<1>1. CASE UserPlay
  BY <1>1 DEF UserPlay
<1>2. CASE UserStop
  BY <1>2 DEF UserStop
<1>3. CASE FailureStopsHost
  BY <1>3 DEF FailureStopsHost
<1>4. CASE FailureFindsStopped
  BY <1>4 DEF FailureFindsStopped
<1>5. CASE FailureStopsTransport
  BY <1>5 DEF FailureStopsTransport
<1>6. ASSUME NEW state \in BOOLEAN, Pause(state) PROVE [Timeline!Next]_Timeline!timelineVars
  BY <1>6 DEF Pause
<1>7. CASE CanWriteSamples
  BY <1>7 DEF CanWriteSamples
<1>8. ASSUME NEW n \in 1 .. MaxWrite, Write(n) PROVE [Timeline!Next]_Timeline!timelineVars
  <2>1. Least(n, Available) \in Nat \ {0}
    BY <1>8, AvailableRange, SizesAssumption DEF Write, Least
  <2>2. accepted' \in Nat /\ accepted' > accepted
    BY <1>8, <2>1 DEF Write
  <2>. QED BY <1>8, <2>2 DEF Write
<1>9. CASE OnFlush
  BY <1>9 DEF OnFlush, NextEpoch
<1>10. CASE OnForcePlay
  BY <1>10 DEF OnForcePlay
<1>11. ASSUME NEW g \in {"open", "close"}, StopBegin(g) PROVE [Timeline!Next]_Timeline!timelineVars
  BY <1>11 DEF StopBegin, NextEpoch
<1>12. CASE StopCancel
  BY <1>12 DEF StopCancel
<1>13. CASE StopJoin
  BY <1>13 DEF StopJoin
<1>14. CASE StopTransport
  BY <1>14 DEF StopTransport
<1>15. CASE OpenPrepare
  BY <1>15 DEF OpenPrepare
<1>16. CASE OpenPublish
  BY <1>16 DEF OpenPublish, NextEpoch
<1>17. CASE OpenSpawn
  BY <1>17 DEF OpenSpawn
<1>18. CASE OpenSpawnFails
  BY <1>18 DEF OpenSpawnFails
<1>19. CASE RenderStart
  BY <1>19 DEF RenderStart
<1>20. CASE OpenStream
  BY <1>20 DEF OpenStream
<1>21. CASE OpenStreamFails
  BY <1>21 DEF OpenStreamFails
<1>22. CASE LoopEnds
  BY <1>22 DEF LoopEnds
<1>23. CASE FlushBegin
  BY <1>23 DEF FlushBegin
<1>24. CASE FlushTransport
  BY <1>24 DEF FlushTransport
<1>25. CASE FlushTransportFails
  BY <1>25 DEF FlushTransportFails
<1>26. CASE PacingBegin
  BY <1>26 DEF PacingBegin
<1>27. CASE PacingRestarts
  BY <1>27 DEF PacingRestarts
<1>28. CASE PopPacket
  BY <1>28 DEF PopPacket
<1>29. CASE CheckPacket
  BY <1>29 DEF CheckPacket, PacketIsCurrent, PacketInHand, FramesAccounted
<1>30. CASE SendPacket
  BY <1>30 DEF SendPacket, PacketInHand
<1>31. CASE SendPacketFails
  BY <1>31 DEF SendPacketFails
<1>32. CASE PacketDone
  BY <1>32 DEF PacketDone
<1>33. CASE CatchException
  BY <1>33 DEF CatchException
<1>34. CASE ReportFailure
  BY <1>34 DEF ReportFailure
<1>35. CASE RenderExit
  BY <1>35 DEF RenderExit
<1>. QED
  BY <1>1, <1>2, <1>3, <1>4, <1>5, <1>6, <1>7, <1>8, <1>9, <1>10, <1>11, <1>12,
     <1>13, <1>14, <1>15, <1>16, <1>17, <1>18, <1>19, <1>20, <1>21, <1>22, <1>23, <1>24,
     <1>25, <1>26, <1>27, <1>28, <1>29, <1>30, <1>31, <1>32, <1>33, <1>34, <1>35
  DEF Next, MainThread, Host, HostStop, HostOpen, Render


\* Under every schedule the receivers are given what PlaybackTimeline allows.
THEOREM OutputImplementsTimeline == Spec => ImplementsTimeline
<1>1. Inv /\ [Next]_vars => [Timeline!Next]_Timeline!timelineVars
  <2>1. UNCHANGED vars => UNCHANGED Timeline!timelineVars
    BY DEF vars, Timeline!timelineVars, Live
  <2>. QED BY <2>1, TimelineStep
<1>. QED BY <1>1, TimelineInit, Invariance, PTL
     DEF Spec, ImplementsTimeline, Timeline!Spec

-----------------------------------------------------------------------------
(* The calls into the component state.                                     *)

\* What a step does to the mapped variables: nothing, or one of the calls.
CallStep ==
    \/ UNCHANGED <<CallPhase, CallStream>>
    \/ Calls!Prepare \/ Calls!Start \/ Calls!StartFails
    \/ Calls!End \/ Calls!Cancel \/ Calls!Stop

\* A stop that joins a thread goes on to stop_playback(), a stop of a stopped
\* stream has nothing to call (HostPhases).
LEMMA CallsStep == TypeOK /\ ControlInv /\ Next => CallStep
<1> SUFFICES ASSUME TypeOK, ControlInv, Next PROVE CallStep
  OBVIOUS
<1>0. /\ host \in HostSteps /\ render \in RenderSteps /\ HostPhases
      /\ stream_open \in BOOLEAN
  BY DEF TypeOK, FlagsTyped, ValuesTyped, ControlInv
<1> USE <1>0 DEF HostSteps, RenderSteps, HostPhases, CallStep, CallPhase, CallStream,
            RenderGoto, RenderThrows
<1>1. CASE MainThread
  BY <1>1 DEF MainThread, UserPlay, UserStop, FailureStopsHost, FailureFindsStopped,
    FailureStopsTransport, hostVars, callVars, queueVars, streamVars, renderVars
<1>2. ASSUME NEW state \in BOOLEAN, Pause(state) PROVE CallStep
  BY <1>2 DEF Pause
<1>3. CASE CanWriteSamples
  BY <1>3 DEF CanWriteSamples
<1>4. ASSUME NEW n \in 1 .. MaxWrite, Write(n) PROVE CallStep
  BY <1>4 DEF Write
<1>5. CASE OnFlush
  BY <1>5 DEF OnFlush
<1>6. CASE OnForcePlay
  BY <1>6 DEF OnForcePlay
<1>7. ASSUME NEW g \in {"open", "close"}, StopBegin(g) PROVE CallStep
  BY <1>7 DEF StopBegin, Joinable
<1>8. CASE StopCancel
  BY <1>8 DEF StopCancel, Calls!Cancel
<1>9. CASE StopJoin
  BY <1>9 DEF StopJoin
<1>10. CASE StopTransport
  BY <1>10 DEF StopTransport, Calls!Stop
<1>11. CASE OpenPrepare
  BY <1>11 DEF OpenPrepare, Calls!Prepare
<1>12. CASE OpenPublish
  BY <1>12 DEF OpenPublish
<1>13. CASE OpenSpawn
  BY <1>13 DEF OpenSpawn, Calls!Start
<1>14. CASE OpenSpawnFails
  BY <1>14 DEF OpenSpawnFails, Calls!StartFails
<1>15. CASE RenderStart
  BY <1>15 DEF RenderStart, Calls!End
<1>16. CASE RenderExit
  BY <1>16 DEF RenderExit, Calls!End
<1>17. CASE OpenStream \/ OpenStreamFails \/ LoopEnds \/ FlushBegin \/ FlushTransport
           \/ FlushTransportFails \/ PacingBegin \/ PacingRestarts \/ PopPacket
           \/ CheckPacket \/ SendPacket \/ SendPacketFails \/ PacketDone
           \/ CatchException \/ ReportFailure
  <2>1. /\ render \notin {"none", "done"} /\ render' \notin {"none", "done"}
        /\ UNCHANGED <<host, stream_open>>
    BY <1>17 DEF OpenStream, OpenStreamFails, LoopEnds, FlushBegin, FlushTransport,
      FlushTransportFails, PacingBegin, PacingRestarts, PopPacket, CheckPacket,
      SendPacket, SendPacketFails, PacketDone, CatchException, ReportFailure,
      notRenderVars, hostVars, queueVars, streamVars
  <2>. QED BY <2>1
<1>. QED
  BY <1>1, <1>2, <1>3, <1>4, <1>5, <1>6, <1>7, <1>8, <1>9, <1>10, <1>11, <1>12, <1>13,
     <1>14, <1>15, <1>16, <1>17
  DEF Next, Host, HostStop, HostOpen, Render

\* Whatever the user, the receivers and the failures do, the output calls the
\* component state in the order of HostCalls.
THEOREM OutputCallsInOrder == Spec => CallsInOrder
<1>1. Init => Calls!Init
  BY DEF Init, Calls!Init, CallPhase, CallStream
<1>2. Inv /\ [Next]_vars => [Calls!Next]_Calls!callsVars
  <2>1. UNCHANGED vars => UNCHANGED Calls!callsVars
    BY DEF vars, hostVars, queueVars, streamVars, renderVars, Calls!callsVars,
      CallPhase, CallStream
  <2>2. CallStep => [Calls!Next]_Calls!callsVars
    BY Zenon DEF CallStep, Calls!Next, Calls!callsVars
  <2>. QED BY <2>1, <2>2, CallsStep DEF Inv
<1>. QED BY <1>1, <1>2, Invariance, PTL DEF Spec, CallsInOrder, Calls!Spec
=============================================================================
