-------------------------- MODULE RtspConnectionProofs --------------------------
(***************************************************************************)
(* Proofs about RtspConnection, for every number of addresses, requests    *)
(* and commands.  Who owns a socket depends on where the opening thread,   *)
(* a cancel and a close are; what an answer answers, on every request that *)
(* was given up since the connection opened; what a session has been told, *)
(* on the way its handshake took.                                          *)
(***************************************************************************)
EXTENDS RtspConnection, SequenceTheorems, TLAPS

\* The groups of variables only shorten UNCHANGED: they are never folded.
USE DEF openVars, handleVars, eventVars, timingVars, requestVars

-----------------------------------------------------------------------------
(* The inductive invariant.                                                *)

\* Steps before the event channel is dialed, with the control socket connected.
EarlySteps == {"bind", "info", "pair", "secure info", "session"}

\* Steps after the control socket is connected, up to the session.
DialedSteps == {"bind", "ready"} \cup Asking \cup EventDialing

\* Steps of close() after its own cancel, and what is left.
LateSteps == {"join event", "join timing", "gone"}

\* A close has cancelled the connection, and a retry finds it cancelled: it makes
\* no other attempt.
RetryDialsNothing ==
  /\ retried => step \in Closing \cup {"connect", "unwind", "gone"}
  /\ retried /\ step = "connect" => cancelled
  /\ step = "flags" /\ cancel_pc["opener"] # "flag" => cancelled
  /\ step \in LateSteps => cancelled
  /\ cancel_pc["opener"] # "idle" => step = "flags"

\* Every attempt makes one socket; there is one round of attempts.
SocketsCounted ==
  /\ step \in {"new"} \cup Dialing /\ ~retried => Len(sockets) <= tries
  /\ step \in EarlySteps => Len(sockets) <= 2 * Addresses /\ tries = 0
  /\ step \in EventDialing => tries <= Addresses /\ Len(sockets) <= 2 * Addresses + tries
  /\ Len(sockets) <= 3 * Addresses

\* Steps in which a socket is made and not yet stored.
Storing == step \in {"store", "event store"}

\* A handle that is set is the handle of an open socket, and of no other's.
HandlesOpen ==
  /\ handle # NoSocket => handle \in DOMAIN sockets /\ sockets[handle] = "open"
  /\ event_handle # NoSocket =>
       event_handle \in DOMAIN sockets /\ sockets[event_handle] = "open"
  /\ handle # NoSocket => handle # event_handle
  /\ Storing => /\ candidate \in DOMAIN sockets /\ sockets[candidate] = "open"
                /\ candidate # handle /\ candidate # event_handle

\* An open socket has its handle where a cancel or a close finds it, or will.
OpenHaveHandles ==
  \A s \in DOMAIN sockets :
    /\ sockets[s] # "closed twice"
    /\ sockets[s] = "open" => s = handle \/ s = event_handle \/ (Storing /\ s = candidate)

\* Where the handles are known to be empty.
HandlesEmpty ==
  /\ step \in {"new", "connect", "store"} => handle = NoSocket
  /\ step \in {"new", "event connect", "event store"} \cup Dialing \cup EarlySteps
       => event_handle = NoSocket
  /\ step = "flags" /\ cancel_pc["opener"] \in {"event", "idle"} => handle = NoSocket
  /\ step \in LateSteps => handle = NoSocket /\ event_handle = NoSocket

\* The timing worker runs from the binding of its port to the close; both workers
\* are joined by it.
WorkersJoined ==
  /\ step \in DialedSteps \ {"bind"} => timing_thread = "running" /\ timing_running
  /\ step \in {"join timing", "gone"} => event_thread = "none"
  /\ step = "gone" => timing_thread = "none"

\* A receiver with PTP that refused the early RECORD is marked for a late one.
RecordOwed ==
  /\ step \in {"peers", "stream"} /\ ap2_uses_ptp => (retry_record <=> ~recorded)
  /\ step \in {"commands", "ready"} => recorded

\* After a cancel, of which the host makes one, the control socket is gone, or about
\* to be.
CancelCloses ==
  /\ cancels = 0 => cancel_pc["host"] = "idle"
  /\ step \in DialedSteps /\ cancelled => handle = NoSocket \/ cancel_pc["host"] = "control"

\* Requests are made in a session, one at a time; nobody waits for an answer of a
\* connection that is closing.
OneRequest ==
  /\ \A u \in User : user[u].pc = "read" => request_mutex = u /\ user[u].cseq = next_cseq - 1
  /\ step \notin {"ready", "unwind"} =>
       /\ \A u \in User : user[u].pc = "idle"
       /\ unanswered = <<>> /\ inbox = <<>>
  /\ step = "unwind" => user["manager"].pc = "idle"

\* The answers that are due or have come are those of the last requests, in order,
\* one for each that was given up, and one for the request under way.
AnswersDue ==
  /\ \A i \in 1 .. Len(unanswered) : unanswered[i] = next_cseq - Len(unanswered) + i - 1
  /\ \A i \in 1 .. Len(inbox) :
       inbox[i] = next_cseq - Len(unanswered) - Len(inbox) + i - 1
  /\ Len(inbox) + Len(unanswered) <= timeouts + (IF request_mutex = "free" THEN 0 ELSE 1)

Inv ==
  /\ TypeOK /\ RetryDialsNothing /\ SocketsCounted
  /\ HandlesOpen /\ OpenHaveHandles /\ HandlesEmpty
  /\ WorkersJoined /\ RecordOwed /\ CancelCloses
  /\ OneRequest /\ AnswersDue /\ AnswersInStep

-----------------------------------------------------------------------------
(* The initial states.                                                     *)

\* There is no connection, and nothing is asked.
LEMMA InitInv == Init => Inv
<1> USE ConnectionAssumption DEF Init
<1>1. Init => TypeOK
  <2>1. Init => FlagsTyped
    BY Zenon DEF FlagsTyped, SupportsPtp
  <2>2. Init => PointsTyped
    BY DEF PointsTyped, Canceller, FirstEncoding
  <2>3. Init => SocketsTyped /\ NumbersTyped
    BY DEF SocketsTyped, NumbersTyped, NoSocket
  <2>4. Init => RequestsTyped
    BY DEF RequestsTyped, Idle
  <2>. QED BY <2>1, <2>2, <2>3, <2>4 DEF TypeOK
<1>2. Init => RetryDialsNothing /\ WorkersJoined
  BY DEF RetryDialsNothing, WorkersJoined, DialedSteps, LateSteps, Asking, EventDialing, Canceller
<1>3. Init => SocketsCounted
  BY DEF SocketsCounted, Dialing, EarlySteps, EventDialing
<1>4. Init => HandlesOpen /\ OpenHaveHandles
  BY DEF HandlesOpen, OpenHaveHandles, Storing, NoSocket
<1>5. Init => HandlesEmpty
  BY DEF HandlesEmpty, LateSteps
<1>6. Init => RecordOwed /\ CancelCloses
  BY DEF RecordOwed, CancelCloses, DialedSteps, Asking, EventDialing, Canceller
<1>7. Init => OneRequest
  BY DEF OneRequest, Idle
<1>8. Init => AnswersDue /\ AnswersInStep
  BY DEF AnswersDue, AnswersInStep
<1>. QED BY <1>1, <1>2, <1>3, <1>4, <1>5, <1>6, <1>7, <1>8 DEF Inv

-----------------------------------------------------------------------------
(* Sockets.                                                                *)

\* What a socket can be.
State == {"open", "closed", "closed twice"}

\* The sockets made so far are numbered.
LEMMA SocketDomain ==
  SocketsTyped => /\ sockets \in Seq(State) /\ Len(sockets) \in Nat
                  /\ DOMAIN sockets = 1 .. Len(sockets)
BY LenProperties DEF SocketsTyped, State

\* No address is tried twice by an attempt.
LEMMA TriesBound ==
  TypeOK => tries \in Nat /\ tries <= 2 * Addresses /\ Len(sockets) \in Nat
BY SocketDomain, ConnectionAssumption DEF TypeOK, NumbersTyped

\* NoSocket is no socket.
LEMMA NoSocketMade == SocketsTyped => NoSocket \notin DOMAIN sockets
BY SocketDomain DEF NoSocket

\* Closing a socket changes its own state and no other's.
LEMMA ClosedSocket ==
  ASSUME SocketsTyped, NEW h
  PROVE  /\ Closed(h) \in Seq(State)
         /\ Len(Closed(h)) = Len(sockets) /\ DOMAIN Closed(h) = DOMAIN sockets
         /\ \A s \in DOMAIN sockets :
              Closed(h)[s] = IF s = h /\ h # NoSocket
                             THEN IF sockets[s] = "open" THEN "closed" ELSE "closed twice"
                             ELSE sockets[s]
<1>1. sockets \in Seq(State) /\ Len(sockets) \in Nat /\ DOMAIN sockets = 1 .. Len(sockets)
  BY SocketDomain
<1>2. CASE h = NoSocket
  BY <1>1, <1>2, Zenon DEF Closed
<1>3. CASE h # NoSocket /\ h \in 1 .. Len(sockets)
  <2> DEFINE next == IF sockets[h] = "open" THEN "closed" ELSE "closed twice"
  <2>1. next \in State
    BY DEF State
  <2>2. Closed(h) = [sockets EXCEPT ![h] = next]
    BY <1>3, Zenon DEF Closed
  <2> HIDE DEF next
  <2>3. /\ Closed(h) \in Seq(State) /\ Len(Closed(h)) = Len(sockets)
        /\ \A s \in 1 .. Len(sockets) : Closed(h)[s] = IF s = h THEN next ELSE sockets[s]
    BY <1>1, <1>3, <2>1, <2>2, ExceptSeq
  <2>4. DOMAIN Closed(h) = DOMAIN sockets
    BY <2>2, Zenon
  <2>. QED BY <1>1, <1>3, <2>3, <2>4, Zenon DEF next
<1>4. CASE h # NoSocket /\ h \notin 1 .. Len(sockets)
  <2>1. sockets \in [1 .. Len(sockets) -> State]
    BY <1>1, LenProperties
  <2>2. Closed(h) = sockets
    BY <2>1, <1>4 DEF Closed
  <2>. QED BY <1>1, <1>4, <2>2
<1>. QED BY <1>2, <1>3, <1>4

\* A socket that is made is the last, and open.
LEMMA AddedSocket ==
  ASSUME SocketsTyped
  PROVE  /\ Append(sockets, "open") \in Seq(State)
         /\ Len(Append(sockets, "open")) = Len(sockets) + 1
         /\ DOMAIN Append(sockets, "open") = 1 .. Len(sockets) + 1
         /\ Append(sockets, "open")[Len(sockets) + 1] = "open"
         /\ \A s \in DOMAIN sockets : Append(sockets, "open")[s] = sockets[s]
<1>1. sockets \in Seq(State) /\ Len(sockets) \in Nat /\ DOMAIN sockets = 1 .. Len(sockets)
  BY SocketDomain
<1>2. "open" \in State
  BY DEF State
<1>. QED BY <1>1, <1>2, AppendProperties

-----------------------------------------------------------------------------
(* Types.                                                                  *)

\* The control points keep their types.
LEMMA PointsType == TypeOK /\ Next => PointsTyped'
<1> SUFFICES ASSUME TypeOK, Next PROVE PointsTyped'
  OBVIOUS
<1> USE DEF TypeOK, PointsTyped, FlagsTyped, Handshake, Dialing, Asking, EventDialing, Closing, Canceller
<1>1. CASE OpenBegins
  BY <1>1 DEF OpenBegins
<1>2. CASE ConnectGivesUp
  BY <1>2 DEF ConnectGivesUp, Throw
<1>3. CASE ConnectTries
  BY <1>3 DEF ConnectTries
<1>4. CASE ConnectStores
  BY <1>4 DEF ConnectStores
<1>5. ASSUME NEW ok \in BOOLEAN, ConnectReturns(ok) PROVE PointsTyped'
  BY <1>5 DEF ConnectReturns, NoSocket
<1>6. CASE ConnectDrops
  BY <1>6 DEF ConnectDrops, NoSocket
<1>7. CASE Binds
  BY <1>7 DEF Binds, Throw
<1>8. CASE AskInVain
  BY <1>8 DEF AskInVain, Asking, Throw, KeepButStep
<1>9. CASE AskInfo
  BY <1>9 DEF AskInfo, KeepButStep
<1>10. CASE AskPairing
  BY <1>10 DEF AskPairing, KeepButStep
<1>11. CASE AskSession
  BY <1>11 DEF AskSession, AfterEvent, KeepButStep
<1>12. CASE AskEarlyRecord
  BY <1>12 DEF AskEarlyRecord, KeepButStep
<1>13. CASE AskPeers
  BY <1>13 DEF AskPeers, KeepButStep
<1>14. CASE AskStream
  BY <1>14 DEF AskStream, KeepButStep
<1>15. CASE StreamRejected
  BY <1>15 DEF StreamRejected
<1>16. CASE AskRecord
  BY <1>16 DEF AskRecord, KeepButStep
<1>17. CASE AskCommands
  BY <1>17 DEF AskCommands, KeepButStep
<1>18. CASE EventGivesUp
  BY <1>18 DEF EventGivesUp, AfterEvent, Throw
<1>19. CASE EventTries
  BY <1>19 DEF EventTries
<1>20. CASE EventStores
  BY <1>20 DEF EventStores
<1>21. ASSUME NEW ok \in BOOLEAN, EventReturns(ok) PROVE PointsTyped'
  BY <1>21 DEF EventReturns
<1>22. CASE EventDrops
  BY <1>22 DEF EventDrops, NoSocket
<1>23. CASE EventStarts
  BY <1>23 DEF EventStarts, NoSocket, AfterEvent
<1>24. CASE HostCancels
  BY <1>24 DEF HostCancels, KeepBeside
<1>25. ASSUME NEW c \in Canceller, CancelFlag(c) PROVE PointsTyped'
  BY <1>25 DEF CancelFlag, KeepBeside
<1>26. ASSUME NEW c \in Canceller, CancelControl(c) PROVE PointsTyped'
  BY <1>26 DEF CancelControl, KeepBeside
<1>27. ASSUME NEW c \in Canceller, CancelEvent(c) PROVE PointsTyped'
  BY <1>27 DEF CancelEvent, KeepBeside
<1>28. CASE DestructorBegins
  BY <1>28 DEF DestructorBegins
<1>29. CASE CloseCancels
  BY <1>29 DEF CloseCancels, KeepClose
<1>30. CASE CloseFlags
  BY <1>30 DEF CloseFlags
<1>31. CASE CloseJoinsEvent
  BY <1>31 DEF CloseJoinsEvent, NoSocket, KeepClose
<1>32. CASE CloseResets
  BY <1>32 DEF CloseResets, NoSocket
<1>33. CASE EventReceives
  BY <1>33 DEF EventReceives, KeepWorker
<1>34. CASE EventAnswers
  BY <1>34 DEF EventAnswers, KeepWorker
<1>35. CASE EventHandled
  BY <1>35 DEF EventHandled, KeepWorker
<1>36. CASE EventEnds
  BY <1>36 DEF EventEnds, KeepWorker
<1>37. CASE TimingEnds
  BY <1>37 DEF TimingEnds, KeepWorker
<1>38. ASSUME NEW u \in User, SendFails(u) PROVE PointsTyped'
  BY <1>38 DEF SendFails, LetsGo, KeepSession
<1>39. ASSUME NEW u \in User, ReadFails(u) PROVE PointsTyped'
  BY <1>39 DEF ReadFails, LetsGo, KeepSession
<1>40. ASSUME NEW u \in User, NEW n \in 1 .. Len(inbox), NEW ok \in BOOLEAN, Reads(u, n, ok)
      PROVE PointsTyped'
  BY <1>40 DEF Reads, LetsGo, KeepSession
<1>41. ASSUME NEW u \in User, NEW n \in 1 .. 3, NEW last \in BOOLEAN, Asks(u, n, last)
      PROVE  PointsTyped'
  BY <1>41 DEF Asks, KeepSession
<1>42. ASSUME NEW u \in User, Sends(u) PROVE PointsTyped'
  BY <1>42 DEF Sends, KeepSession
<1>43. CASE Answers
  <2>1. UNCHANGED <<step, ap2_audio_encoding, cancel_pc, event_thread, timing_thread>>
    BY <1>43, Zenon DEF Answers, KeepSession
  <2>. QED BY <2>1
<1> HIDE DEF TypeOK, PointsTyped, FlagsTyped, Handshake, Dialing, Asking, EventDialing, Closing, Canceller
<1>. QED BY <1>1, <1>2, <1>3, <1>4, <1>5, <1>6, <1>7, <1>8, <1>9, <1>10, <1>11, <1>12, <1>13,
     <1>14, <1>15, <1>16, <1>17, <1>18, <1>19, <1>20, <1>21, <1>22, <1>23, <1>24, <1>25, <1>26,
     <1>27, <1>28, <1>29, <1>30, <1>31, <1>32, <1>33, <1>34, <1>35, <1>36, <1>37, <1>38, <1>39,
     <1>40, <1>41, <1>42, <1>43
  DEF Next, Opener, Cancel, Close, Workers, Requests

\* The flags.
LEMMA FlagsType == TypeOK /\ Next => FlagsTyped'
<1> SUFFICES ASSUME TypeOK, Next PROVE FlagsTyped'
  OBVIOUS
<1> USE DEF TypeOK, FlagsTyped
<1>1. CASE Binds
  BY <1>1, Zenon DEF Binds, Throw
<1>2. CASE AskEarlyRecord
  BY <1>2, Zenon DEF AskEarlyRecord, KeepButStep
<1>3. CASE StreamRejected
  BY <1>3, Zenon DEF StreamRejected
<1>4. CASE AskRecord
  BY <1>4, Zenon DEF AskRecord, KeepButStep
<1>5. CASE EventStarts
  BY <1>5, Zenon DEF EventStarts, NoSocket, AfterEvent
<1>6. ASSUME NEW c \in Canceller, CancelFlag(c) PROVE FlagsTyped'
  BY <1>6, Zenon DEF CancelFlag, KeepBeside
<1>7. CASE CloseFlags
  BY <1>7, Zenon DEF CloseFlags
<1>8. CASE CloseResets
  BY <1>8, Zenon DEF CloseResets, NoSocket
<1>9. CASE EventEnds
  BY <1>9, Zenon DEF EventEnds, KeepWorker
<1>10. ASSUME NEW u \in User, NEW n \in 1 .. 3, NEW last \in BOOLEAN, Asks(u, n, last)
      PROVE FlagsTyped'
  BY <1>10, Zenon DEF Asks, KeepSession
<1>11. ASSUME NEW ok \in BOOLEAN, ConnectReturns(ok) PROVE FlagsTyped'
  BY <1>11, Zenon DEF ConnectReturns, NoSocket
<1>12. ASSUME NEW ok \in BOOLEAN, EventReturns(ok) PROVE FlagsTyped'
  BY <1>12, Zenon DEF EventReturns
<1>13. ASSUME NEW c \in Canceller, CancelControl(c) PROVE FlagsTyped'
  BY <1>13, Zenon DEF CancelControl, KeepBeside
<1>14. ASSUME NEW c \in Canceller, CancelEvent(c) PROVE FlagsTyped'
  BY <1>14, Zenon DEF CancelEvent, KeepBeside
<1>15. ASSUME NEW u \in User, Sends(u) PROVE FlagsTyped'
  BY <1>15, Zenon DEF Sends, KeepSession
<1>16. ASSUME NEW u \in User, SendFails(u) PROVE FlagsTyped'
  BY <1>16, Zenon DEF SendFails, LetsGo, KeepSession
<1>17. ASSUME NEW u \in User, ReadFails(u) PROVE FlagsTyped'
  BY <1>17, Zenon DEF ReadFails, LetsGo, KeepSession
<1>18. ASSUME NEW u \in User, NEW n \in 1 .. Len(inbox), NEW ok \in BOOLEAN, Reads(u, n, ok)
      PROVE  FlagsTyped'
  BY <1>18, Zenon DEF Reads, LetsGo, KeepSession
<1>19. CASE OpenBegins \/ ConnectGivesUp \/ ConnectTries \/ ConnectStores \/ ConnectDrops
          \/ AskInVain \/ AskInfo \/ AskPairing \/ AskSession \/ AskPeers \/ AskStream
          \/ AskCommands \/ EventGivesUp \/ EventTries \/ EventStores \/ EventDrops
          \/ HostCancels \/ DestructorBegins \/ CloseCancels \/ CloseJoinsEvent
          \/ EventReceives \/ EventAnswers \/ EventHandled \/ TimingEnds \/ Answers
  <2>1. UNCHANGED <<ap2_uses_ptp, retried, retry_record, recorded, cancelled, torn, event_running, timing_running>>
    BY <1>19, Zenon DEF OpenBegins, ConnectGivesUp, Throw, ConnectTries, ConnectStores,
      ConnectDrops, NoSocket, AskInVain, Asking, KeepButStep, AskInfo, AskPairing, AskSession,
      AfterEvent, AskPeers, AskStream, AskCommands, EventGivesUp, EventTries, EventStores,
      EventDrops, HostCancels, KeepBeside, DestructorBegins, CloseCancels, KeepClose,
      CloseJoinsEvent, EventReceives, KeepWorker, EventAnswers, EventHandled, TimingEnds,
      Answers, KeepSession
  <2>. QED BY <2>1
<1> HIDE DEF TypeOK, FlagsTyped
<1>. QED BY <1>1, <1>2, <1>3, <1>4, <1>5, <1>6, <1>7, <1>8, <1>9, <1>10, <1>11, <1>12, <1>13,
     <1>14, <1>15, <1>16, <1>17, <1>18, <1>19
  DEF Next, Opener, Cancel, Close, Workers, Requests

\* The sockets.
LEMMA SocketsType == Inv /\ Next => SocketsTyped'
<1> SUFFICES ASSUME Inv, Next PROVE SocketsTyped'
  OBVIOUS
<1> USE ConnectionAssumption DEF Inv, TypeOK, SocketsTyped
<1>1. CASE ConnectTries
  <2>1. Len(sockets) <= tries /\ tries < 2 * Addresses
    BY <1>1, Zenon DEF ConnectTries, AddressLeft, Inv, SocketsCounted,
       RetryDialsNothing, Dialing
  <2> HIDE DEF SocketsTyped, Inv, TypeOK
  <2>. tries \in Nat /\ Len(sockets) \in Nat
    BY TriesBound, Zenon DEF Inv
  <2>2. Len(sockets) < 3 * Addresses /\ tries < 2 * Addresses
    BY <2>1
  <2>3. sockets' = Append(sockets, "open")
    BY <1>1, Zenon DEF ConnectTries
  <2>4. sockets' \in Seq(State) /\ Len(sockets') = Len(sockets) + 1
    BY <2>3, AddedSocket, Zenon DEF Inv, TypeOK
  <2>5. Len(sockets') <= 4 * Addresses
    BY <2>2, <2>4
  <2>. QED BY <2>4, <2>5, Zenon DEF SocketsTyped, State
<1>2. CASE ConnectDrops
  <2>1. sockets' = Closed(handle)
    BY <1>2, Zenon DEF ConnectDrops, CloseOwned
  <2>. QED BY <2>1, ClosedSocket DEF State
<1>3. CASE EventTries
  <2>1. Len(sockets) <= 2 * Addresses + tries /\ tries < Addresses
    BY <1>3, Zenon DEF EventTries, AddressLeft, Inv, SocketsCounted,
       RetryDialsNothing, EventDialing
  <2> HIDE DEF SocketsTyped, Inv, TypeOK
  <2>. tries \in Nat /\ Len(sockets) \in Nat
    BY TriesBound, Zenon DEF Inv
  <2>2. Len(sockets) < 3 * Addresses /\ tries < 2 * Addresses
    BY <2>1
  <2>3. sockets' = Append(sockets, "open")
    BY <1>3, Zenon DEF EventTries
  <2>4. sockets' \in Seq(State) /\ Len(sockets') = Len(sockets) + 1
    BY <2>3, AddedSocket, Zenon DEF Inv, TypeOK
  <2>5. Len(sockets') <= 4 * Addresses
    BY <2>2, <2>4
  <2>. QED BY <2>4, <2>5, Zenon DEF SocketsTyped, State
<1>4. CASE EventDrops
  <2>1. sockets' = Closed(event_handle)
    BY <1>4, Zenon DEF EventDrops, CloseOwnedEvent
  <2>. QED BY <2>1, ClosedSocket DEF State
<1>5. ASSUME NEW c \in Canceller, CancelControl(c) PROVE SocketsTyped'
  <2>1. sockets' = Closed(handle)
    BY <1>5, Zenon DEF CancelControl, CloseOwned
  <2>. QED BY <2>1, ClosedSocket DEF State
<1>6. ASSUME NEW c \in Canceller, CancelEvent(c) PROVE SocketsTyped'
  <2>1. sockets' = Closed(event_handle)
    BY <1>6, Zenon DEF CancelEvent, CloseOwnedEvent
  <2>. QED BY <2>1, ClosedSocket DEF State
<1>7. CASE CloseFlags
  <2>1. sockets' = Closed(event_handle)
    BY <1>7, Zenon DEF CloseFlags, CloseOwnedEvent
  <2>. QED BY <2>1, ClosedSocket DEF State
<1>8. ASSUME NEW ok \in BOOLEAN, ConnectReturns(ok) PROVE SocketsTyped'
  BY <1>8, Zenon DEF ConnectReturns, NoSocket
<1>9. ASSUME NEW ok \in BOOLEAN, EventReturns(ok) PROVE SocketsTyped'
  BY <1>9, Zenon DEF EventReturns
<1>10. ASSUME NEW c \in Canceller, CancelFlag(c) PROVE SocketsTyped'
  BY <1>10, Zenon DEF CancelFlag, KeepBeside
<1>11. ASSUME NEW u \in User, NEW n \in 1 .. 3, NEW last \in BOOLEAN, Asks(u, n, last)
      PROVE  SocketsTyped'
  BY <1>11, Zenon DEF Asks, KeepSession
<1>12. ASSUME NEW u \in User, Sends(u) PROVE SocketsTyped'
  BY <1>12, Zenon DEF Sends, KeepSession
<1>13. ASSUME NEW u \in User, SendFails(u) PROVE SocketsTyped'
  BY <1>13, Zenon DEF SendFails, LetsGo, KeepSession
<1>14. ASSUME NEW u \in User, ReadFails(u) PROVE SocketsTyped'
  BY <1>14, Zenon DEF ReadFails, LetsGo, KeepSession
<1>15. ASSUME NEW u \in User, NEW n \in 1 .. Len(inbox), NEW ok \in BOOLEAN, Reads(u, n, ok)
      PROVE  SocketsTyped'
  BY <1>15, Zenon DEF Reads, LetsGo, KeepSession
<1>16. CASE OpenBegins \/ ConnectGivesUp \/ ConnectStores \/ Binds \/ AskInVain
          \/ AskInfo \/ AskPairing \/ AskSession \/ AskEarlyRecord \/ AskPeers
          \/ AskStream \/ StreamRejected \/ AskRecord \/ AskCommands \/ EventGivesUp
          \/ EventStores \/ EventStarts \/ HostCancels \/ DestructorBegins \/ CloseCancels
          \/ CloseJoinsEvent \/ CloseResets \/ EventReceives \/ EventAnswers
          \/ EventHandled \/ EventEnds \/ TimingEnds \/ Answers
  <2>1. UNCHANGED <<sockets>>
    BY <1>16, Zenon DEF OpenBegins, ConnectGivesUp, Throw, ConnectStores, Binds, AskInVain,
      Asking, KeepButStep, AskInfo, AskPairing, AskSession, AfterEvent, AskEarlyRecord,
      AskPeers, AskStream, StreamRejected, AskRecord, AskCommands, EventGivesUp, EventStores,
      EventStarts, NoSocket, HostCancels, KeepBeside, DestructorBegins, CloseCancels,
      KeepClose, CloseJoinsEvent, CloseResets, EventReceives, KeepWorker, EventAnswers,
      EventHandled, EventEnds, TimingEnds, Answers, KeepSession
  <2>. QED BY <2>1
<1> HIDE DEF Inv, TypeOK, SocketsTyped
<1>. QED BY <1>1, <1>2, <1>3, <1>4, <1>5, <1>6, <1>7, <1>8, <1>9, <1>10, <1>11, <1>12, <1>13,
     <1>14, <1>15, <1>16
  DEF Next, Opener, Cancel, Close, Workers, Requests

\* The handles.
LEMMA NumbersType == Inv /\ Next => NumbersTyped'
<1> SUFFICES ASSUME Inv, Next PROVE NumbersTyped'
  OBVIOUS
<1> USE ConnectionAssumption DEF Inv, TypeOK, NumbersTyped, Socket, NoSocket
<1>1. CASE ConnectTries
  <2>1. Len(sockets) <= tries /\ tries < 2 * Addresses
    BY <1>1, Zenon DEF ConnectTries, AddressLeft, Inv, SocketsCounted,
       RetryDialsNothing, Dialing
  <2> HIDE DEF SocketsTyped, Inv, TypeOK
  <2>. tries \in Nat /\ Len(sockets) \in Nat
    BY TriesBound, Zenon DEF Inv
  <2>2. Len(sockets) < 3 * Addresses /\ tries < 2 * Addresses
    BY <2>1
  <2>3. sockets' = Append(sockets, "open")
    BY <1>1, Zenon DEF ConnectTries
  <2>4. Len(sockets') = Len(sockets) + 1
    BY <2>3, AddedSocket, Zenon DEF Inv, TypeOK
  <2>5. /\ candidate' = Len(sockets') /\ tries' = tries + 1
        /\ UNCHANGED <<handle, event_handle, event_socket, cancels, commands, next_cseq, timeouts>>
    BY <1>1, Zenon DEF ConnectTries
  <2>. QED BY <2>2, <2>4, <2>5 DEF Inv, TypeOK
<1>2. CASE ConnectStores
  BY <1>2 DEF ConnectStores
<1>3. ASSUME NEW ok \in BOOLEAN, ConnectReturns(ok) PROVE NumbersTyped'
  BY <1>3 DEF ConnectReturns, NoSocket
<1>4. CASE ConnectDrops
  BY <1>4 DEF ConnectDrops, CloseOwned, NoSocket
<1>5. CASE EventGivesUp
  <2>1. tries' = 0
        /\ UNCHANGED <<candidate, handle, event_handle, event_socket, cancels, commands, next_cseq, timeouts>>
    BY <1>5, Zenon DEF EventGivesUp
  <2>. QED BY <2>1
<1>6. CASE EventTries
  <2>1. Len(sockets) <= 2 * Addresses + tries /\ tries < Addresses
    BY <1>6, Zenon DEF EventTries, AddressLeft, Inv, SocketsCounted,
       RetryDialsNothing, EventDialing
  <2> HIDE DEF SocketsTyped, Inv, TypeOK
  <2>. tries \in Nat /\ Len(sockets) \in Nat
    BY TriesBound, Zenon DEF Inv
  <2>2. Len(sockets) < 3 * Addresses /\ tries < 2 * Addresses
    BY <2>1
  <2>3. sockets' = Append(sockets, "open")
    BY <1>6, Zenon DEF EventTries
  <2>4. Len(sockets') = Len(sockets) + 1
    BY <2>3, AddedSocket, Zenon DEF Inv, TypeOK
  <2>5. /\ candidate' = Len(sockets') /\ tries' = tries + 1
        /\ UNCHANGED <<handle, event_handle, event_socket, cancels, commands, next_cseq, timeouts>>
    BY <1>6, Zenon DEF EventTries
  <2>. QED BY <2>2, <2>4, <2>5 DEF Inv, TypeOK
<1>7. CASE EventStores
  BY <1>7 DEF EventStores
<1>8. CASE EventDrops
  BY <1>8 DEF EventDrops, CloseOwnedEvent, NoSocket
<1>9. CASE EventStarts
  <2>1. tries' = 0 /\ candidate' = NoSocket /\ event_socket' \in {event_socket, event_handle}
        /\ UNCHANGED <<handle, event_handle, cancels, commands, next_cseq, timeouts>>
    BY <1>9, Zenon DEF EventStarts
  <2>. QED BY <2>1
<1>10. CASE HostCancels
  BY <1>10 DEF HostCancels, KeepBeside
<1>11. ASSUME NEW c \in Canceller, CancelControl(c) PROVE NumbersTyped'
  BY <1>11 DEF CancelControl, CloseOwned, NoSocket, KeepBeside
<1>12. ASSUME NEW c \in Canceller, CancelEvent(c) PROVE NumbersTyped'
  BY <1>12 DEF CancelEvent, CloseOwnedEvent, NoSocket, KeepBeside
<1>13. CASE CloseFlags
  BY <1>13 DEF CloseFlags, CloseOwnedEvent, NoSocket
<1>14. CASE CloseJoinsEvent
  BY <1>14 DEF CloseJoinsEvent, NoSocket, KeepClose
<1>15. CASE CloseResets
  <2>1. tries' = 0 /\ candidate' = NoSocket /\ next_cseq' = 1
        /\ UNCHANGED <<handle, event_handle, event_socket, cancels, commands, timeouts>>
    BY <1>15, Zenon DEF CloseResets
  <2>. QED BY <2>1
<1>16. CASE EventReceives
  BY <1>16 DEF EventReceives, KeepWorker
<1>17. ASSUME NEW u \in User, Sends(u) PROVE NumbersTyped'
  BY <1>17 DEF Sends, KeepSession
<1>18. ASSUME NEW u \in User, ReadFails(u) PROVE NumbersTyped'
  BY <1>18 DEF ReadFails, LetsGo, KeepSession
<1>19. ASSUME NEW ok \in BOOLEAN, EventReturns(ok) PROVE NumbersTyped'
  BY <1>19, Zenon DEF EventReturns
<1>20. ASSUME NEW c \in Canceller, CancelFlag(c) PROVE NumbersTyped'
  BY <1>20, Zenon DEF CancelFlag, KeepBeside
<1>21. ASSUME NEW u \in User, NEW n \in 1 .. 3, NEW last \in BOOLEAN, Asks(u, n, last)
      PROVE  NumbersTyped'
  BY <1>21, Zenon DEF Asks, KeepSession
<1>22. ASSUME NEW u \in User, SendFails(u) PROVE NumbersTyped'
  BY <1>22, Zenon DEF SendFails, LetsGo, KeepSession
<1>23. ASSUME NEW u \in User, NEW n \in 1 .. Len(inbox), NEW ok \in BOOLEAN, Reads(u, n, ok)
      PROVE  NumbersTyped'
  BY <1>23, Zenon DEF Reads, LetsGo, KeepSession
<1>24. CASE OpenBegins \/ ConnectGivesUp \/ Binds \/ AskInVain \/ AskInfo \/ AskPairing
          \/ AskSession \/ AskEarlyRecord \/ AskPeers \/ AskStream \/ StreamRejected
          \/ AskRecord \/ AskCommands \/ DestructorBegins \/ CloseCancels \/ EventAnswers
          \/ EventHandled \/ EventEnds \/ TimingEnds \/ Answers
  <2>1. UNCHANGED <<tries, candidate, handle, event_handle, event_socket, cancels, commands, next_cseq, timeouts>>
    BY <1>24, Zenon DEF OpenBegins, ConnectGivesUp, Throw, Binds, AskInVain, Asking,
      KeepButStep, AskInfo, AskPairing, AskSession, AfterEvent, AskEarlyRecord, AskPeers,
      AskStream, StreamRejected, AskRecord, AskCommands, DestructorBegins, CloseCancels,
      KeepClose, EventAnswers, KeepWorker, EventHandled, EventEnds, TimingEnds, Answers,
      KeepSession
  <2>. QED BY <2>1
<1> HIDE DEF Inv, TypeOK, NumbersTyped, Socket, NoSocket
<1>. QED BY <1>1, <1>2, <1>3, <1>4, <1>5, <1>6, <1>7, <1>8, <1>9, <1>10, <1>11, <1>12, <1>13,
     <1>14, <1>15, <1>16, <1>17, <1>18, <1>19, <1>20, <1>21, <1>22, <1>23, <1>24
  DEF Next, Opener, Cancel, Close, Workers, Requests

\* The requests.
LEMMA RequestsType == TypeOK /\ Next => RequestsTyped'
<1> SUFFICES ASSUME TypeOK, Next PROVE RequestsTyped'
  OBVIOUS
<1> USE DEF TypeOK, RequestsTyped, User
<1>1. CASE DestructorBegins
  BY <1>1 DEF DestructorBegins
<1>2. ASSUME NEW u \in User, NEW n \in 1 .. 3, NEW last \in BOOLEAN, Asks(u, n, last)
      PROVE RequestsTyped'
  <2>1. user' = [user EXCEPT ![u] = [@ EXCEPT !.pc = "wait", !.left = n]]
    BY <1>2, Zenon DEF Asks
  <2>2. UNCHANGED <<request_mutex, unanswered, inbox, taken>>
    BY <1>2, Zenon DEF Asks
  <2>3. [user[u] EXCEPT !.pc = "wait", !.left = n]
          \in [pc : {"idle", "wait", "read"}, left : 0 .. 3, cseq : Nat]
    <3>1. n \in 0 .. 3 /\ user[u] \in [pc : {"idle", "wait", "read"}, left : 0 .. 3, cseq : Nat]
      OBVIOUS
    <3> HIDE DEF TypeOK, RequestsTyped
    <3>. QED BY <3>1
  <2>. QED BY <2>1, <2>2, <2>3, Zenon
<1>3. ASSUME NEW u \in User, Sends(u) PROVE RequestsTyped'
  <2>1. PICK k \in Nat :
          /\ user' = [user EXCEPT ![u] = [@ EXCEPT !.pc = "read", !.cseq = k]]
          /\ unanswered' = Append(unanswered, k)
    BY <1>3, Zenon DEF Sends, NumbersTyped
  <2>2. request_mutex' = u /\ UNCHANGED <<inbox, taken>>
    BY <1>3, Zenon DEF Sends
  <2>3. Append(unanswered, k) \in Seq(Nat)
    BY AppendProperties
  <2>. QED BY <2>1, <2>2, <2>3
<1>4. ASSUME NEW u \in User, SendFails(u) PROVE RequestsTyped'
  BY <1>4 DEF SendFails, Ended, Idle, LetsGo, KeepSession
<1>5. ASSUME NEW u \in User, ReadFails(u) PROVE RequestsTyped'
  BY <1>5 DEF ReadFails, Ended, Idle, LetsGo, KeepSession
<1>6. ASSUME NEW u \in User, NEW n \in 1 .. Len(inbox), NEW ok \in BOOLEAN, Reads(u, n, ok)
      PROVE RequestsTyped'
  <2>1. inbox # <<>> /\ n \in Int /\ Len(inbox) \in Nat
    BY <1>6, EmptySeq, LenProperties
  <2>2. taken' \in [asked : Nat, answered : Nat]
    <3>1. Head(inbox) \in Nat
      BY <2>1, HeadTailProperties
    <3>2. user[u].cseq \in Nat
      OBVIOUS
    <3>3. taken' = [asked |-> user[u].cseq, answered |-> Head(inbox)]
      BY <1>6, Zenon DEF Reads, FirstAnswer
    <3>. QED BY <3>1, <3>2, <3>3
  <2>3. inbox' \in Seq(Nat)
    <3>1. inbox' = SubSeq(inbox, n + 1, Len(inbox))
      BY <1>6, Zenon DEF Reads
    <3>2. \A i \in n + 1 .. Len(inbox) : inbox[i] \in Nat
      BY <2>1, ElementOfSeq
    <3>. QED BY <2>1, <3>1, <3>2, SubSeqProperties, SMTT(30)
  <2>4. user' \in [User -> [pc : {"idle", "wait", "read"}, left : 0 .. 3, cseq : Nat]]
    <3>1. CASE user' = [user EXCEPT ![u] = Idle]
      BY <3>1 DEF Idle
    <3>2. ASSUME user[u].left > 1,
                 user' = [user EXCEPT ![u] = [pc |-> "wait", left |-> @.left - 1, cseq |-> 0]]
          PROVE  user' \in [User -> [pc : {"idle", "wait", "read"}, left : 0 .. 3, cseq : Nat]]
      BY <3>2, SMTT(30)
    <3>. QED BY <1>6, <3>1, <3>2, Zenon DEF Reads, Ended
  <2>5. request_mutex' = "free" /\ UNCHANGED unanswered
    BY <1>6, Zenon DEF Reads
  <2>. QED BY <2>2, <2>3, <2>4, <2>5, Zenon
<1>7. CASE Answers
  BY <1>7 DEF Answers, KeepSession
<1>8. ASSUME NEW ok \in BOOLEAN, ConnectReturns(ok) PROVE RequestsTyped'
  BY <1>8 DEF ConnectReturns, NoSocket
<1>9. ASSUME NEW ok \in BOOLEAN, EventReturns(ok) PROVE RequestsTyped'
  BY <1>9 DEF EventReturns
<1>10. ASSUME NEW c \in Canceller, CancelFlag(c) PROVE RequestsTyped'
  BY <1>10 DEF CancelFlag, KeepBeside
<1>11. ASSUME NEW c \in Canceller, CancelControl(c) PROVE RequestsTyped'
  BY <1>11 DEF CancelControl, KeepBeside
<1>12. ASSUME NEW c \in Canceller, CancelEvent(c) PROVE RequestsTyped'
  BY <1>12 DEF CancelEvent, KeepBeside
<1>13. CASE OpenBegins \/ ConnectGivesUp \/ ConnectTries \/ ConnectStores \/ ConnectDrops
          \/ Binds \/ AskInVain \/ AskInfo \/ AskPairing \/ AskSession \/ AskEarlyRecord
          \/ AskPeers \/ AskStream \/ StreamRejected \/ AskRecord \/ AskCommands
          \/ EventGivesUp \/ EventTries \/ EventStores \/ EventDrops \/ EventStarts
          \/ HostCancels \/ CloseCancels \/ CloseFlags \/ CloseJoinsEvent \/ CloseResets
          \/ EventReceives \/ EventAnswers \/ EventHandled \/ EventEnds \/ TimingEnds
  <2>1. UNCHANGED <<request_mutex, user, unanswered, inbox, taken>>
    BY <1>13, Zenon DEF OpenBegins, ConnectGivesUp, Throw, ConnectTries, ConnectStores,
      ConnectDrops, NoSocket, Binds, AskInVain, Asking, KeepButStep, AskInfo, AskPairing,
      AskSession, AfterEvent, AskEarlyRecord, AskPeers, AskStream, StreamRejected, AskRecord,
      AskCommands, EventGivesUp, EventTries, EventStores, EventDrops, EventStarts, HostCancels,
      KeepBeside, CloseCancels, KeepClose, CloseFlags, CloseJoinsEvent, CloseResets,
      EventReceives, KeepWorker, EventAnswers, EventHandled, EventEnds, TimingEnds
  <2>. QED BY <2>1
<1> HIDE DEF TypeOK, RequestsTyped, User
<1>. QED BY <1>1, <1>2, <1>3, <1>4, <1>5, <1>6, <1>7, <1>8, <1>9, <1>10, <1>11, <1>12, <1>13
  DEF Next, Opener, Cancel, Close, Workers, Requests

\* All variables keep their types.
LEMMA TypeStep == Inv /\ Next => TypeOK'
BY PointsType, FlagsType, SocketsType, NumbersType, RequestsType DEF Inv, TypeOK

-----------------------------------------------------------------------------
(* The steps.                                                              *)

\* A request that ends the session is one of a session.
LEMMA LetsGoInSession ==
  ASSUME OneRequest, NEW u \in User, user[u].pc \in {"wait", "read"}, LetsGo(u)
  PROVE  step' = step \/ (step = "ready" /\ step' = "unwind")
BY DEF OneRequest, LetsGo, User

\* A retry stays cancelled.
LEMMA RetryStep == Inv /\ Next => RetryDialsNothing'
<1> SUFFICES ASSUME Inv, Next PROVE RetryDialsNothing'
  OBVIOUS
<1> USE DEF Inv, TypeOK, PointsTyped, FlagsTyped, RetryDialsNothing, Asking, EventDialing, Closing, LateSteps, Canceller
<1>1. CASE OpenBegins
  BY <1>1 DEF OpenBegins
<1>2. CASE ConnectGivesUp
  BY <1>2 DEF ConnectGivesUp, Throw
<1>3. CASE ConnectTries
  BY <1>3 DEF ConnectTries
<1>4. CASE ConnectStores
  BY <1>4 DEF ConnectStores
<1>5. ASSUME NEW ok \in BOOLEAN, ConnectReturns(ok) PROVE RetryDialsNothing'
  BY <1>5 DEF ConnectReturns, NoSocket
<1>6. CASE ConnectDrops
  BY <1>6 DEF ConnectDrops, NoSocket
<1>7. CASE Binds
  BY <1>7 DEF Binds, Throw
<1>8. CASE AskInVain
  BY <1>8 DEF AskInVain, Asking, Throw, KeepButStep
<1>9. CASE AskInfo
  BY <1>9 DEF AskInfo, KeepButStep
<1>10. CASE AskPairing
  BY <1>10 DEF AskPairing, KeepButStep
<1>11. CASE AskSession
  BY <1>11 DEF AskSession, AfterEvent, KeepButStep
<1>12. CASE AskEarlyRecord
  BY <1>12 DEF AskEarlyRecord, KeepButStep
<1>13. CASE AskPeers
  BY <1>13 DEF AskPeers, KeepButStep
<1>14. CASE AskStream
  BY <1>14 DEF AskStream, KeepButStep
<1>15. CASE StreamRejected
  BY <1>15 DEF StreamRejected
<1>16. CASE AskRecord
  BY <1>16 DEF AskRecord, KeepButStep
<1>17. CASE AskCommands
  BY <1>17 DEF AskCommands, KeepButStep
<1>18. CASE EventGivesUp
  BY <1>18 DEF EventGivesUp, AfterEvent, Throw
<1>19. CASE EventTries
  BY <1>19 DEF EventTries
<1>20. CASE EventStores
  BY <1>20 DEF EventStores
<1>21. ASSUME NEW ok \in BOOLEAN, EventReturns(ok) PROVE RetryDialsNothing'
  BY <1>21 DEF EventReturns
<1>22. CASE EventDrops
  BY <1>22 DEF EventDrops, NoSocket
<1>23. CASE EventStarts
  BY <1>23 DEF EventStarts, NoSocket, AfterEvent
<1>24. CASE HostCancels
  BY <1>24 DEF HostCancels, KeepBeside
<1>25. ASSUME NEW c \in Canceller, CancelFlag(c) PROVE RetryDialsNothing'
  BY <1>25 DEF CancelFlag, KeepBeside
<1>26. ASSUME NEW c \in Canceller, CancelControl(c) PROVE RetryDialsNothing'
  BY <1>26 DEF CancelControl, KeepBeside
<1>27. ASSUME NEW c \in Canceller, CancelEvent(c) PROVE RetryDialsNothing'
  BY <1>27 DEF CancelEvent, KeepBeside
<1>28. CASE DestructorBegins
  BY <1>28 DEF DestructorBegins
<1>29. CASE CloseCancels
  BY <1>29 DEF CloseCancels, KeepClose
<1>30. CASE CloseFlags
  BY <1>30 DEF CloseFlags
<1>31. CASE CloseJoinsEvent
  BY <1>31 DEF CloseJoinsEvent, NoSocket, KeepClose
<1>32. CASE CloseResets
  BY <1>32 DEF CloseResets, NoSocket
<1>33. ASSUME NEW u \in User, SendFails(u) PROVE RetryDialsNothing'
  <2>1. UNCHANGED <<retried, cancelled, cancel_pc>>
    BY <1>33, Zenon DEF SendFails, KeepSession
  <2>2. step' = step \/ (step = "ready" /\ step' = "unwind")
    <3>1. user[u].pc \in {"wait", "read"} /\ (LetsGo(u) \/ step' = step)
      BY <1>33, Zenon DEF SendFails
    <3>. QED BY <3>1, LetsGoInSession DEF Inv
  <2>. QED BY <2>1, <2>2
<1>34. ASSUME NEW u \in User, ReadFails(u) PROVE RetryDialsNothing'
  <2>1. UNCHANGED <<retried, cancelled, cancel_pc>>
    BY <1>34, Zenon DEF ReadFails, KeepSession
  <2>2. step' = step \/ (step = "ready" /\ step' = "unwind")
    <3>1. user[u].pc \in {"wait", "read"} /\ (LetsGo(u) \/ step' = step)
      BY <1>34, Zenon DEF ReadFails
    <3>. QED BY <3>1, LetsGoInSession DEF Inv
  <2>. QED BY <2>1, <2>2
<1>35. ASSUME NEW u \in User, NEW n \in 1 .. Len(inbox), NEW ok \in BOOLEAN, Reads(u, n, ok)
      PROVE RetryDialsNothing'
  <2>1. UNCHANGED <<retried, cancelled, cancel_pc>>
    BY <1>35, Zenon DEF Reads, KeepSession
  <2>2. step' = step \/ (step = "ready" /\ step' = "unwind")
    <3>1. user[u].pc \in {"wait", "read"} /\ (LetsGo(u) \/ step' = step)
      BY <1>35, Zenon DEF Reads
    <3>. QED BY <3>1, LetsGoInSession DEF Inv
  <2>. QED BY <2>1, <2>2
<1>36. ASSUME NEW u \in User, NEW n \in 1 .. 3, NEW last \in BOOLEAN, Asks(u, n, last)
      PROVE  RetryDialsNothing'
  BY <1>36 DEF Asks, KeepSession
<1>37. ASSUME NEW u \in User, Sends(u) PROVE RetryDialsNothing'
  BY <1>37 DEF Sends, KeepSession
<1>38. CASE EventReceives \/ EventAnswers \/ EventHandled \/ EventEnds \/ TimingEnds
          \/ Answers
  <2>1. UNCHANGED <<step, retried, cancelled, cancel_pc>>
    BY <1>38, Zenon DEF EventReceives, KeepWorker, EventAnswers, EventHandled, EventEnds,
      TimingEnds, Answers, KeepSession
  <2>. QED BY <2>1
<1> HIDE DEF Inv, TypeOK, PointsTyped, FlagsTyped, RetryDialsNothing, Asking, EventDialing, Closing, LateSteps, Canceller
<1>. QED BY <1>1, <1>2, <1>3, <1>4, <1>5, <1>6, <1>7, <1>8, <1>9, <1>10, <1>11, <1>12, <1>13,
     <1>14, <1>15, <1>16, <1>17, <1>18, <1>19, <1>20, <1>21, <1>22, <1>23, <1>24, <1>25, <1>26,
     <1>27, <1>28, <1>29, <1>30, <1>31, <1>32, <1>33, <1>34, <1>35, <1>36, <1>37, <1>38
  DEF Next, Opener, Cancel, Close, Workers, Requests

\* The sockets are counted.
LEMMA CountStep == Inv /\ Next => SocketsCounted'
<1> SUFFICES ASSUME Inv, Next PROVE SocketsCounted'
  OBVIOUS
<1>. SocketsCounted /\ TypeOK
  BY Zenon DEF Inv
<1> USE ConnectionAssumption
<1>1. CASE OpenBegins
  BY <1>1 DEF OpenBegins, SocketsCounted, EventDialing, Dialing, EarlySteps, Asking, Closing
<1>2. CASE ConnectGivesUp
  BY <1>2 DEF ConnectGivesUp, Throw, SocketsCounted, EventDialing, Dialing, EarlySteps, Asking,
    Closing
<1>3. CASE ConnectTries
  <2>1. Len(sockets) <= tries /\ tries < 2 * Addresses
    BY <1>3, Zenon DEF ConnectTries, AddressLeft, Inv, SocketsCounted,
       RetryDialsNothing, Dialing
  <2> HIDE DEF SocketsTyped, Inv, TypeOK
  <2>. tries \in Nat /\ Len(sockets) \in Nat
    BY TriesBound, Zenon DEF Inv
  <2>2. Len(sockets) < 3 * Addresses /\ tries < 2 * Addresses
    BY <2>1
  <2>3. sockets' = Append(sockets, "open")
    BY <1>3, Zenon DEF ConnectTries
  <2>4. Len(sockets') = Len(sockets) + 1
    BY <2>3, AddedSocket, Zenon DEF Inv, TypeOK
  <2>5. tries' = tries + 1
    BY <1>3, Zenon DEF ConnectTries
  <2>6. Len(sockets') <= 3 * Addresses /\ Len(sockets') <= tries'
    BY <2>1, <2>2, <2>4, <2>5
  <2>7. step' = "store" /\ UNCHANGED retried
    BY <1>3, Zenon DEF ConnectTries
  <2>. QED BY <2>6, <2>7, Zenon
       DEF SocketsCounted, EventDialing, Dialing, EarlySteps
<1>4. CASE ConnectStores
  BY <1>4 DEF ConnectStores, SocketsCounted, EventDialing, Dialing, EarlySteps, Asking, Closing
<1>5. ASSUME NEW ok \in BOOLEAN, ConnectReturns(ok) PROVE SocketsCounted'
  <2>1. step = "dial" /\ UNCHANGED <<sockets, retried>>
    BY <1>5, Zenon DEF ConnectReturns
  <2>2. (step' = "bind" /\ tries' = 0) \/ (step' = "drop" /\ tries' = tries)
    BY <1>5, Zenon DEF ConnectReturns
  <2>3. ~retried /\ Len(sockets) <= tries
    BY <2>1, Zenon DEF Inv, RetryDialsNothing, Closing, SocketsCounted, Dialing
  <2>4. tries \in Nat /\ tries <= 2 * Addresses /\ Len(sockets) \in Nat
    BY TriesBound, Zenon DEF Inv
  <2>5. /\ Len(sockets') <= 3 * Addresses /\ Len(sockets') <= 2 * Addresses
        /\ Len(sockets') <= tries
    BY <2>1, <2>3, <2>4
  <2>. QED BY <2>1, <2>2, <2>5, Zenon
       DEF SocketsCounted, EventDialing, Dialing, EarlySteps
<1>6. CASE ConnectDrops
  <2>1. sockets' = Closed(handle)
    BY <1>6, Zenon DEF ConnectDrops, CloseOwned
  <2>2. Len(sockets') = Len(sockets)
    BY <2>1, ClosedSocket, Zenon DEF Inv, TypeOK
  <2>3. step = "drop" /\ step' = "connect" /\ UNCHANGED <<tries, retried>>
    BY <1>6, Zenon DEF ConnectDrops, KeepBeside
  <2>. QED BY <2>2, <2>3, Zenon
       DEF SocketsCounted, EventDialing, Dialing, EarlySteps
<1>7. CASE Binds
  BY <1>7 DEF Binds, Throw, SocketsCounted, EventDialing, Dialing, EarlySteps, Asking, Closing
<1>8. CASE AskInVain
  BY <1>8 DEF AskInVain, Asking, Throw, KeepButStep, SocketsCounted, EventDialing, Dialing,
    EarlySteps, Closing
<1>9. CASE AskInfo
  BY <1>9 DEF AskInfo, KeepButStep, SocketsCounted, EventDialing, Dialing, EarlySteps, Asking,
    Closing
<1>10. CASE AskPairing
  BY <1>10 DEF AskPairing, KeepButStep, SocketsCounted, EventDialing, Dialing, EarlySteps,
    Asking, Closing
<1>11. CASE AskSession
  <2>1. step = "session" /\ UNCHANGED <<sockets, retried, tries>>
    BY <1>11, Zenon DEF AskSession, KeepButStep
  <2>2. step' \in {"event connect", "early record", "stream"}
    BY <1>11, Zenon DEF AskSession, AfterEvent
  <2>3. tries = 0 /\ Len(sockets) <= 2 * Addresses
    BY <2>1, Zenon DEF SocketsCounted, EarlySteps
  <2>4. Len(sockets') <= 3 * Addresses /\ tries' <= Addresses
        /\ Len(sockets') <= 2 * Addresses + tries'
    BY <2>1, <2>3, TriesBound
  <2>. QED BY <2>1, <2>2, <2>4, Zenon
       DEF SocketsCounted, EventDialing, Dialing, EarlySteps
<1>12. CASE AskEarlyRecord
  BY <1>12 DEF AskEarlyRecord, KeepButStep, SocketsCounted, EventDialing, Dialing, EarlySteps,
    Asking, Closing
<1>13. CASE AskPeers
  BY <1>13 DEF AskPeers, KeepButStep, SocketsCounted, EventDialing, Dialing, EarlySteps,
    Asking, Closing
<1>14. CASE AskStream
  BY <1>14 DEF AskStream, KeepButStep, SocketsCounted, EventDialing, Dialing, EarlySteps,
    Asking, Closing
<1>15. CASE StreamRejected
  BY <1>15 DEF StreamRejected, SocketsCounted, EventDialing, Dialing, EarlySteps, Asking,
    Closing
<1>16. CASE AskRecord
  BY <1>16 DEF AskRecord, KeepButStep, SocketsCounted, EventDialing, Dialing, EarlySteps,
    Asking, Closing
<1>17. CASE AskCommands
  BY <1>17 DEF AskCommands, KeepButStep, SocketsCounted, EventDialing, Dialing, EarlySteps,
    Asking, Closing
<1>18. CASE EventGivesUp
  BY <1>18 DEF EventGivesUp, AfterEvent, Throw, SocketsCounted, EventDialing, Dialing, EarlySteps,
    Asking, Closing
<1>19. CASE EventTries
  <2>1. Len(sockets) <= 2 * Addresses + tries /\ tries < Addresses
    BY <1>19, Zenon DEF EventTries, AddressLeft, Inv, SocketsCounted,
       RetryDialsNothing, EventDialing
  <2> HIDE DEF SocketsTyped, Inv, TypeOK
  <2>. tries \in Nat /\ Len(sockets) \in Nat
    BY TriesBound, Zenon DEF Inv
  <2>2. Len(sockets) < 3 * Addresses /\ tries < 2 * Addresses
    BY <2>1
  <2>3. sockets' = Append(sockets, "open")
    BY <1>19, Zenon DEF EventTries
  <2>4. Len(sockets') = Len(sockets) + 1
    BY <2>3, AddedSocket, Zenon DEF Inv, TypeOK
  <2>5. tries' = tries + 1
    BY <1>19, Zenon DEF EventTries
  <2>6. Len(sockets') <= 3 * Addresses /\ tries' <= Addresses
        /\ Len(sockets') <= 2 * Addresses + tries'
    BY <2>1, <2>2, <2>4, <2>5
  <2>7. step' = "event store" /\ UNCHANGED retried
    BY <1>19, Zenon DEF EventTries
  <2>. QED BY <2>6, <2>7, Zenon
       DEF SocketsCounted, EventDialing, Dialing, EarlySteps
<1>20. CASE EventStores
  BY <1>20 DEF EventStores, SocketsCounted, EventDialing, Dialing, EarlySteps, Asking, Closing
<1>21. ASSUME NEW ok \in BOOLEAN, EventReturns(ok) PROVE SocketsCounted'
  BY <1>21 DEF EventReturns, SocketsCounted, EventDialing, Dialing, EarlySteps, Asking, Closing
<1>22. CASE EventDrops
  <2>1. sockets' = Closed(event_handle)
    BY <1>22, Zenon DEF EventDrops, CloseOwnedEvent
  <2>2. Len(sockets') = Len(sockets)
    BY <2>1, ClosedSocket, Zenon DEF Inv, TypeOK
  <2>3. step = "event drop" /\ step' = "event connect" /\ UNCHANGED <<tries, retried>>
    BY <1>22, Zenon DEF EventDrops, KeepBeside
  <2>. QED BY <2>2, <2>3, Zenon
       DEF SocketsCounted, EventDialing, Dialing, EarlySteps
<1>23. CASE EventStarts
  BY <1>23 DEF EventStarts, NoSocket, AfterEvent, SocketsCounted, EventDialing, Dialing,
    EarlySteps, Asking, Closing
<1>24. ASSUME NEW c \in Canceller, CancelControl(c) PROVE SocketsCounted'
  <2>1. sockets' = Closed(handle)
    BY <1>24, Zenon DEF CancelControl, CloseOwned
  <2>2. Len(sockets') = Len(sockets)
    BY <2>1, ClosedSocket, Zenon DEF Inv, TypeOK
  <2>3. UNCHANGED <<step, tries, retried>>
    BY <1>24, Zenon DEF CancelControl, KeepBeside
  <2>. QED BY <2>2, <2>3, Zenon
       DEF SocketsCounted, EventDialing, Dialing, EarlySteps
<1>25. ASSUME NEW c \in Canceller, CancelEvent(c) PROVE SocketsCounted'
  <2>1. sockets' = Closed(event_handle)
    BY <1>25, Zenon DEF CancelEvent, CloseOwnedEvent
  <2>2. Len(sockets') = Len(sockets)
    BY <2>1, ClosedSocket, Zenon DEF Inv, TypeOK
  <2>3. UNCHANGED <<step, tries, retried>>
    BY <1>25, Zenon DEF CancelEvent, KeepBeside
  <2>. QED BY <2>2, <2>3, Zenon
       DEF SocketsCounted, EventDialing, Dialing, EarlySteps
<1>26. CASE DestructorBegins
  BY <1>26 DEF DestructorBegins, SocketsCounted, EventDialing, Dialing, EarlySteps, Asking,
    Closing
<1>27. CASE CloseCancels
  BY <1>27 DEF CloseCancels, KeepClose, SocketsCounted, EventDialing, Dialing, EarlySteps,
    Asking, Closing
<1>28. CASE CloseFlags
  <2>1. sockets' = Closed(event_handle)
    BY <1>28, Zenon DEF CloseFlags, CloseOwnedEvent
  <2>2. Len(sockets') = Len(sockets)
    BY <2>1, ClosedSocket, Zenon DEF Inv, TypeOK
  <2>3. step' = "join event" /\ UNCHANGED <<tries, retried>>
    BY <1>28, Zenon DEF CloseFlags, KeepBeside
  <2>. QED BY <2>2, <2>3, Zenon
       DEF SocketsCounted, EventDialing, Dialing, EarlySteps
<1>29. CASE CloseJoinsEvent
  BY <1>29 DEF CloseJoinsEvent, NoSocket, KeepClose, SocketsCounted, EventDialing, Dialing,
    EarlySteps, Asking, Closing
<1>30. CASE CloseResets
  BY <1>30 DEF CloseResets, NoSocket, SocketsCounted, EventDialing, Dialing, EarlySteps,
    Asking, Closing
<1>31. ASSUME NEW u \in User, SendFails(u) PROVE SocketsCounted'
  BY <1>31 DEF SendFails, LetsGo, KeepSession, SocketsCounted, EventDialing, Dialing,
    EarlySteps, Asking, Closing
<1>32. ASSUME NEW u \in User, ReadFails(u) PROVE SocketsCounted'
  BY <1>32 DEF ReadFails, LetsGo, KeepSession, SocketsCounted, EventDialing, Dialing,
    EarlySteps, Asking, Closing
<1>33. ASSUME NEW u \in User, NEW n \in 1 .. Len(inbox), NEW ok \in BOOLEAN, Reads(u, n, ok)
      PROVE SocketsCounted'
  BY <1>33 DEF Reads, LetsGo, KeepSession, SocketsCounted, EventDialing, Dialing, EarlySteps,
    Asking, Closing
<1>34. ASSUME NEW c \in Canceller, CancelFlag(c) PROVE SocketsCounted'
  BY <1>34 DEF CancelFlag, KeepBeside, SocketsCounted, EventDialing, Dialing, EarlySteps,
    Asking, Closing
<1>35. ASSUME NEW u \in User, NEW n \in 1 .. 3, NEW last \in BOOLEAN, Asks(u, n, last)
      PROVE  SocketsCounted'
  BY <1>35 DEF Asks, KeepSession, SocketsCounted, EventDialing, Dialing, EarlySteps, Asking,
    Closing
<1>36. ASSUME NEW u \in User, Sends(u) PROVE SocketsCounted'
  BY <1>36 DEF Sends, KeepSession, SocketsCounted, EventDialing, Dialing, EarlySteps, Asking,
    Closing
<1>37. CASE HostCancels \/ EventReceives \/ EventAnswers \/ EventHandled \/ EventEnds
          \/ TimingEnds \/ Answers
  <2>1. UNCHANGED <<step, retried, sockets, tries>>
    BY <1>37, Zenon DEF HostCancels, KeepBeside, EventReceives, KeepWorker, EventAnswers,
      EventHandled, EventEnds, TimingEnds, Answers, KeepSession, SocketsCounted, EventDialing,
      Dialing, EarlySteps, Asking, Closing
  <2>. QED BY <2>1, Zenon DEF SocketsCounted
<1>. QED BY <1>1, <1>2, <1>3, <1>4, <1>5, <1>6, <1>7, <1>8, <1>9, <1>10, <1>11, <1>12, <1>13,
     <1>14, <1>15, <1>16, <1>17, <1>18, <1>19, <1>20, <1>21, <1>22, <1>23, <1>24, <1>25, <1>26,
     <1>27, <1>28, <1>29, <1>30, <1>31, <1>32, <1>33, <1>34, <1>35, <1>36, <1>37
  DEF Next, Opener, Cancel, Close, Workers, Requests

\* The workers run, and are joined.
LEMMA WorkersStep == TypeOK /\ WorkersJoined /\ Next => WorkersJoined'
<1> SUFFICES ASSUME TypeOK, WorkersJoined, Next PROVE WorkersJoined'
  OBVIOUS
<1> USE DEF TypeOK, PointsTyped, FlagsTyped, WorkersJoined, DialedSteps, Asking, EventDialing, Closing
<1>1. CASE OpenBegins
  BY <1>1 DEF OpenBegins
<1>2. CASE ConnectGivesUp
  BY <1>2 DEF ConnectGivesUp, Throw
<1>3. CASE ConnectTries
  BY <1>3 DEF ConnectTries
<1>4. CASE ConnectStores
  BY <1>4 DEF ConnectStores
<1>5. ASSUME NEW ok \in BOOLEAN, ConnectReturns(ok) PROVE WorkersJoined'
  BY <1>5 DEF ConnectReturns, NoSocket
<1>6. CASE ConnectDrops
  BY <1>6 DEF ConnectDrops, NoSocket
<1>7. CASE Binds
  BY <1>7 DEF Binds, Throw
<1>8. CASE AskInVain
  BY <1>8 DEF AskInVain, Asking, Throw, KeepButStep
<1>9. CASE AskInfo
  BY <1>9 DEF AskInfo, KeepButStep
<1>10. CASE AskPairing
  BY <1>10 DEF AskPairing, KeepButStep
<1>11. CASE AskSession
  BY <1>11 DEF AskSession, AfterEvent, KeepButStep
<1>12. CASE AskEarlyRecord
  BY <1>12 DEF AskEarlyRecord, KeepButStep
<1>13. CASE AskPeers
  BY <1>13 DEF AskPeers, KeepButStep
<1>14. CASE AskStream
  BY <1>14 DEF AskStream, KeepButStep
<1>15. CASE StreamRejected
  BY <1>15 DEF StreamRejected
<1>16. CASE AskRecord
  BY <1>16 DEF AskRecord, KeepButStep
<1>17. CASE AskCommands
  BY <1>17 DEF AskCommands, KeepButStep
<1>18. CASE EventGivesUp
  BY <1>18 DEF EventGivesUp, AfterEvent, Throw
<1>19. CASE EventTries
  BY <1>19 DEF EventTries
<1>20. CASE EventStores
  BY <1>20 DEF EventStores
<1>21. ASSUME NEW ok \in BOOLEAN, EventReturns(ok) PROVE WorkersJoined'
  BY <1>21 DEF EventReturns
<1>22. CASE EventDrops
  BY <1>22 DEF EventDrops, NoSocket
<1>23. CASE EventStarts
  BY <1>23 DEF EventStarts, NoSocket, AfterEvent
<1>24. CASE DestructorBegins
  BY <1>24 DEF DestructorBegins
<1>25. CASE CloseCancels
  BY <1>25 DEF CloseCancels, KeepClose
<1>26. CASE CloseFlags
  BY <1>26 DEF CloseFlags
<1>27. CASE CloseJoinsEvent
  BY <1>27 DEF CloseJoinsEvent, NoSocket, KeepClose
<1>28. CASE CloseResets
  BY <1>28 DEF CloseResets, NoSocket
<1>29. CASE EventReceives
  BY <1>29 DEF EventReceives, KeepWorker
<1>30. CASE EventAnswers
  BY <1>30 DEF EventAnswers, KeepWorker
<1>31. CASE EventHandled
  BY <1>31 DEF EventHandled, KeepWorker
<1>32. CASE EventEnds
  BY <1>32 DEF EventEnds, KeepWorker
<1>33. CASE TimingEnds
  BY <1>33 DEF TimingEnds, TimingTold, KeepWorker
<1>34. ASSUME NEW u \in User, SendFails(u) PROVE WorkersJoined'
  BY <1>34 DEF SendFails, LetsGo, KeepSession
<1>35. ASSUME NEW u \in User, ReadFails(u) PROVE WorkersJoined'
  BY <1>35 DEF ReadFails, LetsGo, KeepSession
<1>36. ASSUME NEW u \in User, NEW n \in 1 .. Len(inbox), NEW ok \in BOOLEAN, Reads(u, n, ok)
      PROVE WorkersJoined'
  BY <1>36 DEF Reads, LetsGo, KeepSession
<1>37. ASSUME NEW c \in Canceller, CancelFlag(c) PROVE WorkersJoined'
  BY <1>37 DEF CancelFlag, KeepBeside
<1>38. ASSUME NEW c \in Canceller, CancelControl(c) PROVE WorkersJoined'
  BY <1>38 DEF CancelControl, KeepBeside
<1>39. ASSUME NEW c \in Canceller, CancelEvent(c) PROVE WorkersJoined'
  BY <1>39 DEF CancelEvent, KeepBeside
<1>40. ASSUME NEW u \in User, NEW n \in 1 .. 3, NEW last \in BOOLEAN, Asks(u, n, last)
      PROVE  WorkersJoined'
  BY <1>40 DEF Asks, KeepSession
<1>41. ASSUME NEW u \in User, Sends(u) PROVE WorkersJoined'
  BY <1>41 DEF Sends, KeepSession
<1>42. CASE HostCancels \/ Answers
  <2>1. UNCHANGED <<step, timing_thread, timing_running, event_thread>>
    BY <1>42, Zenon DEF HostCancels, KeepBeside, Answers, KeepSession
  <2>. QED BY <2>1
<1> HIDE DEF TypeOK, PointsTyped, FlagsTyped, WorkersJoined, DialedSteps, Asking, EventDialing, Closing
<1>. QED BY <1>1, <1>2, <1>3, <1>4, <1>5, <1>6, <1>7, <1>8, <1>9, <1>10, <1>11, <1>12, <1>13,
     <1>14, <1>15, <1>16, <1>17, <1>18, <1>19, <1>20, <1>21, <1>22, <1>23, <1>24, <1>25, <1>26,
     <1>27, <1>28, <1>29, <1>30, <1>31, <1>32, <1>33, <1>34, <1>35, <1>36, <1>37, <1>38, <1>39,
     <1>40, <1>41, <1>42
  DEF Next, Opener, Cancel, Close, Workers, Requests

\* The session is told to record.
LEMMA RecordStep == TypeOK /\ RecordOwed /\ Next => RecordOwed'
<1> SUFFICES ASSUME TypeOK, RecordOwed, Next PROVE RecordOwed'
  OBVIOUS
<1> USE DEF TypeOK, PointsTyped, FlagsTyped, RecordOwed, Asking, EventDialing, Closing
<1>1. CASE OpenBegins
  BY <1>1 DEF OpenBegins
<1>2. CASE ConnectGivesUp
  BY <1>2 DEF ConnectGivesUp, Throw
<1>3. CASE ConnectTries
  BY <1>3 DEF ConnectTries
<1>4. CASE ConnectStores
  BY <1>4 DEF ConnectStores
<1>5. ASSUME NEW ok \in BOOLEAN, ConnectReturns(ok) PROVE RecordOwed'
  BY <1>5 DEF ConnectReturns, NoSocket
<1>6. CASE ConnectDrops
  BY <1>6 DEF ConnectDrops, NoSocket
<1>7. CASE Binds
  BY <1>7 DEF Binds, Throw
<1>8. CASE AskInVain
  BY <1>8 DEF AskInVain, Asking, Throw, KeepButStep
<1>9. CASE AskInfo
  BY <1>9 DEF AskInfo, KeepButStep
<1>10. CASE AskPairing
  BY <1>10 DEF AskPairing, KeepButStep
<1>11. CASE AskSession
  BY <1>11 DEF AskSession, AfterEvent, KeepButStep
<1>12. CASE AskEarlyRecord
  BY <1>12 DEF AskEarlyRecord, KeepButStep
<1>13. CASE AskPeers
  BY <1>13 DEF AskPeers, KeepButStep
<1>14. CASE AskStream
  BY <1>14 DEF AskStream, RecordDue, KeepButStep
<1>15. CASE StreamRejected
  BY <1>15 DEF StreamRejected
<1>16. CASE AskRecord
  BY <1>16 DEF AskRecord, KeepButStep
<1>17. CASE AskCommands
  BY <1>17 DEF AskCommands, KeepButStep
<1>18. CASE EventGivesUp
  BY <1>18 DEF EventGivesUp, AfterEvent, Throw
<1>19. CASE EventTries
  BY <1>19 DEF EventTries
<1>20. CASE EventStores
  BY <1>20 DEF EventStores
<1>21. ASSUME NEW ok \in BOOLEAN, EventReturns(ok) PROVE RecordOwed'
  BY <1>21 DEF EventReturns
<1>22. CASE EventDrops
  BY <1>22 DEF EventDrops, NoSocket
<1>23. CASE EventStarts
  BY <1>23 DEF EventStarts, NoSocket, AfterEvent
<1>24. CASE DestructorBegins
  BY <1>24 DEF DestructorBegins
<1>25. CASE CloseCancels
  BY <1>25 DEF CloseCancels, KeepClose
<1>26. CASE CloseFlags
  BY <1>26 DEF CloseFlags
<1>27. CASE CloseJoinsEvent
  BY <1>27 DEF CloseJoinsEvent, NoSocket, KeepClose
<1>28. CASE CloseResets
  BY <1>28 DEF CloseResets, NoSocket
<1>29. ASSUME NEW u \in User, SendFails(u) PROVE RecordOwed'
  BY <1>29 DEF SendFails, LetsGo, KeepSession
<1>30. ASSUME NEW u \in User, ReadFails(u) PROVE RecordOwed'
  BY <1>30 DEF ReadFails, LetsGo, KeepSession
<1>31. ASSUME NEW u \in User, NEW n \in 1 .. Len(inbox), NEW ok \in BOOLEAN, Reads(u, n, ok)
      PROVE RecordOwed'
  BY <1>31 DEF Reads, LetsGo, KeepSession
<1>32. ASSUME NEW c \in Canceller, CancelFlag(c) PROVE RecordOwed'
  BY <1>32 DEF CancelFlag, KeepBeside
<1>33. ASSUME NEW c \in Canceller, CancelControl(c) PROVE RecordOwed'
  BY <1>33 DEF CancelControl, KeepBeside
<1>34. ASSUME NEW c \in Canceller, CancelEvent(c) PROVE RecordOwed'
  BY <1>34 DEF CancelEvent, KeepBeside
<1>35. ASSUME NEW u \in User, NEW n \in 1 .. 3, NEW last \in BOOLEAN, Asks(u, n, last)
      PROVE  RecordOwed'
  BY <1>35 DEF Asks, KeepSession
<1>36. ASSUME NEW u \in User, Sends(u) PROVE RecordOwed'
  BY <1>36 DEF Sends, KeepSession
<1>37. CASE HostCancels \/ EventReceives \/ EventAnswers \/ EventHandled \/ EventEnds
          \/ TimingEnds \/ Answers
  <2>1. UNCHANGED <<step, ap2_uses_ptp, retry_record, recorded>>
    BY <1>37, Zenon DEF HostCancels, KeepBeside, EventReceives, KeepWorker, EventAnswers,
      EventHandled, EventEnds, TimingEnds, Answers, KeepSession
  <2>. QED BY <2>1
<1> HIDE DEF TypeOK, PointsTyped, FlagsTyped, RecordOwed, Asking, EventDialing, Closing
<1>. QED BY <1>1, <1>2, <1>3, <1>4, <1>5, <1>6, <1>7, <1>8, <1>9, <1>10, <1>11, <1>12, <1>13,
     <1>14, <1>15, <1>16, <1>17, <1>18, <1>19, <1>20, <1>21, <1>22, <1>23, <1>24, <1>25, <1>26,
     <1>27, <1>28, <1>29, <1>30, <1>31, <1>32, <1>33, <1>34, <1>35, <1>36, <1>37
  DEF Next, Opener, Cancel, Close, Workers, Requests

\* Where handles are empty.
LEMMA EmptyStep == TypeOK /\ HandlesEmpty /\ RetryDialsNothing /\ Next => HandlesEmpty'
<1> SUFFICES ASSUME TypeOK, HandlesEmpty, RetryDialsNothing, Next PROVE HandlesEmpty'
  OBVIOUS
<1> USE DEF TypeOK, PointsTyped, FlagsTyped, HandlesEmpty, RetryDialsNothing, Asking, Dialing, EventDialing, Closing, EarlySteps, LateSteps, Canceller
<1>1. CASE OpenBegins
  BY <1>1 DEF OpenBegins
<1>2. CASE ConnectGivesUp
  BY <1>2 DEF ConnectGivesUp, Throw
<1>3. CASE ConnectTries
  BY <1>3 DEF ConnectTries
<1>4. CASE ConnectStores
  BY <1>4 DEF ConnectStores
<1>5. ASSUME NEW ok \in BOOLEAN, ConnectReturns(ok) PROVE HandlesEmpty'
  BY <1>5 DEF ConnectReturns, NoSocket
<1>6. CASE ConnectDrops
  BY <1>6 DEF ConnectDrops, CloseOwned, NoSocket
<1>7. CASE Binds
  BY <1>7 DEF Binds, Throw
<1>8. CASE AskInVain
  BY <1>8 DEF AskInVain, Asking, Throw, KeepButStep
<1>9. CASE AskInfo
  BY <1>9 DEF AskInfo, KeepButStep
<1>10. CASE AskPairing
  BY <1>10 DEF AskPairing, KeepButStep
<1>11. CASE AskSession
  BY <1>11 DEF AskSession, AfterEvent, KeepButStep
<1>12. CASE AskEarlyRecord
  BY <1>12 DEF AskEarlyRecord, KeepButStep
<1>13. CASE AskPeers
  BY <1>13 DEF AskPeers, KeepButStep
<1>14. CASE AskStream
  BY <1>14 DEF AskStream, KeepButStep
<1>15. CASE StreamRejected
  BY <1>15 DEF StreamRejected
<1>16. CASE AskRecord
  BY <1>16 DEF AskRecord, KeepButStep
<1>17. CASE AskCommands
  BY <1>17 DEF AskCommands, KeepButStep
<1>18. CASE EventGivesUp
  BY <1>18 DEF EventGivesUp, AfterEvent, Throw
<1>19. CASE EventTries
  BY <1>19 DEF EventTries
<1>20. CASE EventStores
  BY <1>20 DEF EventStores
<1>21. ASSUME NEW ok \in BOOLEAN, EventReturns(ok) PROVE HandlesEmpty'
  BY <1>21 DEF EventReturns
<1>22. CASE EventDrops
  BY <1>22 DEF EventDrops, CloseOwnedEvent, NoSocket
<1>23. CASE EventStarts
  BY <1>23 DEF EventStarts, NoSocket, AfterEvent
<1>24. CASE HostCancels
  BY <1>24 DEF HostCancels, KeepBeside
<1>25. ASSUME NEW c \in Canceller, CancelFlag(c) PROVE HandlesEmpty'
  BY <1>25 DEF CancelFlag, KeepBeside
<1>26. ASSUME NEW c \in Canceller, CancelControl(c) PROVE HandlesEmpty'
  BY <1>26 DEF CancelControl, CloseOwned, NoSocket, KeepBeside
<1>27. ASSUME NEW c \in Canceller, CancelEvent(c) PROVE HandlesEmpty'
  BY <1>27 DEF CancelEvent, CloseOwnedEvent, NoSocket, KeepBeside
<1>28. CASE DestructorBegins
  BY <1>28 DEF DestructorBegins
<1>29. CASE CloseCancels
  BY <1>29 DEF CloseCancels, KeepClose
<1>30. CASE CloseFlags
  BY <1>30 DEF CloseFlags, CloseOwnedEvent, NoSocket
<1>31. CASE CloseJoinsEvent
  BY <1>31 DEF CloseJoinsEvent, NoSocket, KeepClose
<1>32. CASE CloseResets
  BY <1>32 DEF CloseResets, NoSocket
<1>33. ASSUME NEW u \in User, SendFails(u) PROVE HandlesEmpty'
  BY <1>33 DEF SendFails, LetsGo, KeepSession
<1>34. ASSUME NEW u \in User, ReadFails(u) PROVE HandlesEmpty'
  BY <1>34 DEF ReadFails, LetsGo, KeepSession
<1>35. ASSUME NEW u \in User, NEW n \in 1 .. Len(inbox), NEW ok \in BOOLEAN, Reads(u, n, ok)
      PROVE HandlesEmpty'
  BY <1>35 DEF Reads, LetsGo, KeepSession
<1>36. ASSUME NEW u \in User, NEW n \in 1 .. 3, NEW last \in BOOLEAN, Asks(u, n, last)
      PROVE  HandlesEmpty'
  BY <1>36 DEF Asks, KeepSession
<1>37. ASSUME NEW u \in User, Sends(u) PROVE HandlesEmpty'
  BY <1>37 DEF Sends, KeepSession
<1>38. CASE EventReceives \/ EventAnswers \/ EventHandled \/ EventEnds \/ TimingEnds
          \/ Answers
  <2>1. UNCHANGED <<step, handle, event_handle, cancel_pc>>
    BY <1>38, Zenon DEF EventReceives, KeepWorker, EventAnswers, EventHandled, EventEnds,
      TimingEnds, Answers, KeepSession
  <2>. QED BY <2>1
<1> HIDE DEF TypeOK, PointsTyped, FlagsTyped, HandlesEmpty, RetryDialsNothing, Asking, Dialing, EventDialing, Closing, EarlySteps, LateSteps, Canceller
<1>. QED BY <1>1, <1>2, <1>3, <1>4, <1>5, <1>6, <1>7, <1>8, <1>9, <1>10, <1>11, <1>12, <1>13,
     <1>14, <1>15, <1>16, <1>17, <1>18, <1>19, <1>20, <1>21, <1>22, <1>23, <1>24, <1>25, <1>26,
     <1>27, <1>28, <1>29, <1>30, <1>31, <1>32, <1>33, <1>34, <1>35, <1>36, <1>37, <1>38
  DEF Next, Opener, Cancel, Close, Workers, Requests

\* A cancel closes the control socket.
LEMMA CancelStep == TypeOK /\ CancelCloses /\ RetryDialsNothing /\ Next => CancelCloses'
<1> SUFFICES ASSUME TypeOK, CancelCloses, RetryDialsNothing, Next PROVE CancelCloses'
  OBVIOUS
<1>. HostCancels => cancels' # 0
  <2>1. HostCancels => cancels' = 1
    BY Zenon DEF HostCancels
  <2>. QED BY <2>1
<1> USE DEF TypeOK, PointsTyped, FlagsTyped, CancelCloses, RetryDialsNothing, DialedSteps, Asking, EventDialing, Closing, Canceller
<1>1. CASE OpenBegins
  BY <1>1 DEF OpenBegins
<1>2. CASE ConnectGivesUp
  BY <1>2 DEF ConnectGivesUp, Throw
<1>3. CASE ConnectTries
  BY <1>3 DEF ConnectTries
<1>4. CASE ConnectStores
  BY <1>4 DEF ConnectStores
<1>5. ASSUME NEW ok \in BOOLEAN, ConnectReturns(ok) PROVE CancelCloses'
  BY <1>5 DEF ConnectReturns, NoSocket
<1>6. CASE ConnectDrops
  BY <1>6 DEF ConnectDrops, CloseOwned, NoSocket
<1>7. CASE Binds
  BY <1>7 DEF Binds, Throw
<1>8. CASE AskInVain
  BY <1>8 DEF AskInVain, Asking, Throw, KeepButStep
<1>9. CASE AskInfo
  BY <1>9 DEF AskInfo, KeepButStep
<1>10. CASE AskPairing
  BY <1>10 DEF AskPairing, KeepButStep
<1>11. CASE AskSession
  BY <1>11 DEF AskSession, AfterEvent, KeepButStep
<1>12. CASE AskEarlyRecord
  BY <1>12 DEF AskEarlyRecord, KeepButStep
<1>13. CASE AskPeers
  BY <1>13 DEF AskPeers, KeepButStep
<1>14. CASE AskStream
  BY <1>14 DEF AskStream, KeepButStep
<1>15. CASE StreamRejected
  BY <1>15 DEF StreamRejected
<1>16. CASE AskRecord
  BY <1>16 DEF AskRecord, KeepButStep
<1>17. CASE AskCommands
  BY <1>17 DEF AskCommands, KeepButStep
<1>18. CASE EventGivesUp
  BY <1>18 DEF EventGivesUp, AfterEvent, Throw
<1>19. CASE EventTries
  BY <1>19 DEF EventTries
<1>20. CASE EventStores
  BY <1>20 DEF EventStores
<1>21. ASSUME NEW ok \in BOOLEAN, EventReturns(ok) PROVE CancelCloses'
  BY <1>21 DEF EventReturns
<1>22. CASE EventDrops
  BY <1>22 DEF EventDrops, CloseOwnedEvent, NoSocket
<1>23. CASE EventStarts
  BY <1>23 DEF EventStarts, NoSocket, AfterEvent
<1>24. CASE HostCancels
  <2>1. /\ cancel_pc["host"] = "idle" /\ cancel_pc' = [cancel_pc EXCEPT !["host"] = "flag"]
        /\ UNCHANGED <<step, handle, cancelled>>
    BY <1>24, Zenon DEF HostCancels, KeepBeside
  <2>2. cancels' # 0
    BY <1>24, Zenon
  <2>. QED BY <2>1, <2>2, Zenon
<1>25. ASSUME NEW c \in Canceller, CancelFlag(c) PROVE CancelCloses'
  BY <1>25 DEF CancelFlag, KeepBeside
<1>26. ASSUME NEW c \in Canceller, CancelControl(c) PROVE CancelCloses'
  BY <1>26 DEF CancelControl, CloseOwned, NoSocket, KeepBeside
<1>27. ASSUME NEW c \in Canceller, CancelEvent(c) PROVE CancelCloses'
  BY <1>27 DEF CancelEvent, CloseOwnedEvent, NoSocket, KeepBeside
<1>28. CASE DestructorBegins
  BY <1>28 DEF DestructorBegins
<1>29. CASE CloseCancels
  BY <1>29 DEF CloseCancels, KeepClose
<1>30. CASE CloseFlags
  BY <1>30 DEF CloseFlags, CloseOwnedEvent, NoSocket
<1>31. CASE CloseJoinsEvent
  BY <1>31 DEF CloseJoinsEvent, NoSocket, KeepClose
<1>32. CASE CloseResets
  BY <1>32 DEF CloseResets, NoSocket
<1>33. ASSUME NEW u \in User, SendFails(u) PROVE CancelCloses'
  BY <1>33 DEF SendFails, LetsGo, KeepSession
<1>34. ASSUME NEW u \in User, ReadFails(u) PROVE CancelCloses'
  BY <1>34 DEF ReadFails, LetsGo, KeepSession
<1>35. ASSUME NEW u \in User, NEW n \in 1 .. Len(inbox), NEW ok \in BOOLEAN, Reads(u, n, ok)
      PROVE CancelCloses'
  BY <1>35 DEF Reads, LetsGo, KeepSession
<1>36. ASSUME NEW u \in User, NEW n \in 1 .. 3, NEW last \in BOOLEAN, Asks(u, n, last)
      PROVE  CancelCloses'
  BY <1>36 DEF Asks, KeepSession
<1>37. ASSUME NEW u \in User, Sends(u) PROVE CancelCloses'
  BY <1>37 DEF Sends, KeepSession
<1>38. CASE EventReceives \/ EventAnswers \/ EventHandled \/ EventEnds \/ TimingEnds
          \/ Answers
  <2>1. UNCHANGED <<step, handle, cancelled, cancel_pc, cancels>>
    BY <1>38, Zenon DEF EventReceives, KeepWorker, EventAnswers, EventHandled, EventEnds,
      TimingEnds, Answers, KeepSession
  <2>. QED BY <2>1
<1> HIDE DEF TypeOK, PointsTyped, FlagsTyped, CancelCloses, RetryDialsNothing, DialedSteps, Asking, EventDialing, Closing, Canceller
<1>. QED BY <1>1, <1>2, <1>3, <1>4, <1>5, <1>6, <1>7, <1>8, <1>9, <1>10, <1>11, <1>12, <1>13,
     <1>14, <1>15, <1>16, <1>17, <1>18, <1>19, <1>20, <1>21, <1>22, <1>23, <1>24, <1>25, <1>26,
     <1>27, <1>28, <1>29, <1>30, <1>31, <1>32, <1>33, <1>34, <1>35, <1>36, <1>37, <1>38
  DEF Next, Opener, Cancel, Close, Workers, Requests

\* Whose socket is whose.
Owned == HandlesOpen /\ OpenHaveHandles

\* What an action does to the sockets: nothing, ...
SameStore == (Storing' <=> Storing) /\ (Storing => candidate' = candidate)
SocketsSame == SameStore /\ UNCHANGED <<sockets, handle, event_handle>>

\* ... making one, ...
SocketMade ==
  /\ sockets' = Append(sockets, "open") /\ candidate' = Len(sockets) + 1
  /\ ~Storing /\ Storing' /\ UNCHANGED <<handle, event_handle>>

\* ... storing it, ...
SocketStored ==
  /\ Storing /\ ~Storing' /\ UNCHANGED sockets
  /\ \/ handle = NoSocket /\ handle' = candidate /\ event_handle' = event_handle
     \/ event_handle = NoSocket /\ event_handle' = candidate /\ handle' = handle

\* ... or closing one.
ControlClosed == SameStore /\ sockets' = Closed(handle) /\ handle' = NoSocket
                 /\ event_handle' = event_handle
EventClosed == SameStore /\ sockets' = Closed(event_handle) /\ event_handle' = NoSocket
               /\ handle' = handle

\* None of these disturbs who owns a socket: neither leaving sockets alone, ...
LEMMA SameOwned == Owned /\ SocketsSame => Owned'
BY Zenon DEF Owned, SocketsSame, SameStore, HandlesOpen, OpenHaveHandles

\* ... nor making one, which the opening thread then holds, ...
LEMMA MadeOwned == TypeOK /\ Owned /\ SocketMade => Owned'
<1> SUFFICES ASSUME TypeOK, Owned, SocketMade PROVE Owned'
  OBVIOUS
<1>1. /\ DOMAIN sockets' = 1 .. Len(sockets) + 1
      /\ sockets'[Len(sockets) + 1] = "open"
      /\ \A s \in DOMAIN sockets : sockets'[s] = sockets[s]
  BY AddedSocket, Zenon DEF TypeOK, SocketMade
<1>2. DOMAIN sockets = 1 .. Len(sockets) /\ Len(sockets) \in Nat
  BY SocketDomain, Zenon DEF TypeOK
<1>3. /\ Len(sockets) + 1 \notin DOMAIN sockets /\ Len(sockets) + 1 # NoSocket
      /\ DOMAIN sockets \subseteq DOMAIN sockets' /\ Len(sockets) + 1 \in DOMAIN sockets'
      /\ \A s \in DOMAIN sockets' : s \in DOMAIN sockets \/ s = Len(sockets) + 1
  BY <1>1, <1>2 DEF NoSocket
<1>4. candidate' = Len(sockets) + 1 /\ handle' = handle /\ event_handle' = event_handle
  BY Zenon DEF SocketMade
<1>5. HandlesOpen'
  BY <1>1, <1>3, <1>4, Zenon DEF Owned, HandlesOpen, OpenHaveHandles, NoSocket
<1>6. OpenHaveHandles'
  <2> SUFFICES ASSUME NEW s \in DOMAIN sockets'
               PROVE  /\ sockets'[s] # "closed twice"
                      /\ sockets'[s] = "open" => \/ s = handle' \/ s = event_handle'
                                                 \/ Storing' /\ s = candidate'
    BY Zenon DEF OpenHaveHandles
  <2>1. CASE s \in DOMAIN sockets
    BY <1>1, <1>4, <2>1, Zenon DEF Owned, OpenHaveHandles, SocketMade
  <2>2. CASE s = Len(sockets) + 1
    <3>1. sockets'[s] # "closed twice"
      BY <1>1, <2>2
    <3>. QED BY <1>4, <2>2, <3>1, Zenon DEF SocketMade
  <2>. QED BY <1>3, <2>1, <2>2, Zenon
<1>. QED BY <1>5, <1>6, Zenon DEF Owned

\* ... nor storing it in the handle it was made for, ...
LEMMA StoredOwned == TypeOK /\ Owned /\ SocketStored => Owned'
<1> SUFFICES ASSUME TypeOK, Owned, SocketStored PROVE Owned'
  OBVIOUS
<1>1. candidate \in DOMAIN sockets /\ sockets[candidate] = "open" /\ candidate # NoSocket
  <2>1. DOMAIN sockets = 1 .. Len(sockets)
    BY SocketDomain, Zenon DEF TypeOK
  <2>2. candidate \in DOMAIN sockets /\ sockets[candidate] = "open"
    BY Zenon DEF Owned, HandlesOpen, SocketStored
  <2>. QED BY <2>1, <2>2 DEF NoSocket
<1>2. HandlesOpen'
  BY <1>1, Zenon DEF Owned, HandlesOpen, SocketStored
<1>3. OpenHaveHandles'
  BY <1>1, NoSocketMade, Zenon DEF Owned, OpenHaveHandles, SocketStored, TypeOK
<1>. QED BY <1>2, <1>3, Zenon DEF Owned

\* ... nor closing the control connection, ...
LEMMA ControlClosedOwned == TypeOK /\ Owned /\ ControlClosed => Owned'
<1> SUFFICES ASSUME TypeOK, Owned, ControlClosed PROVE Owned'
  OBVIOUS
<1>1. /\ DOMAIN sockets' = DOMAIN sockets
      /\ \A s \in DOMAIN sockets :
           sockets'[s] = IF s = handle /\ handle # NoSocket
                         THEN IF sockets[s] = "open" THEN "closed" ELSE "closed twice"
                         ELSE sockets[s]
  BY ClosedSocket, Zenon DEF TypeOK, ControlClosed
<1>2. HandlesOpen'
  BY <1>1, NoSocketMade, Zenon DEF Owned, HandlesOpen, ControlClosed, SameStore, TypeOK
<1>3. OpenHaveHandles'
  BY <1>1, NoSocketMade DEF Owned, OpenHaveHandles, HandlesOpen, ControlClosed, SameStore, TypeOK
<1>. QED BY <1>2, <1>3, Zenon DEF Owned

\* ... nor closing the event channel.
LEMMA EventClosedOwned == TypeOK /\ Owned /\ EventClosed => Owned'
<1> SUFFICES ASSUME TypeOK, Owned, EventClosed PROVE Owned'
  OBVIOUS
<1>1. /\ DOMAIN sockets' = DOMAIN sockets
      /\ \A s \in DOMAIN sockets :
           sockets'[s] = IF s = event_handle /\ event_handle # NoSocket
                         THEN IF sockets[s] = "open" THEN "closed" ELSE "closed twice"
                         ELSE sockets[s]
  BY ClosedSocket, Zenon DEF TypeOK, EventClosed
<1>2. HandlesOpen'
  BY <1>1, NoSocketMade, Zenon DEF Owned, HandlesOpen, EventClosed, SameStore, TypeOK
<1>3. OpenHaveHandles'
  BY <1>1, NoSocketMade DEF Owned, OpenHaveHandles, HandlesOpen, EventClosed, SameStore, TypeOK
<1>. QED BY <1>2, <1>3, Zenon DEF Owned

\* Every action is one of these.
LEMMA OwnedStep == Inv /\ Owned /\ Next => Owned'
<1> SUFFICES ASSUME Inv, Owned, Next PROVE Owned'
  OBVIOUS
<1>1. CASE OpenBegins
  <2>1. UNCHANGED <<sockets, handle, event_handle>>
    BY <1>1, Zenon DEF OpenBegins, KeepButStep, KeepClose
  <2>2. step \notin {"store", "event store"} /\ step' \notin {"store", "event store"}
    BY <1>1 DEF OpenBegins, AfterEvent, Asking, Throw
  <2>. QED BY <2>1, <2>2, SameOwned, Zenon DEF SocketsSame, SameStore, Storing
<1>2. CASE ConnectGivesUp
  <2>1. UNCHANGED <<sockets, handle, event_handle>>
    BY <1>2, Zenon DEF ConnectGivesUp, KeepButStep, KeepClose
  <2>2. step \notin {"store", "event store"} /\ step' \notin {"store", "event store"}
    BY <1>2 DEF ConnectGivesUp, AfterEvent, Asking, Throw
  <2>. QED BY <2>1, <2>2, SameOwned, Zenon DEF SocketsSame, SameStore, Storing
<1>3. CASE ConnectTries
  <2>1. Len(sockets') = Len(sockets) + 1
    BY <1>3, AddedSocket, Zenon DEF ConnectTries, Inv, TypeOK
  <2>2. step \notin {"store", "event store"} /\ step' \in {"store", "event store"}
    BY <1>3 DEF ConnectTries
  <2>. QED BY <1>3, <2>1, <2>2, MadeOwned, Zenon DEF ConnectTries, SocketMade, Storing, Inv
<1>4. CASE ConnectStores
  <2>1. handle = NoSocket
    BY <1>4, Zenon DEF ConnectStores, Inv, HandlesEmpty
  <2>2. step \in {"store", "event store"} /\ step' \notin {"store", "event store"}
    BY <1>4 DEF ConnectStores
  <2>. QED BY <1>4, <2>1, <2>2, StoredOwned, Zenon DEF ConnectStores, SocketStored, Storing, Inv
<1>5. ASSUME NEW ok \in BOOLEAN, ConnectReturns(ok) PROVE Owned'
  <2>1. UNCHANGED <<sockets, handle, event_handle>>
    BY <1>5, Zenon DEF ConnectReturns, KeepButStep, KeepClose
  <2>2. step \notin {"store", "event store"} /\ step' \notin {"store", "event store"}
    BY <1>5 DEF ConnectReturns, AfterEvent, Asking, Throw
  <2>. QED BY <2>1, <2>2, SameOwned, Zenon DEF SocketsSame, SameStore, Storing
<1>6. CASE ConnectDrops
  <2>1. SameStore
    BY <1>6, Zenon DEF ConnectDrops, KeepBeside, SameStore, Storing
  <2>. QED BY <1>6, <2>1, ControlClosedOwned, Zenon
       DEF ConnectDrops, ControlClosed, CloseOwned, Inv
<1>7. CASE Binds
  <2>1. UNCHANGED <<sockets, handle, event_handle>>
    BY <1>7, Zenon DEF Binds, KeepButStep, KeepClose
  <2>2. step \notin {"store", "event store"} /\ step' \notin {"store", "event store"}
    BY <1>7 DEF Binds, AfterEvent, Asking, Throw
  <2>. QED BY <2>1, <2>2, SameOwned, Zenon DEF SocketsSame, SameStore, Storing
<1>8. CASE AskInVain
  <2>1. UNCHANGED <<sockets, handle, event_handle>>
    BY <1>8, Zenon DEF AskInVain, KeepButStep, KeepClose
  <2>2. step \notin {"store", "event store"} /\ step' \notin {"store", "event store"}
    BY <1>8 DEF AskInVain, AfterEvent, Asking, Throw
  <2>. QED BY <2>1, <2>2, SameOwned, Zenon DEF SocketsSame, SameStore, Storing
<1>9. CASE AskInfo
  <2>1. UNCHANGED <<sockets, handle, event_handle>>
    BY <1>9, Zenon DEF AskInfo, KeepButStep, KeepClose
  <2>2. step \notin {"store", "event store"} /\ step' \notin {"store", "event store"}
    BY <1>9 DEF AskInfo, AfterEvent, Asking, Throw
  <2>. QED BY <2>1, <2>2, SameOwned, Zenon DEF SocketsSame, SameStore, Storing
<1>10. CASE AskPairing
  <2>1. UNCHANGED <<sockets, handle, event_handle>>
    BY <1>10, Zenon DEF AskPairing, KeepButStep, KeepClose
  <2>2. step \notin {"store", "event store"} /\ step' \notin {"store", "event store"}
    BY <1>10 DEF AskPairing, AfterEvent, Asking, Throw
  <2>. QED BY <2>1, <2>2, SameOwned, Zenon DEF SocketsSame, SameStore, Storing
<1>11. CASE AskSession
  <2>1. UNCHANGED <<sockets, handle, event_handle>>
    BY <1>11, Zenon DEF AskSession, KeepButStep, KeepClose
  <2>2. step \notin {"store", "event store"} /\ step' \notin {"store", "event store"}
    BY <1>11 DEF AskSession, AfterEvent, Asking, Throw
  <2>. QED BY <2>1, <2>2, SameOwned, Zenon DEF SocketsSame, SameStore, Storing
<1>12. CASE AskEarlyRecord
  <2>1. UNCHANGED <<sockets, handle, event_handle>>
    BY <1>12, Zenon DEF AskEarlyRecord, KeepButStep, KeepClose
  <2>2. step \notin {"store", "event store"} /\ step' \notin {"store", "event store"}
    BY <1>12 DEF AskEarlyRecord, AfterEvent, Asking, Throw
  <2>. QED BY <2>1, <2>2, SameOwned, Zenon DEF SocketsSame, SameStore, Storing
<1>13. CASE AskPeers
  <2>1. UNCHANGED <<sockets, handle, event_handle>>
    BY <1>13, Zenon DEF AskPeers, KeepButStep, KeepClose
  <2>2. step \notin {"store", "event store"} /\ step' \notin {"store", "event store"}
    BY <1>13 DEF AskPeers, AfterEvent, Asking, Throw
  <2>. QED BY <2>1, <2>2, SameOwned, Zenon DEF SocketsSame, SameStore, Storing
<1>14. CASE AskStream
  <2>1. UNCHANGED <<sockets, handle, event_handle>>
    BY <1>14, Zenon DEF AskStream, KeepButStep, KeepClose
  <2>2. step \notin {"store", "event store"} /\ step' \notin {"store", "event store"}
    BY <1>14 DEF AskStream, AfterEvent, Asking, Throw
  <2>. QED BY <2>1, <2>2, SameOwned, Zenon DEF SocketsSame, SameStore, Storing
<1>15. CASE StreamRejected
  <2>1. UNCHANGED <<sockets, handle, event_handle>>
    BY <1>15, Zenon DEF StreamRejected, KeepButStep, KeepClose
  <2>2. step \notin {"store", "event store"} /\ step' \notin {"store", "event store"}
    BY <1>15 DEF StreamRejected, AfterEvent, Asking, Throw
  <2>. QED BY <2>1, <2>2, SameOwned, Zenon DEF SocketsSame, SameStore, Storing
<1>16. CASE AskRecord
  <2>1. UNCHANGED <<sockets, handle, event_handle>>
    BY <1>16, Zenon DEF AskRecord, KeepButStep, KeepClose
  <2>2. step \notin {"store", "event store"} /\ step' \notin {"store", "event store"}
    BY <1>16 DEF AskRecord, AfterEvent, Asking, Throw
  <2>. QED BY <2>1, <2>2, SameOwned, Zenon DEF SocketsSame, SameStore, Storing
<1>17. CASE AskCommands
  <2>1. UNCHANGED <<sockets, handle, event_handle>>
    BY <1>17, Zenon DEF AskCommands, KeepButStep, KeepClose
  <2>2. step \notin {"store", "event store"} /\ step' \notin {"store", "event store"}
    BY <1>17 DEF AskCommands, AfterEvent, Asking, Throw
  <2>. QED BY <2>1, <2>2, SameOwned, Zenon DEF SocketsSame, SameStore, Storing
<1>18. CASE EventGivesUp
  <2>1. UNCHANGED <<sockets, handle, event_handle>>
    BY <1>18, Zenon DEF EventGivesUp, KeepButStep, KeepClose
  <2>2. step \notin {"store", "event store"} /\ step' \notin {"store", "event store"}
    BY <1>18 DEF EventGivesUp, AfterEvent, Asking, Throw
  <2>. QED BY <2>1, <2>2, SameOwned, Zenon DEF SocketsSame, SameStore, Storing
<1>19. CASE EventTries
  <2>1. Len(sockets') = Len(sockets) + 1
    BY <1>19, AddedSocket, Zenon DEF EventTries, Inv, TypeOK
  <2>2. step \notin {"store", "event store"} /\ step' \in {"store", "event store"}
    BY <1>19 DEF EventTries
  <2>. QED BY <1>19, <2>1, <2>2, MadeOwned, Zenon DEF EventTries, SocketMade, Storing, Inv
<1>20. CASE EventStores
  <2>1. event_handle = NoSocket
    BY <1>20, Zenon DEF EventStores, Inv, HandlesEmpty
  <2>2. step \in {"store", "event store"} /\ step' \notin {"store", "event store"}
    BY <1>20 DEF EventStores
  <2>. QED BY <1>20, <2>1, <2>2, StoredOwned, Zenon DEF EventStores, SocketStored, Storing, Inv
<1>21. ASSUME NEW ok \in BOOLEAN, EventReturns(ok) PROVE Owned'
  <2>1. UNCHANGED <<sockets, handle, event_handle>>
    BY <1>21, Zenon DEF EventReturns, KeepButStep, KeepClose
  <2>2. step \notin {"store", "event store"} /\ step' \notin {"store", "event store"}
    BY <1>21 DEF EventReturns, AfterEvent, Asking, Throw
  <2>. QED BY <2>1, <2>2, SameOwned, Zenon DEF SocketsSame, SameStore, Storing
<1>22. CASE EventDrops
  <2>1. SameStore
    BY <1>22, Zenon DEF EventDrops, KeepBeside, SameStore, Storing
  <2>. QED BY <1>22, <2>1, EventClosedOwned, Zenon
       DEF EventDrops, EventClosed, CloseOwnedEvent, Inv
<1>23. CASE EventStarts
  <2>1. UNCHANGED <<sockets, handle, event_handle>>
    BY <1>23, Zenon DEF EventStarts, KeepButStep, KeepClose
  <2>2. step \notin {"store", "event store"} /\ step' \notin {"store", "event store"}
    BY <1>23 DEF EventStarts, AfterEvent, Asking, Throw
  <2>. QED BY <2>1, <2>2, SameOwned, Zenon DEF SocketsSame, SameStore, Storing
<1>24. ASSUME NEW c \in Canceller, CancelControl(c) PROVE Owned'
  <2>1. SameStore
    BY <1>24, Zenon DEF CancelControl, KeepBeside, SameStore, Storing
  <2>. QED BY <1>24, <2>1, ControlClosedOwned, Zenon
       DEF CancelControl, ControlClosed, CloseOwned, Inv
<1>25. ASSUME NEW c \in Canceller, CancelEvent(c) PROVE Owned'
  <2>1. SameStore
    BY <1>25, Zenon DEF CancelEvent, KeepBeside, SameStore, Storing
  <2>. QED BY <1>25, <2>1, EventClosedOwned, Zenon
       DEF CancelEvent, EventClosed, CloseOwnedEvent, Inv
<1>26. CASE DestructorBegins
  <2>1. UNCHANGED <<sockets, handle, event_handle>>
    BY <1>26, Zenon DEF DestructorBegins, KeepButStep, KeepClose
  <2>2. step \notin {"store", "event store"} /\ step' \notin {"store", "event store"}
    BY <1>26 DEF DestructorBegins, AfterEvent, Asking, Throw
  <2>. QED BY <2>1, <2>2, SameOwned, Zenon DEF SocketsSame, SameStore, Storing
<1>27. CASE CloseCancels
  <2>1. UNCHANGED <<sockets, handle, event_handle>>
    BY <1>27, Zenon DEF CloseCancels, KeepButStep, KeepClose
  <2>2. step \notin {"store", "event store"} /\ step' \notin {"store", "event store"}
    BY <1>27 DEF CloseCancels, AfterEvent, Asking, Throw
  <2>. QED BY <2>1, <2>2, SameOwned, Zenon DEF SocketsSame, SameStore, Storing
<1>28. CASE CloseFlags
  <2>1. SameStore
    BY <1>28, Zenon DEF CloseFlags, KeepBeside, SameStore, Storing
  <2>. QED BY <1>28, <2>1, EventClosedOwned, Zenon
       DEF CloseFlags, EventClosed, CloseOwnedEvent, Inv
<1>29. CASE CloseJoinsEvent
  <2>1. UNCHANGED <<sockets, handle, event_handle>>
    BY <1>29, Zenon DEF CloseJoinsEvent, KeepButStep, KeepClose
  <2>2. step \notin {"store", "event store"} /\ step' \notin {"store", "event store"}
    BY <1>29 DEF CloseJoinsEvent, AfterEvent, Asking, Throw
  <2>. QED BY <2>1, <2>2, SameOwned, Zenon DEF SocketsSame, SameStore, Storing
<1>30. CASE CloseResets
  <2>1. UNCHANGED <<sockets, handle, event_handle>>
    BY <1>30, Zenon DEF CloseResets, KeepButStep, KeepClose
  <2>2. step \notin {"store", "event store"} /\ step' \notin {"store", "event store"}
    BY <1>30 DEF CloseResets, AfterEvent, Asking, Throw
  <2>. QED BY <2>1, <2>2, SameOwned, Zenon DEF SocketsSame, SameStore, Storing
<1>31. ASSUME NEW u \in User, SendFails(u) PROVE Owned'
  <2>1. UNCHANGED <<sockets, handle, event_handle>>
    BY <1>31, Zenon DEF SendFails, KeepSession
  <2>2. step' = step \/ (step = "ready" /\ step' = "unwind")
    <3>1. user[u].pc \in {"wait", "read"} /\ (LetsGo(u) \/ step' = step)
      BY <1>31, Zenon DEF SendFails
    <3>. QED BY <3>1, LetsGoInSession DEF Inv
  <2>3. candidate' = candidate
    BY <1>31, Zenon DEF SendFails, KeepSession
  <2>. QED BY <2>1, <2>2, <2>3, SameOwned DEF SocketsSame, SameStore, Storing
<1>32. ASSUME NEW u \in User, ReadFails(u) PROVE Owned'
  <2>1. UNCHANGED <<sockets, handle, event_handle>>
    BY <1>32, Zenon DEF ReadFails, KeepSession
  <2>2. step' = step \/ (step = "ready" /\ step' = "unwind")
    <3>1. user[u].pc \in {"wait", "read"} /\ (LetsGo(u) \/ step' = step)
      BY <1>32, Zenon DEF ReadFails
    <3>. QED BY <3>1, LetsGoInSession DEF Inv
  <2>3. candidate' = candidate
    BY <1>32, Zenon DEF ReadFails, KeepSession
  <2>. QED BY <2>1, <2>2, <2>3, SameOwned DEF SocketsSame, SameStore, Storing
<1>33. ASSUME NEW u \in User, NEW n \in 1 .. Len(inbox), NEW ok \in BOOLEAN, Reads(u, n, ok)
      PROVE Owned'
  <2>1. UNCHANGED <<sockets, handle, event_handle>>
    BY <1>33, Zenon DEF Reads, KeepSession
  <2>2. step' = step \/ (step = "ready" /\ step' = "unwind")
    <3>1. user[u].pc \in {"wait", "read"} /\ (LetsGo(u) \/ step' = step)
      BY <1>33, Zenon DEF Reads
    <3>. QED BY <3>1, LetsGoInSession DEF Inv
  <2>3. candidate' = candidate
    BY <1>33, Zenon DEF Reads, KeepSession
  <2>. QED BY <2>1, <2>2, <2>3, SameOwned DEF SocketsSame, SameStore, Storing
<1>34. ASSUME NEW c \in Canceller, CancelFlag(c) PROVE Owned'
  BY <1>34, SameOwned, Zenon DEF CancelFlag, KeepBeside, SocketsSame, SameStore, Storing
<1>35. ASSUME NEW u \in User, NEW n \in 1 .. 3, NEW last \in BOOLEAN, Asks(u, n, last)
      PROVE  Owned'
  BY <1>35, SameOwned, Zenon DEF Asks, KeepSession, SocketsSame, SameStore, Storing
<1>36. ASSUME NEW u \in User, Sends(u) PROVE Owned'
  BY <1>36, SameOwned, Zenon DEF Sends, KeepSession, SocketsSame, SameStore, Storing
<1>37. CASE HostCancels \/ EventReceives \/ EventAnswers \/ EventHandled \/ EventEnds
          \/ TimingEnds \/ Answers
  <2>1. UNCHANGED <<step, sockets, candidate, handle, event_handle>>
    BY <1>37, Zenon DEF HostCancels, KeepBeside, EventReceives, KeepWorker, EventAnswers,
      EventHandled, EventEnds, TimingEnds, Answers, KeepSession, SocketsSame, SameStore,
      Storing
  <2>. QED BY <2>1, SameOwned, Zenon DEF SocketsSame, SameStore, Storing
<1>. QED BY <1>1, <1>2, <1>3, <1>4, <1>5, <1>6, <1>7, <1>8, <1>9, <1>10, <1>11, <1>12, <1>13,
     <1>14, <1>15, <1>16, <1>17, <1>18, <1>19, <1>20, <1>21, <1>22, <1>23, <1>24, <1>25, <1>26,
     <1>27, <1>28, <1>29, <1>30, <1>31, <1>32, <1>33, <1>34, <1>35, <1>36, <1>37
  DEF Next, Opener, Cancel, Close, Workers, Requests

\* Nothing is asked before the session is there, nor after.
Quiet == /\ step \notin {"ready", "unwind"} \/ step' = step
         /\ UNCHANGED <<request_mutex, next_cseq, user, unanswered, inbox>>

\* A step that asks nothing leaves at most one request.
LEMMA QuietOne == OneRequest /\ Quiet => OneRequest'
BY Zenon DEF OneRequest, Quiet, User

\* One request at a time.
LEMMA RequestStep == Inv /\ OneRequest /\ Next => OneRequest'
<1> SUFFICES ASSUME Inv, OneRequest, Next PROVE OneRequest'
  OBVIOUS
<1>1. CASE OpenBegins
  <2>1. UNCHANGED <<request_mutex, next_cseq, user, unanswered, inbox>>
    BY <1>1, Zenon DEF OpenBegins, KeepButStep, KeepClose
  <2>2. step \notin {"ready", "unwind"}
    BY <1>1 DEF OpenBegins, Asking
  <2>. QED BY <2>1, <2>2, QuietOne, Zenon DEF Quiet
<1>2. CASE ConnectGivesUp
  <2>1. UNCHANGED <<request_mutex, next_cseq, user, unanswered, inbox>>
    BY <1>2, Zenon DEF ConnectGivesUp, KeepButStep, KeepClose
  <2>2. step \notin {"ready", "unwind"}
    BY <1>2 DEF ConnectGivesUp, Asking
  <2>. QED BY <2>1, <2>2, QuietOne, Zenon DEF Quiet
<1>3. CASE ConnectTries
  <2>1. UNCHANGED <<request_mutex, next_cseq, user, unanswered, inbox>>
    BY <1>3, Zenon DEF ConnectTries, KeepButStep, KeepClose
  <2>2. step \notin {"ready", "unwind"}
    BY <1>3 DEF ConnectTries, Asking
  <2>. QED BY <2>1, <2>2, QuietOne, Zenon DEF Quiet
<1>4. CASE ConnectStores
  <2>1. UNCHANGED <<request_mutex, next_cseq, user, unanswered, inbox>>
    BY <1>4, Zenon DEF ConnectStores, KeepButStep, KeepClose
  <2>2. step \notin {"ready", "unwind"}
    BY <1>4 DEF ConnectStores, Asking
  <2>. QED BY <2>1, <2>2, QuietOne, Zenon DEF Quiet
<1>5. ASSUME NEW ok \in BOOLEAN, ConnectReturns(ok) PROVE OneRequest'
  <2>1. UNCHANGED <<request_mutex, next_cseq, user, unanswered, inbox>>
    BY <1>5, Zenon DEF ConnectReturns, KeepButStep, KeepClose
  <2>2. step \notin {"ready", "unwind"}
    BY <1>5 DEF ConnectReturns, Asking
  <2>. QED BY <2>1, <2>2, QuietOne, Zenon DEF Quiet
<1>6. CASE ConnectDrops
  <2>1. UNCHANGED <<request_mutex, next_cseq, user, unanswered, inbox>>
    BY <1>6, Zenon DEF ConnectDrops, KeepButStep, KeepClose
  <2>2. step \notin {"ready", "unwind"}
    BY <1>6 DEF ConnectDrops, Asking
  <2>. QED BY <2>1, <2>2, QuietOne, Zenon DEF Quiet
<1>7. CASE Binds
  <2>1. UNCHANGED <<request_mutex, next_cseq, user, unanswered, inbox>>
    BY <1>7, Zenon DEF Binds, KeepButStep, KeepClose
  <2>2. step \notin {"ready", "unwind"}
    BY <1>7 DEF Binds, Asking
  <2>. QED BY <2>1, <2>2, QuietOne, Zenon DEF Quiet
<1>8. CASE AskInVain
  <2>1. UNCHANGED <<request_mutex, next_cseq, user, unanswered, inbox>>
    BY <1>8, Zenon DEF AskInVain, KeepButStep, KeepClose
  <2>2. step \notin {"ready", "unwind"}
    BY <1>8 DEF AskInVain, Asking
  <2>. QED BY <2>1, <2>2, QuietOne, Zenon DEF Quiet
<1>9. CASE AskInfo
  <2>1. UNCHANGED <<request_mutex, next_cseq, user, unanswered, inbox>>
    BY <1>9, Zenon DEF AskInfo, KeepButStep, KeepClose
  <2>2. step \notin {"ready", "unwind"}
    BY <1>9 DEF AskInfo, Asking
  <2>. QED BY <2>1, <2>2, QuietOne, Zenon DEF Quiet
<1>10. CASE AskPairing
  <2>1. UNCHANGED <<request_mutex, next_cseq, user, unanswered, inbox>>
    BY <1>10, Zenon DEF AskPairing, KeepButStep, KeepClose
  <2>2. step \notin {"ready", "unwind"}
    BY <1>10 DEF AskPairing, Asking
  <2>. QED BY <2>1, <2>2, QuietOne, Zenon DEF Quiet
<1>11. CASE AskSession
  <2>1. UNCHANGED <<request_mutex, next_cseq, user, unanswered, inbox>>
    BY <1>11, Zenon DEF AskSession, KeepButStep, KeepClose
  <2>2. step \notin {"ready", "unwind"}
    BY <1>11 DEF AskSession, Asking
  <2>. QED BY <2>1, <2>2, QuietOne, Zenon DEF Quiet
<1>12. CASE AskEarlyRecord
  <2>1. UNCHANGED <<request_mutex, next_cseq, user, unanswered, inbox>>
    BY <1>12, Zenon DEF AskEarlyRecord, KeepButStep, KeepClose
  <2>2. step \notin {"ready", "unwind"}
    BY <1>12 DEF AskEarlyRecord, Asking
  <2>. QED BY <2>1, <2>2, QuietOne, Zenon DEF Quiet
<1>13. CASE AskPeers
  <2>1. UNCHANGED <<request_mutex, next_cseq, user, unanswered, inbox>>
    BY <1>13, Zenon DEF AskPeers, KeepButStep, KeepClose
  <2>2. step \notin {"ready", "unwind"}
    BY <1>13 DEF AskPeers, Asking
  <2>. QED BY <2>1, <2>2, QuietOne, Zenon DEF Quiet
<1>14. CASE AskStream
  <2>1. UNCHANGED <<request_mutex, next_cseq, user, unanswered, inbox>>
    BY <1>14, Zenon DEF AskStream, KeepButStep, KeepClose
  <2>2. step \notin {"ready", "unwind"}
    BY <1>14 DEF AskStream, Asking
  <2>. QED BY <2>1, <2>2, QuietOne, Zenon DEF Quiet
<1>15. CASE StreamRejected
  <2>1. UNCHANGED <<request_mutex, next_cseq, user, unanswered, inbox>>
    BY <1>15, Zenon DEF StreamRejected, KeepButStep, KeepClose
  <2>2. step \notin {"ready", "unwind"}
    BY <1>15 DEF StreamRejected, Asking
  <2>. QED BY <2>1, <2>2, QuietOne, Zenon DEF Quiet
<1>16. CASE AskRecord
  <2>1. UNCHANGED <<request_mutex, next_cseq, user, unanswered, inbox>>
    BY <1>16, Zenon DEF AskRecord, KeepButStep, KeepClose
  <2>2. step \notin {"ready", "unwind"}
    BY <1>16 DEF AskRecord, Asking
  <2>. QED BY <2>1, <2>2, QuietOne, Zenon DEF Quiet
<1>17. CASE AskCommands
  <2>1. UNCHANGED <<request_mutex, next_cseq, user, unanswered, inbox>>
    BY <1>17, Zenon DEF AskCommands, KeepButStep, KeepClose
  <2>2. step \notin {"ready", "unwind"}
    BY <1>17 DEF AskCommands, Asking
  <2>. QED BY <2>1, <2>2, QuietOne, Zenon DEF Quiet
<1>18. CASE EventGivesUp
  <2>1. UNCHANGED <<request_mutex, next_cseq, user, unanswered, inbox>>
    BY <1>18, Zenon DEF EventGivesUp, KeepButStep, KeepClose
  <2>2. step \notin {"ready", "unwind"}
    BY <1>18 DEF EventGivesUp, Asking
  <2>. QED BY <2>1, <2>2, QuietOne, Zenon DEF Quiet
<1>19. CASE EventTries
  <2>1. UNCHANGED <<request_mutex, next_cseq, user, unanswered, inbox>>
    BY <1>19, Zenon DEF EventTries, KeepButStep, KeepClose
  <2>2. step \notin {"ready", "unwind"}
    BY <1>19 DEF EventTries, Asking
  <2>. QED BY <2>1, <2>2, QuietOne, Zenon DEF Quiet
<1>20. CASE EventStores
  <2>1. UNCHANGED <<request_mutex, next_cseq, user, unanswered, inbox>>
    BY <1>20, Zenon DEF EventStores, KeepButStep, KeepClose
  <2>2. step \notin {"ready", "unwind"}
    BY <1>20 DEF EventStores, Asking
  <2>. QED BY <2>1, <2>2, QuietOne, Zenon DEF Quiet
<1>21. ASSUME NEW ok \in BOOLEAN, EventReturns(ok) PROVE OneRequest'
  <2>1. UNCHANGED <<request_mutex, next_cseq, user, unanswered, inbox>>
    BY <1>21, Zenon DEF EventReturns, KeepButStep, KeepClose
  <2>2. step \notin {"ready", "unwind"}
    BY <1>21 DEF EventReturns, Asking
  <2>. QED BY <2>1, <2>2, QuietOne, Zenon DEF Quiet
<1>22. CASE EventDrops
  <2>1. UNCHANGED <<request_mutex, next_cseq, user, unanswered, inbox>>
    BY <1>22, Zenon DEF EventDrops, KeepButStep, KeepClose
  <2>2. step \notin {"ready", "unwind"}
    BY <1>22 DEF EventDrops, Asking
  <2>. QED BY <2>1, <2>2, QuietOne, Zenon DEF Quiet
<1>23. CASE EventStarts
  <2>1. UNCHANGED <<request_mutex, next_cseq, user, unanswered, inbox>>
    BY <1>23, Zenon DEF EventStarts, KeepButStep, KeepClose
  <2>2. step \notin {"ready", "unwind"}
    BY <1>23 DEF EventStarts, Asking
  <2>. QED BY <2>1, <2>2, QuietOne, Zenon DEF Quiet
<1>24. CASE DestructorBegins
  <2>1. \A v \in User : user[v].pc = "idle"
    BY <1>24, Zenon DEF DestructorBegins, OneRequest, User
  <2>2. user' = user /\ unanswered' = <<>> /\ inbox' = <<>> /\ step' = "close"
    BY <1>24, Zenon DEF DestructorBegins
  <2>. QED BY <2>1, <2>2 DEF OneRequest
<1>25. CASE CloseCancels
  <2>1. UNCHANGED <<request_mutex, next_cseq, user, unanswered, inbox>>
    BY <1>25, Zenon DEF CloseCancels, KeepButStep, KeepClose
  <2>2. step \notin {"ready", "unwind"}
    BY <1>25 DEF CloseCancels, Asking
  <2>. QED BY <2>1, <2>2, QuietOne, Zenon DEF Quiet
<1>26. CASE CloseFlags
  <2>1. UNCHANGED <<request_mutex, next_cseq, user, unanswered, inbox>>
    BY <1>26, Zenon DEF CloseFlags, KeepButStep, KeepClose
  <2>2. step \notin {"ready", "unwind"}
    BY <1>26 DEF CloseFlags, Asking
  <2>. QED BY <2>1, <2>2, QuietOne, Zenon DEF Quiet
<1>27. CASE CloseJoinsEvent
  <2>1. UNCHANGED <<request_mutex, next_cseq, user, unanswered, inbox>>
    BY <1>27, Zenon DEF CloseJoinsEvent, KeepButStep, KeepClose
  <2>2. step \notin {"ready", "unwind"}
    BY <1>27 DEF CloseJoinsEvent, Asking
  <2>. QED BY <2>1, <2>2, QuietOne, Zenon DEF Quiet
<1>28. CASE CloseResets
  <2>1. \A v \in User : user[v].pc = "idle"
    BY <1>28, Zenon DEF CloseResets, OneRequest
  <2>2. UNCHANGED <<user, unanswered, inbox>> /\ step = "join timing" /\ step' # "unwind"
    BY <1>28, Zenon DEF CloseResets
  <2>. QED BY <2>1, <2>2, Zenon DEF OneRequest, User
<1>29. ASSUME NEW u \in User, NEW n \in 1 .. 3, NEW last \in BOOLEAN, Asks(u, n, last)
      PROVE OneRequest'
  <2>0. user \in [User -> [pc : {"idle", "wait", "read"}, left : 0 .. 3, cseq : Nat]]
    BY Zenon DEF Inv, TypeOK, RequestsTyped
  <2>1. user' = [user EXCEPT ![u] = [@ EXCEPT !.pc = "wait", !.left = n]]
    BY <1>29, Zenon DEF Asks
  <2>2. step = "ready" /\ UNCHANGED <<step, request_mutex, next_cseq>>
    BY <1>29, Zenon DEF Asks
  <2>3. \A v \in User : v # u => user'[v] = user[v]
    BY <2>0, <2>1, Zenon
  <2>4. user'[u].pc = "wait"
    BY <2>0, <2>1 DEF Idle
  <2>5. \A v \in User : user'[v].pc = "read" => v # u
    BY <2>4
  <2>6. step \in {"ready", "unwind"} /\ step # "unwind"
    BY <2>2
  <2>. QED BY <2>2, <2>3, <2>5, <2>6, Zenon DEF OneRequest
<1>30. ASSUME NEW u \in User, Sends(u) PROVE OneRequest'
  <2>0. user \in [User -> [pc : {"idle", "wait", "read"}, left : 0 .. 3, cseq : Nat]]
    BY Zenon DEF Inv, TypeOK, RequestsTyped
  <2>1. PICK k \in Nat :
          /\ user' = [user EXCEPT ![u] = [@ EXCEPT !.pc = "read", !.cseq = k]]
          /\ next_cseq = k /\ next_cseq' = k + 1
    BY <1>30, Zenon DEF Sends, Inv, TypeOK, NumbersTyped
  <2>2. request_mutex' = u /\ request_mutex = "free" /\ step' = step
    BY <1>30, Zenon DEF Sends, MutexFree
  <2>3. \A v \in User : v # u => user'[v] = user[v]
    BY <2>0, <2>1, Zenon
  <2>4. user'[u].pc = "read" /\ user'[u].cseq = k
    BY <2>0, <2>1 DEF Idle
  <2>5. step \in {"ready", "unwind"} /\ (step = "unwind" => u # "manager")
    <3>1. user[u].pc # "idle"
      BY <1>30 DEF Sends
    <3>. QED BY <3>1, Zenon DEF OneRequest
  <2>6. next_cseq' - 1 = k
    BY <2>1
  <2>7. \A v \in User : v # u => user'[v].pc # "read"
    BY <2>2, <2>3, Zenon DEF OneRequest, User
  <2>8. \A v \in User : user'[v].pc = "read"
                        => request_mutex' = v /\ user'[v].cseq = next_cseq' - 1
    BY <2>2, <2>4, <2>6, <2>7, Zenon
  <2>9. step = "unwind" => user'["manager"].pc = "idle"
    BY <2>3, <2>5, Zenon DEF OneRequest, User
  <2>. QED BY <2>2, <2>5, <2>8, <2>9, Zenon DEF OneRequest
<1>31. ASSUME NEW u \in User, SendFails(u) PROVE OneRequest'
  <2>0. user \in [User -> [pc : {"idle", "wait", "read"}, left : 0 .. 3, cseq : Nat]]
    BY Zenon DEF Inv, TypeOK, RequestsTyped
  <2>1. user' = [user EXCEPT ![u] = Idle]
        /\ UNCHANGED <<request_mutex, next_cseq, unanswered, inbox>>
    BY <1>31, Zenon DEF SendFails, Ended
  <2>2. (step = "ready" /\ step' = "unwind" /\ u = "manager") \/ step' = step
    <3>1. user[u].pc \in {"wait", "read"} /\ (LetsGo(u) \/ step' = step)
      BY <1>31, Zenon DEF SendFails
    <3>2. step' = step \/ (step = "ready" /\ step' = "unwind")
      BY <3>1, LetsGoInSession
    <3>. QED BY <3>1, <3>2, Zenon DEF LetsGo
  <2>3. \A v \in User : v # u => user'[v] = user[v]
    BY <2>0, <2>1, Zenon
  <2>4. user'[u].pc = "idle"
    BY <2>0, <2>1 DEF Idle
  <2>5. step \in {"ready", "unwind"} /\ (step = "unwind" => u # "manager")
    <3>1. user[u].pc # "idle"
      BY <1>31 DEF SendFails
    <3>. QED BY <3>1, Zenon DEF OneRequest
  <2>. QED BY <2>1, <2>2, <2>3, <2>4, <2>5, Zenon DEF OneRequest, User
<1>32. ASSUME NEW u \in User, ReadFails(u) PROVE OneRequest'
  <2>0. user \in [User -> [pc : {"idle", "wait", "read"}, left : 0 .. 3, cseq : Nat]]
    BY Zenon DEF Inv, TypeOK, RequestsTyped
  <2>1. user' = [user EXCEPT ![u] = Idle] /\ request_mutex' = "free"
        /\ UNCHANGED <<next_cseq, unanswered, inbox>>
    BY <1>32, Zenon DEF ReadFails, Ended
  <2>2. (step = "ready" /\ step' = "unwind" /\ u = "manager") \/ step' = step
    <3>1. user[u].pc \in {"wait", "read"} /\ (LetsGo(u) \/ step' = step)
      BY <1>32, Zenon DEF ReadFails
    <3>2. step' = step \/ (step = "ready" /\ step' = "unwind")
      BY <3>1, LetsGoInSession
    <3>. QED BY <3>1, <3>2, Zenon DEF LetsGo
  <2>3. \A v \in User : v # u => user'[v] = user[v]
    BY <2>0, <2>1, Zenon
  <2>4. user'[u].pc = "idle"
    BY <2>0, <2>1 DEF Idle
  <2>5. step \in {"ready", "unwind"} /\ (step = "unwind" => u # "manager")
    <3>1. user[u].pc # "idle"
      BY <1>32 DEF ReadFails
    <3>. QED BY <3>1, Zenon DEF OneRequest
  <2>6. \A v \in User : user'[v].pc # "read"
    BY <1>32, <2>3, <2>4, Zenon DEF ReadFails, OneRequest
  <2>. QED BY <2>1, <2>2, <2>3, <2>4, <2>5, <2>6, Zenon DEF OneRequest, User
<1>33. ASSUME NEW u \in User, NEW n \in 1 .. Len(inbox), NEW ok \in BOOLEAN, Reads(u, n, ok)
      PROVE OneRequest'
  <2>0. user \in [User -> [pc : {"idle", "wait", "read"}, left : 0 .. 3, cseq : Nat]]
    BY Zenon DEF Inv, TypeOK, RequestsTyped
  <2>1. PICK w \in {Idle, [pc |-> "wait", left |-> user[u].left - 1, cseq |-> 0]} :
          /\ user' = [user EXCEPT ![u] = w] /\ request_mutex' = "free"
          /\ (step' = step /\ w # Idle) \/ w = Idle
    BY <1>33, Zenon DEF Reads, Ended
  <2>2. (step = "ready" /\ step' = "unwind" /\ u = "manager") \/ step' = step
    <3>1. user[u].pc \in {"wait", "read"} /\ (LetsGo(u) \/ step' = step)
      BY <1>33, Zenon DEF Reads
    <3>2. step' = step \/ (step = "ready" /\ step' = "unwind")
      BY <3>1, LetsGoInSession
    <3>. QED BY <3>1, <3>2, Zenon DEF LetsGo
  <2>3. \A v \in User : v # u => user'[v] = user[v]
    BY <2>0, <2>1, Zenon
  <2>4. user'[u].pc = w.pc
    BY <2>0, <2>1
  <2>5. step \in {"ready", "unwind"} /\ (step = "unwind" => u # "manager")
    <3>1. user[u].pc # "idle"
      BY <1>33 DEF Reads
    <3>. QED BY <3>1, Zenon DEF OneRequest
  <2>6. w.pc # "read" /\ (w = Idle => w.pc = "idle")
    BY <2>1 DEF Idle
  <2>7. \A v \in User : user'[v].pc # "read"
    BY <1>33, <2>3, <2>4, <2>6, Zenon DEF Reads, OneRequest
  <2>8. CASE step' = step
    BY <2>5, <2>7, <2>8, <2>3, Zenon DEF OneRequest, User
  <2>9. CASE step' # step
    <3>1. user'["manager"].pc = "idle" /\ step' = "unwind"
      BY <1>33, <2>2, <2>9, <2>4, <2>6, <2>1, Zenon DEF Reads
    <3>. QED BY <3>1, <2>7, Zenon DEF OneRequest, User
  <2>. QED BY <2>8, <2>9
<1>34. CASE Answers
  <2>1. unanswered # <<>> /\ UNCHANGED <<step, request_mutex, next_cseq, user>>
    BY <1>34, Zenon DEF Answers
  <2>2. step \in {"ready", "unwind"}
    BY <2>1, Zenon DEF OneRequest
  <2>. QED BY <2>1, <2>2, Zenon DEF OneRequest
<1>35. ASSUME NEW c \in Canceller, CancelFlag(c) PROVE OneRequest'
  BY <1>35, QuietOne, Zenon DEF CancelFlag, KeepBeside, Quiet
<1>36. ASSUME NEW c \in Canceller, CancelControl(c) PROVE OneRequest'
  BY <1>36, QuietOne, Zenon DEF CancelControl, KeepBeside, Quiet
<1>37. ASSUME NEW c \in Canceller, CancelEvent(c) PROVE OneRequest'
  BY <1>37, QuietOne, Zenon DEF CancelEvent, KeepBeside, Quiet
<1>38. CASE HostCancels \/ EventReceives \/ EventAnswers \/ EventHandled \/ EventEnds
          \/ TimingEnds
  <2>1. UNCHANGED <<step, request_mutex, next_cseq, user, unanswered, inbox>>
    BY <1>38, Zenon DEF HostCancels, KeepBeside, EventReceives, KeepWorker, EventAnswers,
      EventHandled, EventEnds, TimingEnds, Quiet
  <2>. QED BY <2>1, QuietOne, Zenon DEF Quiet
<1>. QED BY <1>1, <1>2, <1>3, <1>4, <1>5, <1>6, <1>7, <1>8, <1>9, <1>10, <1>11, <1>12, <1>13,
     <1>14, <1>15, <1>16, <1>17, <1>18, <1>19, <1>20, <1>21, <1>22, <1>23, <1>24, <1>25, <1>26,
     <1>27, <1>28, <1>29, <1>30, <1>31, <1>32, <1>33, <1>34, <1>35, <1>36, <1>37, <1>38
  DEF Next, Opener, Cancel, Close, Workers, Requests

\* What is left of a sequence without its first n elements.
LEMMA Suffix ==
  ASSUME NEW s \in Seq(Nat), NEW n \in 1 .. Len(s)
  PROVE  /\ Len(SubSeq(s, n + 1, Len(s))) = Len(s) - n
         /\ \A i \in 1 .. Len(s) - n : SubSeq(s, n + 1, Len(s))[i] = s[n + i]
<1>1. Len(s) \in Nat
  BY LenProperties
<1>2. PICK m \in Int : m = n + 1
  BY <1>1
<1>3. \A i \in m .. Len(s) : s[i] \in Nat
  BY <1>1, <1>2, ElementOfSeq
<1>4. /\ Len(SubSeq(s, m, Len(s))) = IF m <= Len(s) THEN Len(s) - m + 1 ELSE 0
      /\ \A i \in 1 .. Len(s) - m + 1 : SubSeq(s, m, Len(s))[i] = s[m + i - 1]
  BY <1>1, <1>3, SubSeqProperties
<1>5. SubSeq(s, n + 1, Len(s)) = SubSeq(s, m, Len(s))
  BY <1>2
<1>6. Len(SubSeq(s, m, Len(s))) = Len(s) - n
  BY <1>1, <1>2, <1>4
<1>7. ASSUME NEW i \in 1 .. Len(s) - n PROVE SubSeq(s, m, Len(s))[i] = s[n + i]
  <2>1. i \in 1 .. Len(s) - m + 1 /\ m + i - 1 = n + i
    BY <1>1, <1>2
  <2>. QED BY <2>1, <1>4
<1>. QED BY <1>5, <1>6, <1>7

\* What is counted, as numbers.
LEMMA Counts ==
  TypeOK => /\ Len(unanswered) \in Nat /\ Len(inbox) \in Nat /\ next_cseq \in Nat
            /\ timeouts \in Nat /\ unanswered \in Seq(Nat) /\ inbox \in Seq(Nat)
            /\ request_mutex \in User \cup {"free"} /\ "free" \notin User
            /\ taken.asked \in Nat /\ taken.answered \in Nat
<1> SUFFICES ASSUME TypeOK PROVE /\ Len(unanswered) \in Nat /\ Len(inbox) \in Nat
            /\ next_cseq \in Nat /\ timeouts \in Nat /\ unanswered \in Seq(Nat)
            /\ inbox \in Seq(Nat) /\ request_mutex \in User \cup {"free"}
            /\ "free" \notin User /\ taken.asked \in Nat /\ taken.answered \in Nat
  OBVIOUS
<1>1. unanswered \in Seq(Nat) /\ inbox \in Seq(Nat) /\ request_mutex \in User \cup {"free"}
  BY Zenon DEF TypeOK, RequestsTyped
<1>2. Len(unanswered) \in Nat /\ Len(inbox) \in Nat
  BY <1>1, LenProperties
<1>3. taken.asked \in Nat /\ taken.answered \in Nat
  BY DEF TypeOK, RequestsTyped
<1>4. next_cseq \in Nat /\ timeouts \in Nat
  BY Zenon DEF TypeOK, NumbersTyped
<1>. QED BY <1>1, <1>2, <1>3, <1>4 DEF User

\* The request under way holds the mutex and has the last number.
LEMMA Reading ==
  ASSUME Inv, NEW u \in User, user[u].pc = "read"
  PROVE  request_mutex # "free" /\ user[u].cseq = next_cseq - 1
<1>1. request_mutex = u /\ user[u].cseq = next_cseq - 1
  BY Zenon DEF Inv, OneRequest
<1>. QED BY <1>1, Counts, Zenon DEF Inv

\* What is answered.
LEMMA AnswersStep == Inv /\ AnswersDue /\ AnswersInStep /\ Next => (AnswersDue /\ AnswersInStep)'
<1> SUFFICES ASSUME Inv, AnswersDue, AnswersInStep, Next PROVE (AnswersDue /\ AnswersInStep)'
  OBVIOUS
<1>1. CASE DestructorBegins
  <2>0. /\ Len(unanswered) \in Nat /\ Len(inbox) \in Nat /\ next_cseq \in Nat
        /\ timeouts \in Nat /\ unanswered \in Seq(Nat) /\ inbox \in Seq(Nat)
        /\ taken.asked \in Nat /\ taken.answered \in Nat
    BY Counts, Zenon DEF Inv
  <2>. unanswered' = <<>> /\ inbox' = <<>> /\ UNCHANGED <<timeouts, taken, request_mutex>>
    BY <1>1, Zenon DEF DestructorBegins, OneRequest, Inv
  <2>2. Len(unanswered') = 0 /\ Len(inbox') = 0
    OBVIOUS
  <2>. QED BY <2>0, <2>2 DEF AnswersDue, AnswersInStep
<1>2. CASE CloseResets
  <2>0. /\ Len(unanswered) \in Nat /\ Len(inbox) \in Nat /\ next_cseq \in Nat
        /\ timeouts \in Nat /\ unanswered \in Seq(Nat) /\ inbox \in Seq(Nat)
        /\ taken.asked \in Nat /\ taken.answered \in Nat
    BY Counts, Zenon DEF Inv
  <2>3. step \notin {"ready", "unwind"}
    BY <1>2 DEF CloseResets
  <2>. unanswered' = <<>> /\ inbox' = <<>> /\ UNCHANGED <<timeouts, taken, request_mutex>>
    BY <1>2, <2>3, Zenon DEF CloseResets, OneRequest, Inv
  <2>2. Len(unanswered') = 0 /\ Len(inbox') = 0
    OBVIOUS
  <2>. QED BY <2>0, <2>2 DEF AnswersDue, AnswersInStep
<1>3. ASSUME NEW u \in User, Sends(u) PROVE (AnswersDue /\ AnswersInStep)'
  <2>0. /\ Len(unanswered) \in Nat /\ Len(inbox) \in Nat /\ next_cseq \in Nat
        /\ timeouts \in Nat /\ unanswered \in Seq(Nat) /\ inbox \in Seq(Nat)
        /\ taken.asked \in Nat /\ taken.answered \in Nat
    BY Counts, Zenon DEF Inv
  <2>1. /\ next_cseq' = next_cseq + 1 /\ unanswered' = Append(unanswered, next_cseq)
        /\ inbox' = inbox
    BY <1>3, Zenon DEF Sends
  <2>2. /\ Len(unanswered') = Len(unanswered) + 1
        /\ unanswered'[Len(unanswered) + 1] = next_cseq
        /\ \A i \in 1 .. Len(unanswered) : unanswered'[i] = unanswered[i]
    BY <2>0, <2>1, AppendProperties
  <2>3. request_mutex = "free" /\ request_mutex' # "free"
    BY <1>3, Counts, Zenon DEF Sends, MutexFree, Inv
  <2>4. timeouts' = timeouts /\ taken' = taken
    BY <1>3, Zenon DEF Sends
  <2>5. Len(inbox') + Len(unanswered') <= timeouts' + 1
    <3>1. Len(inbox) + Len(unanswered) <= timeouts
      BY <2>0, <2>3 DEF AnswersDue
    <3>. QED BY <2>0, <2>1, <2>2, <2>4, <3>1
  <2>6. \A i \in 1 .. Len(unanswered') :
          unanswered'[i] = next_cseq' - Len(unanswered') + i - 1
    <3> SUFFICES ASSUME NEW i \in 1 .. Len(unanswered')
                 PROVE  unanswered'[i] = next_cseq' - Len(unanswered') + i - 1
      OBVIOUS
    <3>1. CASE i = Len(unanswered) + 1
      BY <2>0, <2>1, <2>2, <3>1
    <3>2. CASE i # Len(unanswered) + 1
      <4>1. i \in 1 .. Len(unanswered)
        BY <2>0, <2>2, <3>2
      <4>2. unanswered[i] = next_cseq - Len(unanswered) + i - 1
        BY <4>1, Zenon DEF AnswersDue
      <4>. QED BY <2>0, <2>1, <2>2, <4>1, <4>2
    <3>. QED BY <3>1, <3>2
  <2>7. \A i \in 1 .. Len(inbox') :
          inbox'[i] = next_cseq' - Len(unanswered') - Len(inbox') + i - 1
    <3>1. \A i \in 1 .. Len(inbox) : inbox[i] = next_cseq - Len(unanswered) - Len(inbox) + i - 1
      BY Zenon DEF AnswersDue
    <3>2. next_cseq' - Len(unanswered') = next_cseq - Len(unanswered)
      BY <2>0, <2>1, <2>2
    <3>. QED BY <2>1, <3>1, <3>2, Zenon
  <2>. QED BY <2>3, <2>4, <2>5, <2>6, <2>7 DEF AnswersDue, AnswersInStep
<1>4. ASSUME NEW u \in User, ReadFails(u) PROVE (AnswersDue /\ AnswersInStep)'
  <2>0. /\ Len(unanswered) \in Nat /\ Len(inbox) \in Nat /\ next_cseq \in Nat
        /\ timeouts \in Nat /\ unanswered \in Seq(Nat) /\ inbox \in Seq(Nat)
        /\ taken.asked \in Nat /\ taken.answered \in Nat
    BY Counts, Zenon DEF Inv
  <2>1. /\ timeouts' = timeouts + 1 /\ request_mutex' = "free"
        /\ UNCHANGED <<next_cseq, unanswered, inbox, taken>>
    BY <1>4, Zenon DEF ReadFails
  <2>2. Len(inbox) + Len(unanswered) <= timeouts + 1
    <3>1. request_mutex # "free"
      BY <1>4, Reading, Zenon DEF ReadFails
    <3>. QED BY <3>1 DEF AnswersDue
  <2>3. AnswersInStep'
    BY <2>0, <2>1 DEF AnswersInStep
  <2>. QED BY <2>0, <2>1, <2>2, <2>3 DEF AnswersDue
<1>5. ASSUME NEW u \in User, NEW n \in 1 .. Len(inbox), NEW ok \in BOOLEAN, Reads(u, n, ok)
      PROVE (AnswersDue /\ AnswersInStep)'
  <2>0. /\ Len(unanswered) \in Nat /\ Len(inbox) \in Nat /\ next_cseq \in Nat
        /\ timeouts \in Nat /\ unanswered \in Seq(Nat) /\ inbox \in Seq(Nat)
        /\ taken.asked \in Nat /\ taken.answered \in Nat
    BY Counts, Zenon DEF Inv
  <2>1. /\ taken' = [asked |-> user[u].cseq, answered |-> Head(inbox)]
        /\ inbox' = SubSeq(inbox, n + 1, Len(inbox))
        /\ request_mutex' = "free" /\ UNCHANGED <<next_cseq, unanswered, timeouts>>
    BY <1>5, Zenon DEF Reads, FirstAnswer
  <2>2. request_mutex # "free" /\ user[u].cseq = next_cseq - 1
    BY <1>5, Reading, Zenon DEF Reads
  <2>3. inbox # <<>> /\ Head(inbox) = inbox[1]
    BY <2>0
  <2>4. /\ Len(inbox') = Len(inbox) - n
        /\ \A i \in 1 .. Len(inbox') : inbox'[i] = inbox[n + i]
    <3>1. inbox' = SubSeq(inbox, n + 1, Len(inbox))
      BY <1>5, Zenon DEF Reads
    <3>. QED BY <2>0, <3>1, Suffix
  <2>5. Len(inbox) + Len(unanswered) <= timeouts + 1
    BY <2>2 DEF AnswersDue
  <2>6. inbox[1] = next_cseq - Len(unanswered) - Len(inbox)
    BY <2>0 DEF AnswersDue
  <2>7. taken'.asked - taken'.answered = Len(unanswered) + Len(inbox) - 1
    <3>1. taken'.asked = next_cseq - 1 /\ taken'.answered = inbox[1]
      BY <2>1, <2>2, <2>3
    <3>. QED BY <2>0, <2>6, <3>1
  <2>8. AnswersInStep'
    <3>1. Len(unanswered) + Len(inbox) - 1 \in 0 .. timeouts
      BY <2>0, <2>5
    <3>2. timeouts' = timeouts
      BY <2>1
    <3>. QED BY <2>7, <3>1, <3>2, Zenon DEF AnswersInStep
  <2>9. \A i \in 1 .. Len(unanswered') :
          unanswered'[i] = next_cseq' - Len(unanswered') + i - 1
    BY <2>1, Zenon DEF AnswersDue
  <2>12. n \in 1 .. Len(inbox)
    OBVIOUS
  <2>10. \A i \in 1 .. Len(inbox') :
          inbox'[i] = next_cseq' - Len(unanswered') - Len(inbox') + i - 1
    <3> SUFFICES ASSUME NEW i \in 1 .. Len(inbox')
                 PROVE  inbox'[i] = next_cseq' - Len(unanswered') - Len(inbox') + i - 1
      OBVIOUS
    <3>1. inbox'[i] = inbox[n + i] /\ n + i \in 1 .. Len(inbox) /\ Len(inbox') = Len(inbox) - n
      BY <2>0, <2>4, <2>12
    <3>2. inbox[n + i] = next_cseq - Len(unanswered) - Len(inbox) + (n + i) - 1
      BY <3>1, Zenon DEF AnswersDue
    <3>3. next_cseq' = next_cseq /\ unanswered' = unanswered
      BY <1>5, Zenon DEF Reads
    <3>4. inbox'[i] = next_cseq - Len(unanswered) - (Len(inbox) - n) + i - 1
      BY <2>0, <2>12, <3>1, <3>2
    <3>. QED BY <3>1, <3>3, <3>4
  <2>11. Len(inbox') + Len(unanswered') <= timeouts'
    BY <2>0, <2>1, <2>4, <2>5
  <2>13. Len(inbox') + Len(unanswered')
            <= timeouts' + (IF request_mutex' = "free" THEN 0 ELSE 1)
    <3>1. request_mutex' = "free" /\ timeouts' \in Nat
      BY <2>0, <2>1
    <3>. QED BY <2>11, <3>1
  <2>. QED BY <2>8, <2>9, <2>10, <2>13, Zenon DEF AnswersDue
<1>6. CASE Answers
  <2>0. /\ Len(unanswered) \in Nat /\ Len(inbox) \in Nat /\ next_cseq \in Nat
        /\ timeouts \in Nat /\ unanswered \in Seq(Nat) /\ inbox \in Seq(Nat)
        /\ taken.asked \in Nat /\ taken.answered \in Nat
    BY Counts, Zenon DEF Inv
  <2>1. /\ unanswered # <<>> /\ inbox' = Append(inbox, Head(unanswered))
        /\ unanswered' = Tail(unanswered)
    BY <1>6, Zenon DEF Answers
  <2>2. /\ Len(unanswered') = Len(unanswered) - 1
        /\ \A i \in 1 .. Len(unanswered') : unanswered'[i] = unanswered[i + 1]
        /\ Head(unanswered) \in Nat
    BY <2>0, <2>1, HeadTailProperties
  <2>3. /\ Len(inbox') = Len(inbox) + 1
        /\ inbox'[Len(inbox) + 1] = Head(unanswered)
        /\ \A i \in 1 .. Len(inbox) : inbox'[i] = inbox[i]
    BY <2>0, <2>1, <2>2, AppendProperties
  <2>4. UNCHANGED <<next_cseq, timeouts, taken, request_mutex>>
    BY <1>6, Zenon DEF Answers, KeepSession
  <2>5. Len(unanswered) > 0 /\ Head(unanswered) = unanswered[1]
    BY <2>0, <2>1, EmptySeq
  <2>6. Head(unanswered) = next_cseq - Len(unanswered)
    BY <2>0, <2>5 DEF AnswersDue
  <2>7. \A i \in 1 .. Len(unanswered') :
          unanswered'[i] = next_cseq' - Len(unanswered') + i - 1
    BY <2>0, <2>2, <2>4, <2>5 DEF AnswersDue
  <2>8. \A i \in 1 .. Len(inbox') :
          inbox'[i] = next_cseq' - Len(unanswered') - Len(inbox') + i - 1
    <3> SUFFICES ASSUME NEW i \in 1 .. Len(inbox')
                 PROVE  inbox'[i] = next_cseq' - Len(unanswered') - Len(inbox') + i - 1
      OBVIOUS
    <3>1. next_cseq' - Len(unanswered') - Len(inbox') = next_cseq - Len(unanswered) - Len(inbox)
      BY <2>0, <2>2, <2>3, <2>4
    <3>2. CASE i \in 1 .. Len(inbox)
      <4>1. inbox[i] = next_cseq - Len(unanswered) - Len(inbox) + i - 1
        BY <3>2, Zenon DEF AnswersDue
      <4>. QED BY <2>3, <3>1, <3>2, <4>1
    <3>3. CASE i = Len(inbox) + 1
      <4>1. inbox'[i] = next_cseq - Len(unanswered)
        BY <2>3, <2>6, <3>3
      <4>. QED BY <2>0, <3>1, <3>3, <4>1
    <3>4. i \in 1 .. Len(inbox) \/ i = Len(inbox) + 1
      BY <2>0, <2>3
    <3>. QED BY <3>2, <3>3, <3>4, Zenon
  <2>9. Len(inbox') + Len(unanswered') = Len(inbox) + Len(unanswered)
    BY <2>0, <2>2, <2>3
  <2>. QED BY <2>4, <2>7, <2>8, <2>9 DEF AnswersDue, AnswersInStep
<1>7. ASSUME NEW ok \in BOOLEAN, ConnectReturns(ok) PROVE (AnswersDue /\ AnswersInStep)'
  BY <1>7, Zenon DEF ConnectReturns, NoSocket, AnswersDue, AnswersInStep
<1>8. ASSUME NEW ok \in BOOLEAN, EventReturns(ok) PROVE (AnswersDue /\ AnswersInStep)'
  BY <1>8, Zenon DEF EventReturns, AnswersDue, AnswersInStep
<1>9. ASSUME NEW c \in Canceller, CancelFlag(c) PROVE (AnswersDue /\ AnswersInStep)'
  BY <1>9, Zenon DEF CancelFlag, KeepBeside, AnswersDue, AnswersInStep
<1>10. ASSUME NEW c \in Canceller, CancelControl(c) PROVE (AnswersDue /\ AnswersInStep)'
  BY <1>10, Zenon DEF CancelControl, KeepBeside, AnswersDue, AnswersInStep
<1>11. ASSUME NEW c \in Canceller, CancelEvent(c) PROVE (AnswersDue /\ AnswersInStep)'
  BY <1>11, Zenon DEF CancelEvent, KeepBeside, AnswersDue, AnswersInStep
<1>12. ASSUME NEW u \in User, NEW n \in 1 .. 3, NEW last \in BOOLEAN, Asks(u, n, last)
      PROVE  (AnswersDue /\ AnswersInStep)'
  BY <1>12, Zenon DEF Asks, KeepSession, AnswersDue, AnswersInStep
<1>13. ASSUME NEW u \in User, SendFails(u) PROVE (AnswersDue /\ AnswersInStep)'
  BY <1>13, Zenon DEF SendFails, LetsGo, KeepSession, AnswersDue, AnswersInStep
<1>14. CASE OpenBegins \/ ConnectGivesUp \/ ConnectTries \/ ConnectStores \/ ConnectDrops
          \/ Binds \/ AskInVain \/ AskInfo \/ AskPairing \/ AskSession \/ AskEarlyRecord
          \/ AskPeers \/ AskStream \/ StreamRejected \/ AskRecord \/ AskCommands
          \/ EventGivesUp \/ EventTries \/ EventStores \/ EventDrops \/ EventStarts
          \/ HostCancels \/ CloseCancels \/ CloseFlags \/ CloseJoinsEvent \/ EventReceives
          \/ EventAnswers \/ EventHandled \/ EventEnds \/ TimingEnds
  <2>1. UNCHANGED <<next_cseq, unanswered, inbox, timeouts, request_mutex, taken>>
    BY <1>14, Zenon DEF OpenBegins, ConnectGivesUp, Throw, ConnectTries, ConnectStores,
      ConnectDrops, NoSocket, Binds, AskInVain, Asking, KeepButStep, AskInfo, AskPairing,
      AskSession, AfterEvent, AskEarlyRecord, AskPeers, AskStream, StreamRejected, AskRecord,
      AskCommands, EventGivesUp, EventTries, EventStores, EventDrops, EventStarts, HostCancels,
      KeepBeside, CloseCancels, KeepClose, CloseFlags, CloseJoinsEvent, EventReceives,
      KeepWorker, EventAnswers, EventHandled, EventEnds, TimingEnds, AnswersDue, AnswersInStep
  <2>. QED BY <2>1, Zenon DEF AnswersDue, AnswersInStep
<1>. QED BY <1>1, <1>2, <1>3, <1>4, <1>5, <1>6, <1>7, <1>8, <1>9, <1>10, <1>11, <1>12, <1>13,
     <1>14
  DEF Next, Opener, Cancel, Close, Workers, Requests

-----------------------------------------------------------------------------
(* The invariants and the action properties.                               *)

\* Every step keeps the invariant.
LEMMA InvStep == Inv /\ [Next]_vars => Inv'
<1> SUFFICES ASSUME Inv, [Next]_vars PROVE Inv'
  OBVIOUS
<1>1. CASE Next
  <2>1. /\ TypeOK /\ RetryDialsNothing /\ WorkersJoined /\ RecordOwed /\ HandlesEmpty
        /\ CancelCloses /\ Owned /\ OneRequest /\ AnswersDue /\ AnswersInStep
    BY Zenon DEF Inv, Owned
  <2>2. TypeOK' /\ RetryDialsNothing' /\ SocketsCounted'
    BY <1>1, TypeStep, RetryStep, CountStep, Zenon
  <2>3. WorkersJoined' /\ RecordOwed' /\ HandlesEmpty' /\ CancelCloses'
    BY <1>1, <2>1, WorkersStep, RecordStep, EmptyStep, CancelStep, Zenon
  <2>4. Owned' /\ OneRequest' /\ (AnswersDue /\ AnswersInStep)'
    BY <1>1, <2>1, OwnedStep, RequestStep, AnswersStep, Zenon
  <2>. QED BY <2>2, <2>3, <2>4, Zenon DEF Inv, Owned
<1>2. CASE UNCHANGED vars
  <2>1. TypeOK'
    <3>1. (PointsTyped /\ SocketsTyped)'
      BY <1>2, Zenon DEF Inv, TypeOK, PointsTyped, SocketsTyped, vars
    <3>4. FlagsTyped'
      BY <1>2, Zenon DEF Inv, TypeOK, FlagsTyped, vars
    <3>2. NumbersTyped'
      BY <1>2, Zenon DEF Inv, TypeOK, NumbersTyped, vars
    <3>3. RequestsTyped'
      BY <1>2, Zenon DEF Inv, TypeOK, RequestsTyped, vars
    <3>. QED BY <3>1, <3>2, <3>3, <3>4, Zenon DEF TypeOK
  <2>2. (RetryDialsNothing /\ SocketsCounted)'
    BY <1>2, Zenon DEF Inv, RetryDialsNothing, SocketsCounted, vars
  <2>5. (WorkersJoined /\ RecordOwed)'
    BY <1>2, Zenon DEF Inv, WorkersJoined, RecordOwed, vars
  <2>3. (HandlesOpen /\ OpenHaveHandles /\ HandlesEmpty /\ CancelCloses)'
    BY <1>2, Zenon DEF Inv, HandlesOpen, OpenHaveHandles, HandlesEmpty, CancelCloses, Storing,
       vars
  <2>4. (OneRequest /\ AnswersDue /\ AnswersInStep)'
    BY <1>2, Zenon DEF Inv, OneRequest, AnswersDue, AnswersInStep, vars
  <2>. QED BY <2>1, <2>2, <2>3, <2>4, <2>5, Zenon DEF Inv
<1>. QED BY <1>1, <1>2

\* The invariant holds in every state of every behaviour.
THEOREM Invariance == Spec => []Inv
<1>. QED BY InitInv, InvStep, PTL DEF Spec

\* Every variable keeps its type: the sockets of a connection are bounded by its
\* addresses, whatever is retried.
THEOREM TypeCorrect == Spec => []TypeOK
<1>1. Inv => TypeOK
  BY DEF Inv
<1>. QED BY <1>1, Invariance, PTL

\* Whatever cancels, failed attempts and closes overlap: no socket is closed twice,
\* and a connection that is gone has left none open and no worker running.
THEOREM SocketsCorrect == Spec => []SocketsOwned
<1>1. Inv => SocketsOwned
  <2> SUFFICES ASSUME Inv PROVE SocketsOwned
    OBVIOUS
  <2>1. \A s \in DOMAIN sockets : sockets[s] # "closed twice"
    BY Zenon DEF Inv, OpenHaveHandles
  <2>2. ASSUME step = "gone", NEW s \in DOMAIN sockets PROVE sockets[s] = "closed"
    <3>1. handle = NoSocket /\ event_handle = NoSocket
      BY <2>2, Zenon DEF Inv, HandlesEmpty, LateSteps
    <3>2. ~Storing
      BY <2>2 DEF Storing
    <3>3. s # NoSocket
      BY NoSocketMade, Zenon DEF Inv, TypeOK
    <3>4. sockets[s] # "open"
      BY <3>1, <3>2, <3>3, Zenon DEF Inv, OpenHaveHandles
    <3>5. sockets[s] \in State
      BY SocketDomain, ElementOfSeq DEF Inv, TypeOK
    <3>. QED BY <2>1, <3>4, <3>5 DEF State
  <2>3. step = "gone" => event_thread = "none" /\ timing_thread = "none"
    BY Zenon DEF Inv, WorkersJoined
  <2>. QED BY <2>1, <2>2, <2>3, Zenon DEF SocketsOwned
<1>. QED BY <1>1, Invariance, PTL

\* A session is open only when the receiver has taken a RECORD, early or late, and the
\* timing worker answers it.
THEOREM RecordingCorrect == Spec => []ReadyIsRecording
<1>1. Inv => ReadyIsRecording
  BY DEF Inv, RecordOwed, WorkersJoined, DialedSteps, ReadyIsRecording
<1>. QED BY <1>1, Invariance, PTL

\* An answer that is taken belongs to the request or, after n timeouts, to one of the n
\* before it.
THEOREM AnswersCorrect == Spec => []AnswersInStep
<1>1. Inv => AnswersInStep
  BY DEF Inv
<1>. QED BY <1>1, Invariance, PTL

\* Once a cancel has returned, no request of the handshake is answered.
LEMMA CancelledHandshake == Inv /\ Next => HandshakeStopped
<1> SUFFICES ASSUME Inv, Next, cancelled, cancel_pc["host"] = "idle", step \in Asking,
                    step' # step
             PROVE  step' = "unwind"
  BY DEF HandshakeStopped
<1>1. handle = NoSocket
  BY Zenon DEF Inv, CancelCloses, DialedSteps
<1>2. ~Usable(handle)
  BY <1>1, Zenon DEF Usable
<1>3. CASE OpenBegins
  BY <1>3, <1>2 DEF OpenBegins, Asking
<1>4. CASE ConnectGivesUp
  BY <1>4, <1>2 DEF ConnectGivesUp, Throw, Asking
<1>5. CASE ConnectTries
  BY <1>5, <1>2 DEF ConnectTries, Asking
<1>6. CASE ConnectStores
  BY <1>6, <1>2 DEF ConnectStores, Asking
<1>7. ASSUME NEW ok \in BOOLEAN, ConnectReturns(ok) PROVE step' = "unwind"
  BY <1>7, <1>2 DEF ConnectReturns, NoSocket, Asking
<1>8. CASE ConnectDrops
  BY <1>8, <1>2 DEF ConnectDrops, NoSocket, Asking
<1>9. CASE Binds
  BY <1>9, <1>2 DEF Binds, Throw, Asking
<1>10. CASE AskInVain
  BY <1>10, <1>2 DEF AskInVain, Asking, Throw, KeepButStep
<1>11. CASE AskInfo
  BY <1>11, <1>2 DEF AskInfo, KeepButStep, Asking
<1>12. CASE AskPairing
  BY <1>12, <1>2 DEF AskPairing, KeepButStep, Asking
<1>13. CASE AskSession
  BY <1>13, <1>2 DEF AskSession, AfterEvent, KeepButStep, Asking
<1>14. CASE AskEarlyRecord
  BY <1>14, <1>2 DEF AskEarlyRecord, KeepButStep, Asking
<1>15. CASE AskPeers
  BY <1>15, <1>2 DEF AskPeers, KeepButStep, Asking
<1>16. CASE AskStream
  BY <1>16, <1>2 DEF AskStream, KeepButStep, Asking
<1>17. CASE StreamRejected
  BY <1>17, <1>2 DEF StreamRejected, Asking
<1>18. CASE AskRecord
  BY <1>18, <1>2 DEF AskRecord, KeepButStep, Asking
<1>19. CASE AskCommands
  BY <1>19, <1>2 DEF AskCommands, KeepButStep, Asking
<1>20. CASE EventGivesUp
  BY <1>20, <1>2 DEF EventGivesUp, AfterEvent, Throw, Asking
<1>21. CASE EventTries
  BY <1>21, <1>2 DEF EventTries, Asking
<1>22. CASE EventStores
  BY <1>22, <1>2 DEF EventStores, Asking
<1>23. ASSUME NEW ok \in BOOLEAN, EventReturns(ok) PROVE step' = "unwind"
  BY <1>23, <1>2 DEF EventReturns, Asking
<1>24. CASE EventDrops
  BY <1>24, <1>2 DEF EventDrops, NoSocket, Asking
<1>25. CASE EventStarts
  BY <1>25, <1>2 DEF EventStarts, NoSocket, AfterEvent, Asking
<1>26. CASE DestructorBegins
  BY <1>26, <1>2 DEF DestructorBegins, Asking
<1>27. CASE CloseCancels
  BY <1>27, <1>2 DEF CloseCancels, KeepClose, Asking
<1>28. CASE CloseFlags
  BY <1>28, <1>2 DEF CloseFlags, Asking
<1>29. CASE CloseJoinsEvent
  BY <1>29, <1>2 DEF CloseJoinsEvent, NoSocket, KeepClose, Asking
<1>30. CASE CloseResets
  BY <1>30, <1>2 DEF CloseResets, NoSocket, Asking
<1>31. ASSUME NEW u \in User, SendFails(u) PROVE step' = "unwind"
  <2>1. user[u].pc \in {"wait", "read"} /\ LetsGo(u)
    BY <1>31 DEF SendFails
  <2>. QED BY <2>1, LetsGoInSession DEF Inv
<1>32. ASSUME NEW u \in User, ReadFails(u) PROVE step' = "unwind"
  <2>1. user[u].pc \in {"wait", "read"} /\ LetsGo(u)
    BY <1>32 DEF ReadFails
  <2>. QED BY <2>1, LetsGoInSession DEF Inv
<1>33. ASSUME NEW u \in User, NEW n \in 1 .. Len(inbox), NEW ok \in BOOLEAN, Reads(u, n, ok)
      PROVE step' = "unwind"
  <2>1. user[u].pc \in {"wait", "read"} /\ LetsGo(u)
    BY <1>33 DEF Reads
  <2>. QED BY <2>1, LetsGoInSession DEF Inv
<1>34. ASSUME NEW c \in Canceller, CancelFlag(c) PROVE step' = "unwind"
  BY <1>34, Zenon DEF CancelFlag, KeepBeside
<1>35. ASSUME NEW c \in Canceller, CancelControl(c) PROVE step' = "unwind"
  BY <1>35, Zenon DEF CancelControl, KeepBeside
<1>36. ASSUME NEW c \in Canceller, CancelEvent(c) PROVE step' = "unwind"
  BY <1>36, Zenon DEF CancelEvent, KeepBeside
<1>37. ASSUME NEW u \in User, NEW n \in 1 .. 3, NEW last \in BOOLEAN, Asks(u, n, last)
      PROVE  step' = "unwind"
  BY <1>37, Zenon DEF Asks, KeepSession
<1>38. ASSUME NEW u \in User, Sends(u) PROVE step' = "unwind"
  BY <1>38, Zenon DEF Sends, KeepSession
<1>39. CASE HostCancels \/ EventReceives \/ EventAnswers \/ EventHandled \/ EventEnds
          \/ TimingEnds \/ Answers
  <2>1. UNCHANGED <<step>>
    BY <1>39, Zenon DEF HostCancels, KeepBeside, EventReceives, KeepWorker, EventAnswers,
      EventHandled, EventEnds, TimingEnds, Answers, KeepSession
  <2>. QED BY <2>1
<1>. QED BY <1>3, <1>4, <1>5, <1>6, <1>7, <1>8, <1>9, <1>10, <1>11, <1>12, <1>13, <1>14, <1>15,
     <1>16, <1>17, <1>18, <1>19, <1>20, <1>21, <1>22, <1>23, <1>24, <1>25, <1>26, <1>27, <1>28,
     <1>29, <1>30, <1>31, <1>32, <1>33, <1>34, <1>35, <1>36, <1>37, <1>38, <1>39
  DEF Next, Opener, Cancel, Close, Workers, Requests

\* Once cancel_pending_open() has returned to the host, the opening thread gets no
\* further with its handshake: all its requests do is unwind.
THEOREM CancelCorrect == Spec => CancelStopsHandshake
<1>1. Inv /\ [Next]_vars => [HandshakeStopped]_vars
  BY CancelledHandshake, Zenon
<1>. QED BY <1>1, Invariance, PTL DEF CancelStopsHandshake, Spec

\* The second attempt, as PCM, finds the connection cancelled by the close before it
\* and gives up: it never dials the receiver.
THEOREM RetryNeverDials == Spec => [](retried => step \notin Handshake \ {"connect"})
<1>1. Inv => (retried => step \notin Handshake \ {"connect"})
  BY DEF Inv, RetryDialsNothing, Handshake, Dialing, Asking, EventDialing, Closing
<1>. QED BY <1>1, Invariance, PTL

=============================================================================
