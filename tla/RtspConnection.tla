---------------------------- MODULE RtspConnection ----------------------------
(***************************************************************************)
(* One connection of the RTSP client, from open() to its destructor: the   *)
(* handshake of the thread that opens it, a cancel from another thread,    *)
(* the event and the timing worker, the requests of a session, and the     *)
(* close that has to end all of them.                                      *)
(*                                                                         *)
(* What a request says is left out, and so is the arithmetic of pairing;   *)
(* what is kept is whether a request is answered, accepted, or in vain.    *)
(* The receiver answers in order; an answer may come after the 10 s the    *)
(* client waits.  A socket is a number in the order of creation.           *)
(***************************************************************************)
EXTENDS Naturals, Sequences

CONSTANTS
  Addresses,     \* addresses a name resolves to
  MaxRequests, MaxCommands   \* bounds of the instance

ASSUME ConnectionAssumption ==
  /\ Addresses \in Nat \ {0}
  /\ MaxRequests \in Nat /\ MaxCommands \in Nat

User == {"manager", "volume"}      \* who may have a request under way
Canceller == {"host", "opener"}    \* cancel() from outside and inside close()
Socket == 1 .. 4 * Addresses
NoSocket == 0

VARIABLES
  step,                  \* where open(), the session or its close is
  tries, candidate,      \* of the loop over the addresses
  ap2_audio_encoding, ap2_uses_ptp, retried, retry_record, recorded,
  handle, event_handle, cancelled, cancel_pc, cancels,
  sockets,               \* state of every socket made so far
  event_thread, event_running, event_socket, commands,
  timing_thread, timing_running,
  request_mutex, next_cseq, user, unanswered, inbox, torn,
  timeouts, taken        \* history

openVars == <<tries, candidate, ap2_audio_encoding, ap2_uses_ptp, retried,
              retry_record, recorded>>
handleVars == <<handle, event_handle, cancelled, cancel_pc, cancels, sockets>>
eventVars == <<event_thread, event_running, event_socket, commands>>
timingVars == <<timing_thread, timing_running>>
requestVars == <<request_mutex, next_cseq, user, unanswered, inbox, torn, timeouts, taken>>
vars == <<step, openVars, handleVars, eventVars, timingVars, requestVars>>

\* Steps of the handshake that are a request to the receiver.
Asking == {"info", "pair", "secure info", "session", "early record", "peers",
           "stream", "record", "commands"}
Dialing == {"connect", "store", "dial", "drop"}
EventDialing == {"event connect", "event store", "event dial", "event drop", "event start"}
Closing == {"close", "flags", "join event", "join timing"}
Handshake == Dialing \cup {"bind"} \cup Asking \cup EventDialing

\* What the receiver's records make the client begin with: PCM for receivers known
\* by name to need it; PTP if the receiver has that feature.
FirstEncoding == {"Alac", "Pcm"}
SupportsPtp == BOOLEAN

Idle == [pc |-> "idle", left |-> 0, cseq |-> 0]

PointsTyped ==
  /\ step \in {"new", "ready", "unwind", "gone"} \cup Handshake \cup Closing
  /\ ap2_audio_encoding \in {"Alac", "Pcm"}
  /\ cancel_pc \in [Canceller -> {"idle", "flag", "control", "event"}]
  /\ event_thread \in {"none", "receiving", "answering", "handling", "ended"}
  /\ timing_thread \in {"none", "running", "ended"}

FlagsTyped ==
  /\ ap2_uses_ptp \in BOOLEAN /\ retried \in BOOLEAN
  /\ retry_record \in BOOLEAN /\ recorded \in BOOLEAN
  /\ cancelled \in BOOLEAN /\ torn \in BOOLEAN
  /\ event_running \in BOOLEAN /\ timing_running \in BOOLEAN

SocketsTyped ==
  sockets \in Seq({"open", "closed", "closed twice"}) /\ Len(sockets) <= 4 * Addresses

NumbersTyped ==
  /\ tries \in 0 .. 2 * Addresses
  /\ candidate \in Socket \cup {NoSocket} /\ handle \in Socket \cup {NoSocket}
  /\ event_handle \in Socket \cup {NoSocket} /\ event_socket \in Socket \cup {NoSocket}
  /\ cancels \in Nat /\ commands \in Nat /\ next_cseq \in Nat /\ timeouts \in Nat

RequestsTyped ==
  /\ request_mutex \in User \cup {"free"}
  /\ user \in [User -> [pc : {"idle", "wait", "read"}, left : 0 .. 3, cseq : Nat]]
  /\ unanswered \in Seq(Nat) /\ inbox \in Seq(Nat)
  /\ taken \in [asked : Nat, answered : Nat]

TypeOK == PointsTyped /\ FlagsTyped /\ SocketsTyped /\ NumbersTyped /\ RequestsTyped

Init ==
  /\ step = "new" /\ tries = 0 /\ candidate = NoSocket
  /\ ap2_audio_encoding \in FirstEncoding /\ ap2_uses_ptp \in SupportsPtp
  /\ retried = FALSE /\ retry_record = FALSE /\ recorded = FALSE
  /\ handle = NoSocket /\ event_handle = NoSocket /\ sockets = <<>>
  /\ cancelled = FALSE /\ cancel_pc = [c \in Canceller |-> "idle"] /\ cancels = 0
  /\ event_thread = "none" /\ event_running = FALSE /\ event_socket = NoSocket
  /\ commands = 0 /\ timing_thread = "none" /\ timing_running = FALSE
  /\ request_mutex = "free" /\ next_cseq = 1 /\ user = [u \in User |-> Idle]
  /\ unanswered = <<>> /\ inbox = <<>> /\ torn = FALSE
  /\ timeouts = 0 /\ taken = [asked |-> 0, answered |-> 0]

-------------------------------------------------------------------------------
(* Sockets: a handle is closed by whoever exchanges it out of its variable *)

Usable(h) == h # NoSocket /\ sockets[h] = "open"

Closed(h) ==
  IF h = NoSocket THEN sockets
  ELSE [sockets EXCEPT ![h] = IF @ = "open" THEN "closed" ELSE "closed twice"]

\* Mutant: the handle is read, closed, and left where it is.
CloseOwnedLoaded(h) == sockets' = Closed(h) /\ UNCHANGED handle

\* handle_.exchange(kInvalidSocket), and the socket closed if there was one.
CloseOwned(h) == sockets' = Closed(h) /\ handle' = NoSocket

CloseOwnedEvent == sockets' = Closed(event_handle) /\ event_handle' = NoSocket

Throw == step' = "unwind"

-------------------------------------------------------------------------------
(* connect_to(): the addresses in turn, first of one family, then of all *)

OpenBegins ==
  /\ step = "new" /\ step' = "connect"
  /\ UNCHANGED <<openVars, handleVars, eventVars, timingVars, requestVars>>

AddressLeft(n) == tries < n

\* The name does not resolve, the call is cancelled, no address is left, or there
\* is no socket for those that are.
ConnectGivesUp ==
  /\ step = "connect"
  /\ Throw
  /\ UNCHANGED <<openVars, handleVars, eventVars, timingVars, requestVars>>

\* The flag is read before each attempt.
ConnectTries ==
  /\ step = "connect" /\ ~cancelled /\ AddressLeft(2 * Addresses)
  /\ tries' = tries + 1
  /\ sockets' = Append(sockets, "open") /\ candidate' = Len(sockets')
  /\ step' = "store"
  /\ UNCHANGED <<ap2_audio_encoding, ap2_uses_ptp, retried, retry_record, recorded, handle,
                 event_handle, cancelled, cancel_pc, cancels, eventVars, timingVars, requestVars>>

ConnectStores ==
  /\ step = "store"
  /\ handle' = candidate /\ step' = "dial"
  /\ UNCHANGED <<openVars, event_handle, cancelled, cancel_pc, cancels, sockets, eventVars,
                 timingVars, requestVars>>

\* connect() returns; its success counts if nobody has cancelled by then.
ConnectReturns(ok) ==
  /\ step = "dial"
  /\ ok => Usable(candidate)
  /\ IF ok /\ ~cancelled
     THEN step' = "bind" /\ tries' = 0 /\ candidate' = NoSocket
     ELSE step' = "drop" /\ UNCHANGED <<tries, candidate>>
  /\ UNCHANGED <<ap2_audio_encoding, ap2_uses_ptp, retried, retry_record, recorded,
                 handleVars, eventVars, timingVars, requestVars>>

ConnectDrops ==
  /\ step = "drop"
  /\ CloseOwned(handle)
  /\ candidate' = NoSocket /\ step' = "connect"
  /\ UNCHANGED <<tries, ap2_audio_encoding, ap2_uses_ptp, retried, retry_record, recorded,
                 event_handle, cancelled, cancel_pc, cancels, eventVars, timingVars, requestVars>>

\* The UDP ports are bound and the timing worker started, or binding throws.
Binds ==
  /\ step = "bind"
  /\ \/ step' = "info" /\ timing_thread' = "running" /\ timing_running' = TRUE
     \/ Throw /\ UNCHANGED timingVars
  /\ UNCHANGED <<openVars, handleVars, eventVars, requestVars>>

-------------------------------------------------------------------------------
(* The requests of the handshake; an answer needs the control socket *)

KeepButStep ==
  UNCHANGED <<tries, candidate, ap2_audio_encoding, ap2_uses_ptp, retried, handleVars,
              eventVars, timingVars, requestVars>>

\* Refused, not answered in time, or the socket is gone.
AskInVain ==
  /\ step \in Asking
  /\ Throw
  /\ KeepButStep /\ UNCHANGED <<retry_record, recorded>>

\* GET /info, in the clear and again under the cipher the pairing gives.
AskInfo ==
  /\ step \in {"info", "secure info"} /\ Usable(handle)
  /\ step' = IF step = "info" THEN "pair" ELSE "session"
  /\ KeepButStep /\ UNCHANGED <<retry_record, recorded>>

\* pair-verify with stored credentials, or transient pair-setup: each of their posts
\* is answered, and the proofs hold.
AskPairing ==
  /\ step = "pair" /\ Usable(handle)
  /\ step' = "secure info"
  /\ KeepButStep /\ UNCHANGED <<retry_record, recorded>>

\* The step after the event channel.
AfterEvent == IF ap2_uses_ptp THEN "early record" ELSE "stream"

\* The session SETUP may name an event port.
AskSession ==
  /\ step = "session" /\ Usable(handle)
  /\ step' \in {"event connect", AfterEvent}
  /\ KeepButStep /\ UNCHANGED <<retry_record, recorded>>

\* A receiver with PTP is asked to RECORD before the stream exists; it may say
\* that this is too early (400, 455).
AskEarlyRecord ==
  /\ step = "early record" /\ Usable(handle)
  /\ recorded' \in BOOLEAN /\ retry_record' = ~recorded'
  /\ step' = "peers"
  /\ KeepButStep

\* SETPEERS.
AskPeers ==
  /\ step = "peers" /\ Usable(handle)
  /\ step' = "stream"
  /\ KeepButStep /\ UNCHANGED <<retry_record, recorded>>

\* Mutant: a RECORD that came too early is not repeated.
RecordDueNever == ~ap2_uses_ptp

\* RECORD comes after the stream SETUP, unless the receiver took the early one.
RecordDue == ~ap2_uses_ptp \/ retry_record

\* The stream SETUP is accepted and names a data port.
AskStream ==
  /\ step = "stream" /\ Usable(handle)
  /\ step' = IF RecordDue THEN "record" ELSE "commands"
  /\ KeepButStep /\ UNCHANGED <<retry_record, recorded>>

\* It is rejected with 400: a lossless stream is tried again as PCM, after close().
StreamRejected ==
  /\ step = "stream" /\ Usable(handle) /\ ap2_audio_encoding = "Alac"
  /\ step' = "close" /\ retried' = TRUE
  /\ UNCHANGED <<tries, candidate, ap2_audio_encoding, ap2_uses_ptp, retry_record, recorded,
                 handleVars, eventVars, timingVars, requestVars>>

AskRecord ==
  /\ step = "record" /\ Usable(handle)
  /\ recorded' = TRUE /\ step' = "commands"
  /\ KeepButStep /\ UNCHANGED retry_record

\* The commands the sender supports; any status will do.
AskCommands ==
  /\ step = "commands" /\ Usable(handle)
  /\ step' = "ready"
  /\ KeepButStep /\ UNCHANGED <<retry_record, recorded>>

-------------------------------------------------------------------------------
(* connect_event_channel(): without the channel the handshake goes on *)

\* Cancelled, or no address or no socket is left.  Before the first address the
\* name may not resolve: that is not caught, and open() fails.
EventGivesUp ==
  /\ step = "event connect"
  /\ step' = AfterEvent \/ (tries = 0 /\ Throw)
  /\ tries' = 0
  /\ UNCHANGED <<candidate, ap2_audio_encoding, ap2_uses_ptp, retried, retry_record, recorded,
                 handleVars, eventVars, timingVars, requestVars>>

EventTries ==
  /\ step = "event connect" /\ ~cancelled /\ AddressLeft(Addresses)
  /\ tries' = tries + 1
  /\ sockets' = Append(sockets, "open") /\ candidate' = Len(sockets')
  /\ step' = "event store"
  /\ UNCHANGED <<ap2_audio_encoding, ap2_uses_ptp, retried, retry_record, recorded, handle,
                 event_handle, cancelled, cancel_pc, cancels, eventVars, timingVars, requestVars>>

EventStores ==
  /\ step = "event store"
  /\ event_handle' = candidate /\ step' = "event dial"
  /\ UNCHANGED <<openVars, handle, cancelled, cancel_pc, cancels, sockets, eventVars,
                 timingVars, requestVars>>

EventReturns(ok) ==
  /\ step = "event dial"
  /\ ok => Usable(candidate)
  /\ step' = IF ok /\ ~cancelled THEN "event start" ELSE "event drop"
  /\ UNCHANGED <<openVars, handleVars, eventVars, timingVars, requestVars>>

EventDrops ==
  /\ step = "event drop"
  /\ CloseOwnedEvent
  /\ candidate' = NoSocket /\ step' = "event connect"
  /\ UNCHANGED <<tries, ap2_audio_encoding, ap2_uses_ptp, retried, retry_record, recorded,
                 handle, cancelled, cancel_pc, cancels, eventVars, timingVars, requestVars>>

\* start_event_worker(), unless the handle is gone again.
EventStarts ==
  /\ step = "event start"
  /\ IF event_handle = NoSocket THEN UNCHANGED eventVars
     ELSE /\ event_thread' = "receiving" /\ event_running' = TRUE
          /\ event_socket' = event_handle /\ UNCHANGED commands
  /\ candidate' = NoSocket /\ tries' = 0 /\ step' = AfterEvent
  /\ UNCHANGED <<ap2_audio_encoding, ap2_uses_ptp, retried, retry_record, recorded,
                 handleVars, timingVars, requestVars>>

-------------------------------------------------------------------------------
(* cancel(), from the host while the connection is pending, and in close() *)

KeepBeside == UNCHANGED <<step, openVars, eventVars, timingVars, requestVars>>

\* open() keeps it registered through a retry and until it has caught an exception.
Pending ==
  \/ step \in Handshake
  \/ step = "unwind" /\ ~torn
  \/ step \in Closing /\ retried /\ ap2_audio_encoding = "Alac"

\* The client has collected the connection while it was pending; the call itself
\* may come when it is ready already.
HostCancels ==
  /\ cancels = 0 /\ Pending
  /\ cancels' = 1 /\ cancel_pc' = [cancel_pc EXCEPT !["host"] = "flag"]
  /\ KeepBeside /\ UNCHANGED <<handle, event_handle, cancelled, sockets>>

CancelFlag(c) ==
  /\ cancel_pc[c] = "flag"
  /\ cancelled' = TRUE /\ cancel_pc' = [cancel_pc EXCEPT ![c] = "control"]
  /\ KeepBeside /\ UNCHANGED <<handle, event_handle, cancels, sockets>>

\* Mutant: the control socket stays open.
CancelControlKeeps(c) ==
  /\ cancel_pc[c] = "control"
  /\ cancel_pc' = [cancel_pc EXCEPT ![c] = "event"]
  /\ KeepBeside /\ UNCHANGED <<handle, sockets, event_handle, cancelled, cancels>>

CancelControl(c) ==
  /\ cancel_pc[c] = "control"
  /\ CloseOwned(handle)
  /\ cancel_pc' = [cancel_pc EXCEPT ![c] = "event"]
  /\ KeepBeside /\ UNCHANGED <<event_handle, cancelled, cancels>>

CancelEvent(c) ==
  /\ cancel_pc[c] = "event"
  /\ CloseOwnedEvent
  /\ cancel_pc' = [cancel_pc EXCEPT ![c] = "idle"]
  /\ KeepBeside /\ UNCHANGED <<handle, cancelled, cancels>>

Cancel == HostCancels \/ \E c \in Canceller : CancelFlag(c) \/ CancelControl(c) \/ CancelEvent(c)

-------------------------------------------------------------------------------
(* close(): of a retry, or of the destructor when the last reference goes *)

KeepClose == UNCHANGED <<openVars, handle, event_handle, cancelled, cancels, sockets,
                         requestVars>>

\* The client has dropped the connection; so have a cancel and a volume request.
\* Nobody is left to read an answer.
DestructorBegins ==
  /\ step = "unwind" /\ cancel_pc["host"] = "idle" /\ user["volume"].pc = "idle"
  /\ step' = "close" /\ unanswered' = <<>> /\ inbox' = <<>>
  /\ UNCHANGED <<openVars, handleVars, eventVars, timingVars, request_mutex, next_cseq, user,
                 torn, timeouts, taken>>

CloseCancels ==
  /\ step = "close"
  /\ cancel_pc' = [cancel_pc EXCEPT !["opener"] = "flag"] /\ step' = "flags"
  /\ KeepClose /\ UNCHANGED <<eventVars, timingVars>>

\* The workers are told to stop; an event socket that came up meanwhile is closed.
CloseFlags ==
  /\ step = "flags" /\ cancel_pc["opener"] = "idle"
  /\ event_running' = FALSE /\ timing_running' = FALSE
  /\ CloseOwnedEvent
  /\ step' = "join event"
  /\ UNCHANGED <<openVars, handle, cancelled, cancel_pc, cancels, event_thread, event_socket,
                 commands, timing_thread, requestVars>>

CloseJoinsEvent ==
  /\ step = "join event" /\ event_thread \in {"none", "ended"}
  /\ event_thread' = "none" /\ event_socket' = NoSocket /\ step' = "join timing"
  /\ KeepClose /\ UNCHANGED <<cancel_pc, event_running, commands, timingVars>>

\* reset_session_state(): everything but the cancelled flag.  A retry starts over.
CloseResets ==
  /\ step = "join timing" /\ timing_thread \in {"none", "ended"}
  /\ timing_thread' = "none" /\ UNCHANGED <<timing_running, eventVars>>
  /\ tries' = 0 /\ candidate' = NoSocket /\ retry_record' = FALSE /\ recorded' = FALSE
  /\ next_cseq' = 1
  /\ IF retried /\ ap2_audio_encoding = "Alac"
     THEN step' = "connect" /\ ap2_audio_encoding' = "Pcm"
     ELSE step' = "gone" /\ UNCHANGED ap2_audio_encoding
  /\ UNCHANGED <<ap2_uses_ptp, retried, handleVars, request_mutex, user, unanswered, inbox,
                 torn, timeouts, taken>>

Close == DestructorBegins \/ CloseCancels \/ CloseFlags \/ CloseJoinsEvent \/ CloseResets

-------------------------------------------------------------------------------
(* The workers *)

KeepWorker == UNCHANGED <<step, openVars, handleVars, requestVars>>

\* A message is complete.
EventReceives ==
  /\ event_thread = "receiving" /\ event_running /\ Usable(event_socket)
  /\ commands < MaxCommands
  /\ commands' = commands + 1 /\ event_thread' = "answering"
  /\ KeepWorker /\ UNCHANGED <<event_running, event_socket, timingVars>>

\* It is answered, in vain when the socket is closed by now; then its command, if
\* it is one, is handed on.
EventAnswers ==
  /\ event_thread = "answering"
  /\ event_thread' \in {"handling", "receiving"}
  /\ KeepWorker /\ UNCHANGED <<event_running, event_socket, commands, timingVars>>

\* The handler returns or throws: the worker goes on either way.
EventHandled ==
  /\ event_thread = "handling"
  /\ event_thread' = "receiving"
  /\ KeepWorker /\ UNCHANGED <<event_running, event_socket, commands, timingVars>>

\* The receiver has closed its end, the socket is closed here, or the worker sees
\* after a second's wait that it should stop.
EventEnds ==
  /\ event_thread = "receiving"
  /\ event_thread' = "ended" /\ event_running' = FALSE
  /\ KeepWorker /\ UNCHANGED <<event_socket, commands, timingVars>>

\* Mutant: nobody tells the worker.
TimingToldNever == FALSE

TimingTold == ~timing_running

\* The timing worker looks at its flag twice a second.
TimingEnds ==
  /\ timing_thread = "running" /\ TimingTold
  /\ timing_thread' = "ended"
  /\ KeepWorker /\ UNCHANGED <<timing_running, eventVars>>

Workers == EventReceives \/ EventAnswers \/ EventHandled \/ EventEnds \/ TimingEnds

-------------------------------------------------------------------------------
(* Requests of a ready session *)

KeepSession == UNCHANGED <<openVars, handleVars, eventVars, timingVars>>

\* A flush is one request, metadata are two, three with artwork; close() takes the
\* connection out of the client's map and sends TEARDOWN.  A volume looks into
\* that map and keeps its reference.
Asks(u, n, last) ==
  /\ step = "ready" /\ ~torn /\ user[u].pc = "idle"
  /\ u = "volume" => n = 1 /\ ~last
  /\ last => n = 1
  /\ user' = [user EXCEPT ![u] = [@ EXCEPT !.pc = "wait", !.left = n]]
  /\ torn' = last
  /\ KeepSession
  /\ UNCHANGED <<step, request_mutex, next_cseq, unanswered, inbox, timeouts, taken>>

Ended(u) == user' = [user EXCEPT ![u] = Idle]

\* After TEARDOWN, whatever came of it, the client lets go of the connection.
LetsGo(u) == step' = IF u = "manager" /\ torn THEN "unwind" ELSE step

\* Mutant: a request does not wait for the one under way.
MutexFreeAlways == TRUE

\* request_mutex_.
MutexFree == request_mutex = "free"

\* Under the mutex the request gets its number and is sent.
Sends(u) ==
  /\ user[u].pc = "wait" /\ MutexFree /\ Usable(handle) /\ next_cseq <= MaxRequests
  /\ request_mutex' = u /\ next_cseq' = next_cseq + 1
  /\ user' = [user EXCEPT ![u] = [@ EXCEPT !.pc = "read", !.cseq = next_cseq]]
  /\ unanswered' = Append(unanswered, next_cseq)
  /\ KeepSession /\ UNCHANGED <<step, inbox, torn, timeouts, taken>>

\* The socket is gone, or the send fails: what else the call had to ask is left.
SendFails(u) ==
  /\ user[u].pc = "wait" /\ MutexFree
  /\ Ended(u) /\ LetsGo(u)
  /\ KeepSession
  /\ UNCHANGED <<request_mutex, next_cseq, unanswered, inbox, torn, timeouts, taken>>

\* The receiver answers, in the order of the requests.
Answers ==
  /\ unanswered # <<>>
  /\ inbox' = Append(inbox, Head(unanswered)) /\ unanswered' = Tail(unanswered)
  /\ KeepSession
  /\ UNCHANGED <<step, request_mutex, next_cseq, user, torn, timeouts, taken>>

\* parse_response(): the status and the headers that count come from the first
\* answer of what was read, and nobody looks at its CSeq.
FirstAnswer == Head(inbox)

\* read_response() takes that answer; n answers in one read are n - 1 answers lost.
\* A refusal ends the call.
Reads(u, n, ok) ==
  /\ user[u].pc = "read" /\ Usable(handle) /\ n <= Len(inbox)
  /\ taken' = [asked |-> user[u].cseq, answered |-> FirstAnswer]
  /\ inbox' = SubSeq(inbox, n + 1, Len(inbox))
  /\ request_mutex' = "free"
  /\ IF ok /\ user[u].left > 1
     THEN /\ user' = [user EXCEPT ![u] = [pc |-> "wait", left |-> @.left - 1, cseq |-> 0]]
          /\ UNCHANGED step
     ELSE Ended(u) /\ LetsGo(u)
  /\ KeepSession /\ UNCHANGED <<next_cseq, unanswered, torn, timeouts>>

\* Ten seconds without an answer, or a dead socket.
ReadFails(u) ==
  /\ user[u].pc = "read"
  /\ timeouts' = timeouts + 1
  /\ request_mutex' = "free"
  /\ Ended(u) /\ LetsGo(u)
  /\ KeepSession /\ UNCHANGED <<next_cseq, unanswered, inbox, torn, taken>>

Requests ==
  \/ \E u \in User : \/ \E n \in 1 .. 3, last \in BOOLEAN : Asks(u, n, last)
                    \/ Sends(u) \/ SendFails(u) \/ ReadFails(u)
                    \/ \E n \in 1 .. Len(inbox), ok \in BOOLEAN : Reads(u, n, ok)
  \/ Answers

-------------------------------------------------------------------------------
Opener ==
  \/ ConnectGivesUp \/ ConnectTries \/ ConnectStores
  \/ (\E ok \in BOOLEAN : ConnectReturns(ok)) \/ ConnectDrops \/ Binds
  \/ AskInVain \/ AskInfo \/ AskPairing \/ AskSession \/ AskEarlyRecord \/ AskPeers
  \/ AskStream \/ StreamRejected \/ AskRecord \/ AskCommands
  \/ EventGivesUp \/ EventTries \/ EventStores
  \/ (\E ok \in BOOLEAN : EventReturns(ok)) \/ EventDrops \/ EventStarts

Next == OpenBegins \/ Opener \/ Cancel \/ Close \/ Workers \/ Requests

Spec == Init /\ [][Next]_vars

\* Every wait of these threads has a timeout of the socket or of the system.
Fairness ==
  /\ WF_vars(Opener) /\ WF_vars(Close)
  /\ \A c \in Canceller : WF_vars(CancelFlag(c) \/ CancelControl(c) \/ CancelEvent(c))
  /\ WF_vars(EventAnswers) /\ WF_vars(EventHandled) /\ WF_vars(EventEnds) /\ WF_vars(TimingEnds)
  /\ \A u \in User : WF_vars(Sends(u) \/ SendFails(u) \/ ReadFails(u)
                           \/ \E n \in 1 .. Len(inbox), ok \in BOOLEAN : Reads(u, n, ok))

FairSpec == Spec /\ Fairness

-------------------------------------------------------------------------------
(* Properties *)

\* Whatever a cancel, a drop of an attempt and a close overlap, a socket is closed
\* once; and when the connection is gone all of its sockets are closed and neither
\* worker runs.
SocketsOwned ==
  /\ \A s \in DOMAIN sockets : sockets[s] # "closed twice"
  /\ step = "gone" => /\ \A s \in DOMAIN sockets : sockets[s] = "closed"
                      /\ event_thread = "none" /\ timing_thread = "none"

\* A session that opens has been told to RECORD, early or late, and its timing
\* worker runs: the receiver will play what is sent.
ReadyIsRecording == step = "ready" => recorded /\ timing_thread = "running"

HandshakeStopped ==
  cancelled /\ cancel_pc["host"] = "idle" /\ step \in Asking => step' \in {step, "unwind"}

\* Once a cancel has returned, no request of the handshake is answered any more.
CancelStopsHandshake == [][HandshakeStopped]_vars

\* Every answer was asked for, and without a timeout it is the answer to the
\* request that takes it.  After n timeouts it may belong to a request up to n
\* before, never to a later one.
AnswersInStep ==
  taken.asked - taken.answered \in 0 .. timeouts

\* open() comes to an end whatever the receiver does and whenever it is cancelled,
\* with a session or with nothing left of it; so does a close.
ConnectionEnds ==
  /\ step = "connect" ~> step \in {"ready", "gone"}
  /\ torn ~> step = "gone"

\* A second attempt starts with a connection that nobody has cancelled
\* (README.md:54, ALAC or PCM according to what the receiver takes).
RetryNotCancelled == retried /\ step = "connect" /\ cancels = 0 => ~cancelled
===============================================================================
