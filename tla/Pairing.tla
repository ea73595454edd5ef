------------------------------- MODULE Pairing -------------------------------
(***************************************************************************)
(* Pairing with a receiver by the PIN it shows, and the credentials that   *)
(* later connections use: from the click on "Pair" through the handshake   *)
(* and the stored records to the next stream, while scans give receivers   *)
(* other ids and foobar2000 is restarted.                                  *)
(*                                                                         *)
(* Threads: the main thread (pair_output()), the pairing worker, the       *)
(* setup of a stream, the control worker.  transport_mutex_ is held by the *)
(* worker for the whole handshake, by a scan until its result is merged,   *)
(* and by the setup and the control worker while they connect one output   *)
(* after another; a stop is one step.                                      *)
(*                                                                         *)
(* Credentials are a number: what is in them only the receiver can tell.   *)
(* All outputs are selected.  How a connection is opened is RtspConnection, *)
(* how a group fails AirPlayGroup, how updates coalesce ComponentState.    *)
(***************************************************************************)
EXTENDS ReceiverIdentity

CONSTANTS
    Locked,         \* the receivers that stream only for paired controllers
    MaxPairs,       \* bound: calls of pair_output() that are accepted
    MaxScans,       \* bound: scans
    MaxResets,      \* bound: receivers that forget their pairings
    MaxRestarts     \* bound: restarts of foobar2000

ASSUME PairingAssumption ==
    /\ Locked \subseteq Name
    /\ {MaxPairs, MaxScans, MaxResets, MaxRestarts} \subseteq Nat

VARIABLES
    store,          \* cfg_airplay_pairing_credentials, by id
    memory,         \* memory_pairing_credentials_
    trusted,        \* the credentials that each receiver accepts
    flag,           \* pairing_in_progress_
    calling,        \* the main thread is in pair_output(), after the check
    asked,          \*   with this output
    thread,         \* pairing_thread_: none, running, or ended and not joined
    worker, target, key,            \* the pairing worker, its locals
    transport,      \* who else has the transport: free, scan, setup or update
    untried,        \*   the outputs that a connect has still to open
    playback,       \* closed, connecting, prepared (the outputs are), open
    sessions,       \* the outputs that are ready
    update, control,                \* the full update requested, the worker at it
    last,           \* history: the credentials of each receiver's last pairing
    used,           \* history: the ids they were paired or played under with those
    due,            \* history: the receivers paired for the stream that plays
    made, pairs, scans, resets, restarts

credentialVars == <<store, memory, trusted, last, used, made>>
callVars == <<flag, calling, asked, thread>>
workerVars == <<worker, target, key>>
transportVars == <<transport, untried>>
streamVars == <<transportVars, playback, sessions, update, control, due>>
boundVars == <<pairs, scans, resets, restarts>>
vars == <<devices, found, credentialVars, callVars, workerVars, streamVars, boundVars>>

Key == 1..MaxPairs
NoKey == 0

\* The files of credentials: no id has two records, and the order is never used.
CredentialFiles == UNION {[ids -> Key] : ids \in SUBSET Id}

-----------------------------------------------------------------------------
\* FoobarAirPlayPairingStore, and the map beside it.

\* What the records have for an output: under its own id or, failing this, under
\* whichever of its aliases comes first.
Recorded(records, i) ==
    IF i \in DOMAIN records THEN {records[i]}
    ELSE {records[a] : a \in devices[i].aliases \cap DOMAIN records}

Saved(records, i, k) ==
    [j \in DOMAIN records \cup {i} |-> IF j = i THEN k ELSE records[j]]

\* load_pairing_credentials(): the store counts before the memory.
Loaded(i) ==
    IF Recorded(store, i) # {} THEN Recorded(store, i)
    ELSE IF Recorded(memory, i) # {} THEN Recorded(memory, i)
    ELSE {NoKey}

\* Mutant: credentials of an alias are used and not stored for the new id.
SavedAsFound(i, k) == store

\* Credentials of an alias are stored under the id the output has now.
SavedAgain(i, k) ==
    IF i \notin DOMAIN store /\ Recorded(store, i) # {} THEN Saved(store, i, k) ELSE store

-----------------------------------------------------------------------------
\* pair_output(), on the main thread.

\* Nobody has the transport's lock.
Free == transport = "free" /\ worker \notin {"handshake", "exchange", "save"}

\* The rows of the user interface: what was listed, under the id it had then.
Offered == UNION {Ids(i, devices[i]) : i \in DOMAIN devices}

\* A call during a pairing throws, and its handler clears the flag of that pairing.
PairRefused ==
    /\ ~calling /\ flag
    /\ Offered # {}
    /\ flag' = FALSE
    /\ UNCHANGED <<devices, found, credentialVars, calling, asked, thread, workerVars,
                   streamVars, boundVars>>

PairCalled(id) ==
    /\ ~calling /\ ~flag
    /\ pairs < MaxPairs
    /\ pairs' = pairs + 1
    /\ flag' = TRUE /\ calling' = TRUE /\ asked' = {id}
    /\ UNCHANGED <<devices, found, credentialVars, thread, workerVars, streamVars,
                   scans, resets, restarts>>

\* The thread of the pairing before is joined, then the next one is started.
PairStarts ==
    /\ calling /\ thread # "running"
    /\ thread' = "running" /\ worker' = "wait" /\ target' = asked
    /\ calling' = FALSE /\ asked' = {}
    /\ UNCHANGED <<devices, found, credentialVars, flag, key, streamVars, boundVars>>

\* No thread could be made.
PairThrows ==
    /\ calling /\ thread # "running"
    /\ thread' = "none" /\ flag' = FALSE
    /\ calling' = FALSE /\ asked' = {}
    /\ UNCHANGED <<devices, found, credentialVars, workerVars, streamVars, boundVars>>

-----------------------------------------------------------------------------
\* pairing_worker().

\* With the transport: the output that has the id now.
Resolves ==
    LET output == {First(Matches(i)) : i \in target}
    IN  /\ worker = "wait" /\ Free
        /\ worker' = IF \A i \in output : devices[i].modern THEN "handshake" ELSE "failed"
        /\ target' = output
        /\ UNCHANGED <<devices, found, credentialVars, callVars, key, streamVars, boundVars>>

\* pair_with_pin(): until the receiver has accepted the PIN (M1 to M4).
Handshakes ==
    /\ worker = "handshake"
    /\ \A i \in target : HasEndpoint(devices[i])
    /\ worker' = "exchange"
    /\ UNCHANGED <<devices, found, credentialVars, callVars, target, key, streamVars, boundVars>>

\* Any request may fail: no connection, no answer, or one that refuses.
HandshakeFails ==
    /\ worker \in {"handshake", "exchange"}
    /\ worker' = "failed"
    /\ UNCHANGED <<devices, found, credentialVars, callVars, target, key, streamVars, boundVars>>

\* M5 carries new credentials; the receiver has them when M6 is on its way, and
\* M6 may be lost.
Exchanges(arrives) ==
    /\ worker = "exchange"
    /\ made' = made + 1
    /\ trusted' = [n \in Name |-> trusted[n] \cup {made' : i \in {j \in target : NameOf[j] = n}}]
    /\ worker' = IF arrives THEN "save" ELSE "failed"
    /\ key' = IF arrives THEN made' ELSE NoKey
    /\ UNCHANGED <<devices, found, store, memory, last, used, callVars, target,
                   streamVars, boundVars>>

\* save_pairing_credentials().
Saves(i) ==
    LET n == NameOf[i]
    IN  /\ worker = "save" /\ target = {i}
        /\ store' = Saved(store, i, key)
        /\ memory' = Saved(memory, i, key)
        /\ last' = Saved(last, n, key)
        /\ used' = {j \in used : NameOf[j] # n} \cup {i}
        /\ due' = IF playback # "closed" /\ i \notin sessions THEN due \cup {n} ELSE due
        /\ worker' = "paired" /\ target' = {} /\ key' = NoKey
        /\ UNCHANGED <<devices, found, trusted, made, callVars, transportVars, playback,
                       sessions, update, control, boundVars>>

\* Mutant: after a failure the pairing stays in progress.
ReportsSuccess ==
    /\ worker \in {"paired", "failed"}
    /\ flag' = (flag /\ worker = "failed")
    /\ worker' = IF worker = "paired" THEN "schedule" ELSE "none"
    /\ thread' = IF worker = "paired" THEN thread ELSE "ended"
    /\ target' = {}
    /\ UNCHANGED <<devices, found, credentialVars, calling, asked, key, streamVars, boundVars>>

\* The outcome is shown.
Reports ==
    /\ worker \in {"paired", "failed"}
    /\ flag' = FALSE
    /\ worker' = IF worker = "paired" THEN "schedule" ELSE "none"
    /\ thread' = IF worker = "paired" THEN thread ELSE "ended"
    /\ target' = {}
    /\ UNCHANGED <<devices, found, credentialVars, calling, asked, key, streamVars, boundVars>>

\* Mutant: the stream that plays is left as it is.
ReportsOnly ==
    /\ worker = "schedule"
    /\ worker' = "none" /\ thread' = "ended"
    /\ UNCHANGED <<devices, found, credentialVars, flag, calling, asked, target, key,
                   streamVars, boundVars>>

\* The update gives the receiver to the stream that plays.
Schedules ==
    /\ worker = "schedule"
    /\ update' = (update \/ playback = "open")
    /\ worker' = "none" /\ thread' = "ended"
    /\ UNCHANGED <<devices, found, credentialVars, flag, calling, asked, target, key,
                   transportVars, playback, sessions, control, due, boundVars>>

Worker ==
    \/ Resolves \/ Handshakes \/ HandshakeFails \/ Reports \/ Schedules
    \/ \E arrives \in BOOLEAN : Exchanges(arrives)
    \/ \E i \in target : Saves(i)

-----------------------------------------------------------------------------
\* The streams.

\* AirPlay2PairVerifySession, and what the receiver makes of its M3.
Verifies(n, k) == k \in trusted[n]

\* Stored credentials are verified, and there is no second try without them;
\* without credentials the setup is a transient one.
MayOpen(i, k) == IF k = NoKey THEN NameOf[i] \notin Locked ELSE Verifies(NameOf[i], k)

\* connect_selected_outputs(): the outputs that have no session.
ConnectBegins(who) ==
    /\ Free
    /\ transport' = who
    /\ untried' = {i \in DOMAIN devices \ sessions :
                      devices[i].modern /\ HasEndpoint(devices[i])}

\* One after another is tried with the credentials that are found for it, and any
\* may fail.
Opens ==
    \E i \in Firsts(untried), ready \in BOOLEAN : \E k \in Loaded(i) :
        LET n == NameOf[i]
        IN  /\ ready => MayOpen(i, k)
            /\ untried' = untried \ {i}
            /\ sessions' = IF ready THEN sessions \cup {i} ELSE sessions
            /\ store' = SavedAgain(i, k)
            /\ memory' = IF k = NoKey THEN memory ELSE Saved(memory, i, k)
            /\ used' = IF ready /\ k # NoKey /\ n \in DOMAIN last /\ k = last[n]
                       THEN used \cup {i} ELSE used
            /\ UNCHANGED <<devices, found, trusted, last, made, callVars, workerVars, transport,
                           playback, update, control, due, boundVars>>

ConnectEnds(who) ==
    /\ transport = who /\ untried = {}
    /\ transport' = "free"

StreamStarts ==
    /\ playback = "closed"
    /\ playback' = "connecting"
    /\ UNCHANGED <<devices, found, credentialVars, callVars, workerVars, transportVars,
                   sessions, update, control, due, boundVars>>

StreamConnects ==
    /\ playback = "connecting"
    /\ ConnectBegins("setup")
    /\ UNCHANGED <<devices, found, credentialVars, callVars, workerVars, playback, sessions,
                   update, control, due, boundVars>>

\* The setup fails when no output got ready; there may be others than these, which
\* need no pairing.
StreamConnected ==
    /\ ConnectEnds("setup")
    /\ playback' \in {"prepared", "closed"}
    /\ sessions' = IF playback' = "closed" THEN {} ELSE sessions
    /\ due' = IF playback' = "closed" THEN {} ELSE due \ {NameOf[i] : i \in DOMAIN devices}
    /\ UNCHANGED <<devices, found, credentialVars, callVars, workerVars, untried, update,
                   control, boundVars>>

\* playback_open_ is set without the transport; then the outputs are reconciled.
StreamOpens ==
    /\ playback = "prepared"
    /\ playback' = "open" /\ update' = TRUE
    /\ UNCHANGED <<devices, found, credentialVars, callVars, workerVars, transportVars,
                   sessions, control, due, boundVars>>

\* stop_playback().
StreamStops ==
    /\ playback # "closed" /\ Free
    /\ playback' = "closed" /\ sessions' = {} /\ due' = {}
    /\ UNCHANGED <<devices, found, credentialVars, callVars, workerVars, transportVars, update,
                   control, boundVars>>

\* control_update_worker(): what is asked for, read before the transport is waited for.
UpdateBegins ==
    /\ update /\ control = "idle"
    /\ update' = FALSE
    /\ control' = IF playback = "open" THEN "connect" ELSE "leave"
    /\ UNCHANGED <<devices, found, credentialVars, callVars, workerVars, transportVars,
                   playback, sessions, due, boundVars>>

UpdateConnects ==
    /\ control = "connect" /\ playback = "open"
    /\ ConnectBegins("update")
    /\ UNCHANGED <<devices, found, credentialVars, callVars, workerVars, playback, sessions,
                   update, control, due, boundVars>>

UpdateConnected ==
    /\ ConnectEnds("update")
    /\ control' = "idle"
    /\ due' = due \ {NameOf[i] : i \in DOMAIN devices}
    /\ UNCHANGED <<devices, found, credentialVars, callVars, workerVars, untried, playback,
                   sessions, update, boundVars>>

\* The stream was stopped, or was not yet open.
UpdateLeaves ==
    /\ control = "leave" \/ (control = "connect" /\ playback # "open")
    /\ Free
    /\ control' = "idle"
    /\ UNCHANGED <<devices, found, credentialVars, callVars, workerVars, transportVars,
                   playback, sessions, update, due, boundVars>>

Stream == StreamConnects \/ StreamConnected \/ StreamOpens
Update == UpdateBegins \/ UpdateConnects \/ UpdateConnected \/ UpdateLeaves

-----------------------------------------------------------------------------
\* The surroundings.

\* No scan runs while a stream is open.
ScanBegins ==
    /\ playback \in {"closed", "connecting"} /\ Free
    /\ scans < MaxScans
    /\ scans' = scans + 1
    /\ transport' = "scan"
    /\ Browse
    /\ UNCHANGED <<devices, credentialVars, callVars, workerVars, untried, playback, sessions,
                   update, control, due, pairs, resets, restarts>>

\* What was found is merged entry by entry, in any order.
ScanMerges ==
    /\ transport = "scan"
    /\ Merge
    /\ UNCHANGED <<credentialVars, callVars, workerVars, streamVars, boundVars>>

ScanEnds ==
    /\ transport = "scan" /\ DOMAIN found = {}
    /\ transport' = "free"
    /\ UNCHANGED <<devices, found, credentialVars, callVars, workerVars, untried, playback,
                   sessions, update, control, due, boundVars>>

Scan == ScanBegins \/ ScanMerges \/ ScanEnds

\* The user resets a receiver, or removes its pairings, while it is idle.
Reset(n) ==
    /\ trusted[n] # {}
    /\ playback = "closed" /\ worker = "none"
    /\ resets < MaxResets
    /\ resets' = resets + 1
    /\ trusted' = [trusted EXCEPT ![n] = {}]
    /\ UNCHANGED <<devices, found, store, memory, last, used, made, callVars, workerVars,
                   streamVars, pairs, scans, restarts>>

\* foobar2000 is closed, which waits for the threads, and started again.
Restart ==
    /\ ~calling /\ worker = "none" /\ Free /\ playback = "closed" /\ control = "idle"
    /\ restarts < MaxRestarts
    /\ restarts' = restarts + 1
    /\ devices' = NoDevices
    /\ memory' = [i \in {} |-> NoKey]
    /\ thread' = "none"
    /\ flag' = FALSE /\ update' = FALSE
    /\ UNCHANGED <<found, store, trusted, last, used, made, calling, asked, workerVars,
                   transportVars, playback, sessions, control, due, pairs, scans, resets>>

Init ==
    /\ devices = NoDevices /\ found = Nothing
    /\ store = [i \in {} |-> NoKey] /\ memory = [i \in {} |-> NoKey]
    /\ trusted = [n \in Name |-> {}]
    /\ flag = FALSE /\ calling = FALSE /\ asked = {} /\ thread = "none"
    /\ worker = "none" /\ target = {} /\ key = NoKey
    /\ transport = "free" /\ untried = {}
    /\ playback = "closed" /\ sessions = {} /\ update = FALSE /\ control = "idle"
    /\ last = [n \in {} |-> NoKey] /\ used = {} /\ due = {}
    /\ made = 0 /\ pairs = 0 /\ scans = 0 /\ resets = 0 /\ restarts = 0

Next ==
    \/ PairRefused \/ (\E id \in Offered : PairCalled(id)) \/ PairStarts \/ PairThrows
    \/ Worker
    \/ StreamStarts \/ Stream \/ StreamStops \/ Update \/ Opens
    \/ Scan \/ (\E n \in Name : Reset(n)) \/ Restart

Spec == Init /\ [][Next]_vars

\* Every request of a handshake has a timeout; the setup, the scan and the control
\* worker run to their end.  Who waits for the transport gets it at some time.
Fairness ==
    /\ WF_vars(Worker) /\ WF_vars(PairStarts \/ PairThrows)
    /\ WF_vars(Stream) /\ WF_vars(Update) /\ WF_vars(Opens) /\ WF_vars(ScanMerges \/ ScanEnds)
    /\ SF_vars(Resolves)

FairSpec == Spec /\ Fairness

-----------------------------------------------------------------------------
TypeOK ==
    /\ IdentityTyped
    /\ {store, memory} \subseteq CredentialFiles
    /\ trusted \in [Name -> SUBSET Key]
    /\ {flag, calling, update} \subseteq BOOLEAN
    /\ asked \subseteq Id /\ target \subseteq Id /\ sessions \subseteq Id
    /\ thread \in {"none", "running", "ended"}
    /\ worker \in {"none", "wait", "handshake", "exchange", "save", "paired", "schedule", "failed"}
    /\ transport \in {"free", "scan", "setup", "update"} /\ untried \subseteq DOMAIN devices
    /\ playback \in {"closed", "connecting", "prepared", "open"}
    /\ control \in {"idle", "connect", "leave"}
    /\ last \in UNION {[names -> Key] : names \in SUBSET Name}
    /\ used \subseteq Id /\ due \subseteq Name

\* The ids under which credentials of an earlier pairing of the receiver are stored.
Outdated(n) == {i \in DOMAIN store : NameOf[i] = n /\ store[i] # last[n]}

\* A receiver that was paired is opened with the credentials of its last pairing:
\* under the id it was paired under and every id it has played under since, also
\* after a restart; and under an id that discovery links to one of these, unless
\* credentials of an earlier pairing are still stored under one of its ids.
PairedReconnects ==
    \A i \in DOMAIN devices :
        LET n == NameOf[i]
            linked == Ids(i, devices[i])
        IN  i \in used \/ (linked \cap used # {} /\ linked \cap Outdated(n) = {})
            => Loaded(i) = {last[n]}

\* pair_output() returns to the user interface, even behind an earlier pairing, and
\* what it shows as in progress ends.
PairingEnds == []<>~calling /\ []<>~flag

\* A receiver that is paired while a stream plays, or is being set up, is tried
\* again for this stream, or reported as not to be played to, when the last scan
\* lost its TXT record.
PairedJoins == \A n \in Name : []<>(n \notin due)
=============================================================================
