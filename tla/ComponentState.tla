---------------------------- MODULE ComponentState ----------------------------
(***************************************************************************)
(* The playback lifecycle of MultiroomComponentState: playback setup, the  *)
(* discovery refresh worker, the speaker control worker, stop, and the     *)
(* speaker selection they share with the user interface.                   *)
(*                                                                         *)
(* Five threads: the HOST thread of the output (prepare, cancel, stop),    *)
(* the RENDER thread that runs open_playback_stream() and then plays, the  *)
(* main thread (USER: toggles, requests, the callback of a failure), and   *)
(* the REFRESH and CONTROL workers.                                        *)
(*                                                                         *)
(* mutex_ guards the cache and the flags: one action is one of its         *)
(* critical sections.  transport_mutex_ guards the transport and is held   *)
(* across several of them: a thread holds it in the control points that    *)
(* TransportFree names.  std::thread objects are started where their       *)
(* in_progress flag is set: the thread before them has cleared that flag   *)
(* as its last act, so the join in between does not wait.                  *)
(*                                                                         *)
(* Of the receivers' settings only the selection is modelled; "partial"    *)
(* stands for a volume or metadata update, which leaves it alone.          *)
(* Discovery finds nothing or every output: merging the identities of a    *)
(* receiver belongs to discovery.                                          *)
(***************************************************************************)
EXTENDS Naturals

CONSTANTS
    Output,         \* the receivers on the network
    MaxStreams,     \* bound: streams the host opens
    MaxToggles,     \* bound: speakers the user toggles
    MaxRefreshes    \* bound: refreshes the user requests

ASSUME BoundsAssumption ==
    MaxStreams \in Nat /\ MaxToggles \in Nat /\ MaxRefreshes \in Nat

VARIABLES
    \* Control points of the five threads.
    host, setup, user, refresh, control,
    \* Guarded by mutex_: cached_outputs_ (whether it is filled, and its
    \* selected ids), playback_connecting_, active_output_names_, the requests.
    known, cached, connecting, names, refresh_requested, deferred, requests,
    \* Atomics: playback_open_ and the cancel flags of setup and transport.
    playback_open, cancel_requested,
    \* The persisted selection: nothing, deselected or selected.
    stored,
    \* Guarded by transport_mutex_: outputs discovered, selected in the
    \* registry, open in the session manager; stream_open_ of the engine.
    discovered, enabled, sessions, engine_open,
    \* Locals of the setup, the refresh worker, the control worker; selections
    \* made in the cache and not yet stored.
    setupLocals, refreshed, controlLocals, pending,
    \* A stop queued for the main thread by report_playback_failure().
    failure_stop,
    \* History: a refresh the user waits for; publications that put an older
    \* selection over the user's; whether the last full update failed.
    wanted, lost, control_failed,
    \* Counters of the bounds.
    streams, toggles, refreshes

cacheVars == <<known, cached>>
playbackVars == <<connecting, names, playback_open, cancel_requested>>
requestVars == <<refresh_requested, deferred, requests>>
transportVars == <<discovered, enabled, sessions, engine_open>>
localVars == <<setupLocals, refreshed, controlLocals, pending>>
historyVars == <<wanted, lost, control_failed>>
boundVars == <<streams, toggles, refreshes>>
vars == <<host, setup, user, refresh, control, cacheVars, playbackVars,
          requestVars, stored, transportVars, localVars, failure_stop,
          historyVars, boundVars>>

Selection == SUBSET Output

\* The locals of a thread that is not in the function.
NonePending == [on |-> {}, off |-> {}, search |-> FALSE]
NoOutputs == [known |-> FALSE, selected |-> {}]
NoSetup == [known |-> FALSE, selected |-> {}, names |-> {}]
NoControl == [known |-> FALSE, selected |-> {}, connect |-> FALSE, names |-> {}]

PointsTyped ==
    /\ host \in {"closed", "spawning", "streaming", "stopping", "refreshing"}
    /\ setup \in {"none", "discover", "found", "check", "snapshot", "connect",
                  "connecting", "publish", "reconcile", "playing", "unwind",
                  "failed", "done"}
    /\ user \in {"idle", "store", "schedule", "search", "refreshing"}
    /\ refresh \in {"none", "begin", "scanning", "publish", "again"}
    /\ control \in {"none", "snapshot", "apply", "applying", "names", "publish",
                    "failed", "again"}

FlagsTyped ==
    /\ known \in BOOLEAN /\ connecting \in BOOLEAN
    /\ refresh_requested \in BOOLEAN /\ deferred \in BOOLEAN
    /\ playback_open \in BOOLEAN /\ cancel_requested \in BOOLEAN
    /\ discovered \in BOOLEAN /\ engine_open \in BOOLEAN
    /\ failure_stop \in BOOLEAN /\ wanted \in BOOLEAN /\ control_failed \in BOOLEAN

SelectionsTyped ==
    /\ cached \in Selection /\ names \in Selection
    /\ enabled \in Selection /\ sessions \in Selection
    /\ stored \in [Output -> {"none", "off", "on"}]

LocalsTyped ==
    /\ setupLocals \in [known : BOOLEAN, selected : Selection, names : Selection]
    /\ refreshed \in [known : BOOLEAN, selected : Selection]
    /\ controlLocals \in [known : BOOLEAN, selected : Selection,
                          connect : BOOLEAN, names : Selection]
    /\ pending \in [on : Selection, off : Selection, search : BOOLEAN]

CountersTyped ==
    /\ requests \in SUBSET {"full", "partial"}
    /\ lost \in SUBSET {"setup", "refresh", "control"}
    /\ streams \in 0 .. MaxStreams /\ toggles \in 0 .. MaxToggles
    /\ refreshes \in 0 .. MaxRefreshes

\* An empty cache selects nothing.
TypeOK ==
    /\ PointsTyped /\ FlagsTyped /\ SelectionsTyped /\ LocalsTyped /\ CountersTyped
    /\ ~known => cached = {}

Init ==
    /\ host = "closed" /\ setup = "none" /\ user = "idle"
    /\ refresh = "none" /\ control = "none"
    /\ known = FALSE /\ cached = {} /\ connecting = FALSE /\ names = {}
    /\ refresh_requested = FALSE /\ deferred = FALSE /\ requests = {}
    /\ playback_open = FALSE /\ cancel_requested = FALSE
    /\ stored \in [Output -> {"none", "off", "on"}]
    /\ discovered = FALSE /\ enabled = {} /\ sessions = {} /\ engine_open = FALSE
    /\ setupLocals = NoSetup
    /\ refreshed = NoOutputs
    /\ controlLocals = NoControl
    /\ pending = NonePending
    /\ failure_stop = FALSE
    /\ wanted = FALSE /\ lost = {} /\ control_failed = FALSE
    /\ streams = 0 /\ toggles = 0 /\ refreshes = 0

-----------------------------------------------------------------------------

\* playback_active(): playback is being set up or open.
PlaybackActive == playback_open \/ connecting

\* Nobody is inside a critical section of transport_mutex_.
TransportFree ==
    /\ setup # "connecting" /\ refresh # "scanning" /\ control # "applying"

\* has_stored_selected_output()
StoredSelection == {o \in Output : stored[o] = "on"}

\* Mutant: what discovery has not found is listed as well.
ListedUnfound(found) ==
    {o \in Output : stored[o] = "on" \/ (stored[o] = "none" /\ o \in enabled)}

\* apply_stored_output_state(list_outputs()): an output without a stored
\* record keeps the selection it has in the registry.
Listed(found) ==
    IF found
    THEN {o \in Output : stored[o] = "on" \/ (stored[o] = "none" /\ o \in enabled)}
    ELSE {}

\* What the user has selected, what is not yet stored included.
Wish == (StoredSelection \cup pending.on) \ pending.off

\* A publication by who that leaves another selection than the user's.
NoteLoss(who) ==
    LET superseded == (known' /\ cached' # Wish) \/ (known /\ ~known') IN
    lost' = IF superseded THEN lost \cup {who} ELSE lost

\* schedule_control_update(), schedule_volume_update(), schedule_metadata_update()
Schedule(kind) ==
    /\ requests' = requests \cup {kind}
    /\ control' = IF control = "none" THEN "snapshot" ELSE control

\* refresh_outputs(): deferred while playback is active, else coalesced with
\* a scan in progress, else the worker is started.
RefreshOutputs ==
    /\ deferred' = (deferred \/ PlaybackActive)
    /\ refresh_requested' =
            IF PlaybackActive THEN refresh_requested ELSE refresh # "none"
    /\ refresh' = IF ~PlaybackActive /\ refresh = "none" THEN "begin" ELSE refresh

-----------------------------------------------------------------------------
(* The user, on the main thread.                                           *)

\* The selection changes in the cache, as far as it knows the outputs; what
\* changed is stored next, and a group nobody of which is known is searched for.
Select(on, off, search) ==
    /\ user = "idle" /\ user' = "store"
    /\ toggles < MaxToggles
    /\ toggles' = toggles + 1
    /\ cached' = IF known THEN (cached \cup on) \ off ELSE {}
    /\ pending' = [on |-> on, off |-> off, search |-> search]
    /\ UNCHANGED <<host, setup, refresh, control, known, playbackVars, requestVars,
                   stored, transportVars, setupLocals, refreshed, controlLocals,
                   failure_stop, historyVars, streams, refreshes>>

\* toggle_output(id): the cache first, if it knows the output ...
Toggle(o) ==
    IF known THEN Select({o} \ cached, {o} \cap cached, FALSE)
             ELSE Select({}, {}, FALSE)

\* activate_speaker_group(id): the members, known or not, and nothing else.
ActivateGroup(members) ==
    Select(members, {o \in Output \ members : o \in cached \/ stored[o] # "none"}, ~known)

\* ... then update_stored_output_state(), replace_stored_output_selection() ...
SelectStores ==
    /\ user = "store" /\ user' = "schedule"
    /\ stored' = [o \in Output |-> IF o \in pending.on THEN "on"
                                   ELSE IF o \in pending.off THEN "off" ELSE stored[o]]
    /\ pending' = [NonePending EXCEPT !.search = pending.search]
    /\ UNCHANGED <<host, setup, refresh, control, cacheVars, playbackVars,
                   requestVars, transportVars, setupLocals, refreshed, controlLocals,
                   failure_stop, historyVars, boundVars>>

\* ... then schedule_control_update().
SelectSchedules ==
    /\ user = "schedule"
    /\ Schedule("full")
    /\ user' = IF pending.search THEN "search" ELSE "idle"
    /\ pending' = NonePending
    /\ UNCHANGED <<host, setup, refresh, cacheVars, playbackVars, refresh_requested,
                   deferred, stored, transportVars, setupLocals, refreshed,
                   controlLocals, failure_stop, historyVars, boundVars>>

\* The members of the group are searched for unless refresh_in_progress().
SearchMembers ==
    /\ user = "search"
    /\ user' = IF refresh # "none" \/ deferred THEN "idle" ELSE "refreshing"
    /\ UNCHANGED <<host, setup, refresh, control, cacheVars, playbackVars, requestVars,
                   stored, transportVars, localVars, failure_stop, historyVars,
                   boundVars>>

\* A volume or metadata change: set_output_volume(), set_playback_metadata(), ...
ChangePartial ==
    /\ user = "idle"
    /\ Schedule("partial")
    /\ UNCHANGED <<host, setup, user, refresh, cacheVars, playbackVars,
                   refresh_requested, deferred, stored, transportVars, localVars,
                   failure_stop, historyVars, boundVars>>

\* The Refresh button.
RequestRefresh ==
    /\ user = "idle"
    /\ refreshes < MaxRefreshes
    /\ refreshes' = refreshes + 1
    /\ RefreshOutputs
    /\ wanted' = TRUE
    /\ UNCHANGED <<host, setup, user, control, cacheVars, playbackVars, requests,
                   stored, transportVars, localVars, failure_stop, lost,
                   control_failed, streams, toggles>>

\* The locked part of stop_playback(): the engine is stopped only if playback is
\* open.  The caller goes on to run the refresh deferred until now, if any.
StopPlayback ==
    /\ TransportFree
    /\ sessions' = IF playback_open THEN {} ELSE sessions
    /\ engine_open' = (engine_open /\ ~playback_open)
    /\ playback_open' = FALSE /\ cancel_requested' = FALSE
    /\ connecting' = FALSE /\ names' = {}
    /\ deferred' = FALSE

\* The callback queued by report_playback_failure() finds foobar stopped.
FailureStops ==
    /\ user = "idle"
    /\ failure_stop
    /\ failure_stop' = FALSE
    /\ StopPlayback
    /\ user' = IF deferred THEN "refreshing" ELSE "idle"
    /\ UNCHANGED <<host, setup, refresh, control, cacheVars, refresh_requested,
                   requests, stored, discovered, enabled, localVars, historyVars,
                   boundVars>>

\* The callback finds foobar playing and stops it: the host closes the output.
FailureStopsHost ==
    /\ user = "idle"
    /\ failure_stop
    /\ failure_stop' = FALSE
    /\ UNCHANGED <<host, setup, user, refresh, control, cacheVars, playbackVars,
                   requestVars, stored, transportVars, localVars, historyVars,
                   boundVars>>

\* The refresh deferred until the stop of the callback, the search of a group.
UserRefreshes ==
    /\ user = "refreshing"
    /\ RefreshOutputs
    /\ user' = "idle"
    /\ UNCHANGED <<host, setup, control, cacheVars, playbackVars, requests, stored,
                   transportVars, localVars, failure_stop, historyVars, boundVars>>

User ==
    \/ \E o \in Output : Toggle(o)
    \/ \E members \in Selection \ {{}} : ActivateGroup(members)
    \/ SelectStores \/ SelectSchedules \/ SearchMembers
    \/ ChangePartial \/ RequestRefresh
    \/ FailureStops \/ FailureStopsHost \/ UserRefreshes

-----------------------------------------------------------------------------
(* The host thread.                                                        *)

\* prepare_playback_open().  foobar runs a callback it has queued before the
\* user can start the next playback.
HostOpen ==
    /\ host = "closed" /\ setup = "none" /\ ~failure_stop /\ user # "refreshing"
    /\ streams < MaxStreams
    /\ streams' = streams + 1
    /\ cancel_requested' = FALSE
    /\ connecting' = TRUE /\ names' = {}
    /\ host' = "spawning"
    /\ UNCHANGED <<setup, user, refresh, control, cacheVars, playback_open,
                   requestVars, stored, transportVars, localVars, failure_stop,
                   historyVars, toggles, refreshes>>

\* The output starts its render thread.
HostSpawns ==
    /\ host = "spawning" /\ host' = "streaming"
    /\ setup' = "discover"
    /\ UNCHANGED <<user, refresh, control, cacheVars, playbackVars, requestVars,
                   stored, transportVars, localVars, failure_stop, historyVars,
                   boundVars>>

\* The thread cannot be created: stop_playback() is next, nothing is cancelled.
HostSpawnFails ==
    /\ host = "spawning" /\ host' = "stopping"
    /\ setup' = "done"
    /\ UNCHANGED <<user, refresh, control, cacheVars, playbackVars, requestVars,
                   stored, transportVars, localVars, failure_stop, historyVars,
                   boundVars>>

\* cancel_pending_playback_open()
HostCancels ==
    /\ host = "streaming"
    /\ host' = "stopping"
    /\ cancel_requested' = TRUE
    /\ UNCHANGED <<setup, user, refresh, control, cacheVars, connecting, names,
                   playback_open, requestVars, stored, transportVars, localVars,
                   failure_stop, historyVars, boundVars>>

\* Mutant: the deferred refresh is forgotten.
HostStopsForgetsRefresh ==
    /\ host = "stopping" /\ host' = "closed"
    /\ setup = "done" /\ setup' = "none"
    /\ StopPlayback
    /\ UNCHANGED <<user, refresh, control, cacheVars, refresh_requested, requests,
                   stored, discovered, enabled, localVars, failure_stop,
                   historyVars, boundVars>>

\* stop_playback(), once the render thread is joined.
HostStops ==
    /\ host = "stopping"
    /\ setup = "done" /\ setup' = "none"
    /\ StopPlayback
    /\ host' = IF deferred THEN "refreshing" ELSE "closed"
    /\ UNCHANGED <<user, refresh, control, cacheVars, refresh_requested, requests,
                   stored, discovered, enabled, localVars, failure_stop,
                   historyVars, boundVars>>

\* The refresh deferred until that stop.
HostRefreshes ==
    /\ host = "refreshing"
    /\ RefreshOutputs
    /\ host' = "closed"
    /\ UNCHANGED <<setup, user, control, cacheVars, playbackVars, requests, stored,
                   transportVars, localVars, failure_stop, historyVars, boundVars>>

Host ==
    \/ HostOpen \/ HostSpawns \/ HostSpawnFails
    \/ HostCancels \/ HostStops \/ HostRefreshes

-----------------------------------------------------------------------------
(* The render thread: open_playback_stream(), then the render loop.        *)

SetupGoto(from, to) ==
    /\ setup = from
    /\ setup' = to

\* refresh_outputs_for_playback() scans if the cache offers nothing to play.
ShouldRefresh == ~known \/ (cached = {} /\ StoredSelection # {})

\* The scan, under transport_mutex_; found or not, the stored state is applied.
SetupScan ==
    /\ SetupGoto("discover", "found")
    /\ ShouldRefresh
    /\ TransportFree
    /\ discovered' \in {discovered, TRUE}
    /\ setupLocals' = [setupLocals EXCEPT !.known = discovered',
                                          !.selected = Listed(discovered')]
    /\ UNCHANGED <<host, user, refresh, control, cacheVars, playbackVars, requestVars,
                   stored, enabled, sessions, engine_open, refreshed, controlLocals,
                   pending, failure_stop, historyVars, boundVars>>

SetupCaches ==
    /\ SetupGoto("found", "check")
    /\ known' = setupLocals.known
    /\ cached' = setupLocals.selected
    /\ NoteLoss("setup")
    /\ UNCHANGED <<host, user, refresh, control, playbackVars, requestVars, stored,
                   transportVars, localVars, failure_stop, wanted, control_failed,
                   boundVars>>

SetupNeedsNoScan ==
    /\ SetupGoto("discover", "check")
    /\ ~ShouldRefresh
    /\ UNCHANGED <<host, user, refresh, control, cacheVars, playbackVars, requestVars,
                   stored, transportVars, localVars, failure_stop, historyVars,
                   boundVars>>

\* Discovery fails or is cancelled.
SetupScanFails ==
    /\ SetupGoto("discover", "unwind")
    /\ ShouldRefresh
    /\ TransportFree
    /\ discovered' \in {discovered, TRUE}
    /\ UNCHANGED <<host, user, refresh, control, cacheVars, playbackVars, requestVars,
                   stored, enabled, sessions, engine_open, localVars, failure_stop,
                   historyVars, boundVars>>

\* The test for a cancelled setup before anything is connected.
SetupChecks ==
    /\ setup = "check"
    /\ setup' = IF cancel_requested THEN "unwind" ELSE "snapshot"
    /\ UNCHANGED <<host, user, refresh, control, cacheVars, playbackVars, requestVars,
                   stored, transportVars, localVars, failure_stop, historyVars,
                   boundVars>>

\* The cache is copied under mutex_.  A saved selection that was not found
\* is an error.
SetupSnapshot ==
    /\ setup = "snapshot"
    /\ setup' = IF cached = {} /\ StoredSelection # {} THEN "unwind" ELSE "connect"
    /\ setupLocals' = [setupLocals EXCEPT !.selected = cached]
    /\ UNCHANGED <<host, user, refresh, control, cacheVars, playbackVars, requestVars,
                   stored, transportVars, refreshed, controlLocals, pending,
                   failure_stop, historyVars, boundVars>>

\* set_enabled_outputs() refuses to prepare sessions that are cancelled.
Refused == cancel_requested /\ discovered

\* Under transport_mutex_: the registry takes the selection, the stream opens.
SetupConnects ==
    /\ SetupGoto("connect", "connecting")
    /\ TransportFree
    /\ ~Refused
    /\ enabled' = setupLocals.selected
    /\ sessions' = sessions \cap setupLocals.selected
    /\ engine_open' = TRUE
    /\ UNCHANGED <<host, user, refresh, control, cacheVars, playbackVars, requestVars,
                   stored, discovered, localVars, failure_stop, historyVars, boundVars>>

SetupRefused ==
    /\ SetupGoto("connect", "unwind")
    /\ TransportFree
    /\ Refused
    /\ enabled' = setupLocals.selected
    /\ UNCHANGED <<host, user, refresh, control, cacheVars, playbackVars, requestVars,
                   stored, discovered, sessions, engine_open, localVars, failure_stop,
                   historyVars, boundVars>>

\* connect_selected_outputs() opens a part of the selection, not none of it.
SetupConnected ==
    /\ SetupGoto("connecting", "publish")
    /\ ~cancel_requested
    /\ \E opened \in SUBSET setupLocals.selected :
        /\ opened = {} => setupLocals.selected = {}
        /\ sessions' = opened
        /\ setupLocals' = [setupLocals EXCEPT !.known = discovered, !.names = opened]
    /\ UNCHANGED <<host, user, refresh, control, cacheVars, playbackVars, requestVars,
                   stored, discovered, enabled, engine_open, refreshed, controlLocals,
                   pending, failure_stop, historyVars, boundVars>>

\* No receiver answers, one refuses its volume, or the setup is cancelled: some
\* may be open by then.
SetupConnectFails ==
    /\ SetupGoto("connecting", "unwind")
    /\ setupLocals.selected # {} \/ cancel_requested
    /\ sessions' \in SUBSET setupLocals.selected
    /\ UNCHANGED <<host, user, refresh, control, cacheVars, playbackVars, requestVars,
                   stored, discovered, enabled, engine_open, localVars, failure_stop,
                   historyVars, boundVars>>

\* Open is published before Connecting is cleared, under mutex_.  The cache is
\* given the outputs with the selection of the snapshot.
SetupPublishes ==
    /\ SetupGoto("publish", "reconcile")
    /\ known' = setupLocals.known
    /\ cached' = setupLocals.selected
    /\ names' = setupLocals.names
    /\ playback_open' = TRUE /\ connecting' = FALSE
    /\ setupLocals' = NoSetup
    /\ NoteLoss("setup")
    /\ UNCHANGED <<host, user, refresh, control, cancel_requested, requestVars, stored,
                   transportVars, refreshed, controlLocals, pending, failure_stop, wanted, control_failed,
                   boundVars>>

\* The full update that reconciles what changed during the handshake.
SetupReconciles ==
    /\ SetupGoto("reconcile", "playing")
    /\ Schedule("full")
    /\ UNCHANGED <<host, user, refresh, cacheVars, playbackVars, refresh_requested,
                   deferred, stored, transportVars, localVars, failure_stop,
                   historyVars, boundVars>>

\* The handler of a failed setup, under transport_mutex_ ...
SetupUnwinds ==
    /\ SetupGoto("unwind", "failed")
    /\ TransportFree
    /\ sessions' = IF engine_open THEN {} ELSE sessions
    /\ engine_open' = FALSE
    /\ playback_open' = FALSE
    /\ UNCHANGED <<host, user, refresh, control, cacheVars, connecting, names,
                   cancel_requested, requestVars, stored, discovered, enabled,
                   localVars, failure_stop, historyVars, boundVars>>

\* ... and under mutex_; the render thread reports the failure unless it is stopped.
SetupFailed ==
    /\ SetupGoto("failed", "done")
    /\ connecting' = FALSE /\ names' = {}
    /\ setupLocals' = NoSetup
    /\ failure_stop' = (failure_stop \/ host = "streaming")
    /\ UNCHANGED <<host, user, refresh, control, cacheVars, playback_open,
                   cancel_requested, requestVars, stored, transportVars, refreshed,
                   controlLocals, pending, historyVars, boundVars>>

\* Mutant: the render loop ends by a failure only.
RenderEndsByFailure ==
    /\ SetupGoto("playing", "done")
    /\ host = "streaming"
    /\ failure_stop' = TRUE
    /\ UNCHANGED <<host, user, refresh, control, cacheVars, playbackVars, requestVars,
                   stored, transportVars, localVars, historyVars, boundVars>>

\* A write or a flush fails, or the stream is stopped.
RenderEnds ==
    /\ SetupGoto("playing", "done")
    /\ failure_stop' = (failure_stop \/ host = "streaming")
    /\ UNCHANGED <<host, user, refresh, control, cacheVars, playbackVars, requestVars,
                   stored, transportVars, localVars, historyVars, boundVars>>

Setup ==
    \/ SetupScan \/ SetupCaches \/ SetupNeedsNoScan \/ SetupScanFails
    \/ SetupChecks \/ SetupSnapshot
    \/ SetupConnects \/ SetupRefused \/ SetupConnected \/ SetupConnectFails
    \/ SetupPublishes \/ SetupReconciles
    \/ SetupUnwinds \/ SetupFailed

-----------------------------------------------------------------------------
(* The refresh worker: refresh_outputs_worker().                           *)

\* Mutant: playback is not looked at again under transport_mutex_.
RefreshBeginsUnchecked ==
    /\ refresh = "begin" /\ refresh' = "scanning"
    /\ TransportFree
    /\ wanted' = FALSE
    /\ UNCHANGED <<host, setup, user, control, cacheVars, playbackVars, requestVars,
                   stored, transportVars, localVars, failure_stop, lost,
                   control_failed, boundVars>>

\* Under transport_mutex_: playback that has started since defers the scan.
RefreshBegins ==
    /\ refresh = "begin"
    /\ TransportFree
    /\ IF PlaybackActive
       THEN /\ refresh' = "none"
            /\ deferred' = TRUE /\ refresh_requested' = FALSE
            /\ UNCHANGED wanted
       ELSE /\ refresh' = "scanning"
            /\ wanted' = FALSE
            /\ UNCHANGED <<deferred, refresh_requested>>
    /\ UNCHANGED <<host, setup, user, control, cacheVars, playbackVars, requests, stored,
                   transportVars, localVars, failure_stop, lost, control_failed,
                   boundVars>>

\* refresh_discovery() and list_outputs(), and transport_mutex_ is released.
RefreshScans ==
    /\ refresh = "scanning" /\ refresh' = "publish"
    /\ discovered' \in {discovered, TRUE}
    /\ refreshed' = [known |-> discovered', selected |-> Listed(discovered')]
    /\ UNCHANGED <<host, setup, user, control, cacheVars, playbackVars, requestVars,
                   stored, enabled, sessions, engine_open, setupLocals, controlLocals,
                   pending, failure_stop, historyVars, boundVars>>

RefreshFails ==
    /\ refresh = "scanning" /\ refresh' = "again"
    /\ UNCHANGED <<host, setup, user, control, cacheVars, playbackVars, requestVars,
                   stored, transportVars, localVars, failure_stop, historyVars,
                   boundVars>>

\* The cache takes the result, under mutex_ only.
RefreshPublishes ==
    /\ refresh = "publish" /\ refresh' = "again"
    /\ known' = refreshed.known
    /\ cached' = refreshed.selected
    /\ refreshed' = NoOutputs
    /\ NoteLoss("refresh")
    /\ UNCHANGED <<host, setup, user, control, playbackVars, requestVars, stored,
                   transportVars, setupLocals, controlLocals, pending, failure_stop, wanted, control_failed,
                   boundVars>>

\* A request made during the scan is served by another round.
RefreshRepeats ==
    /\ refresh = "again"
    /\ refresh' = IF refresh_requested THEN "begin" ELSE "none"
    /\ refresh_requested' = FALSE
    /\ UNCHANGED <<host, setup, user, control, cacheVars, playbackVars, deferred,
                   requests, stored, transportVars, localVars, failure_stop,
                   historyVars, boundVars>>

Refresh ==
    \/ RefreshBegins \/ RefreshScans \/ RefreshFails
    \/ RefreshPublishes \/ RefreshRepeats

-----------------------------------------------------------------------------
(* The control worker: control_update_worker().                            *)

ControlGoto(from, to) ==
    /\ control = from
    /\ control' = to

\* Requests, cache and playback state are copied under mutex_.  A partial
\* update reaches the open sessions and changes nothing here.
ControlSnapshot ==
    /\ control = "snapshot"
    /\ control' = IF "full" \in requests THEN "apply" ELSE "again"
    /\ requests' = {}
    /\ controlLocals' =
            IF "full" \in requests
            THEN [known |-> known, selected |-> cached, connect |-> playback_open,
                  names |-> {}]
            ELSE NoControl
    /\ UNCHANGED <<host, setup, user, refresh, cacheVars, playbackVars,
                   refresh_requested, deferred, stored, transportVars, setupLocals,
                   refreshed, pending, failure_stop, historyVars, boundVars>>

\* Mutant: the worker trusts the playback state it copied.
ControlBeginsUnchecked ==
    /\ ControlGoto("apply", "applying")
    /\ TransportFree
    /\ ~Refused
    /\ enabled' = controlLocals.selected
    /\ sessions' = sessions \cap controlLocals.selected
    /\ UNCHANGED <<host, setup, user, refresh, cacheVars, playbackVars, requestVars,
                   stored, discovered, engine_open, localVars, failure_stop,
                   historyVars, boundVars>>

\* Under transport_mutex_: a stop since the copy forbids to connect.  The registry
\* takes the selection, receivers no longer selected are closed.
ControlBegins ==
    /\ ControlGoto("apply", "applying")
    /\ TransportFree
    /\ ~Refused
    /\ enabled' = controlLocals.selected
    /\ sessions' = sessions \cap controlLocals.selected
    /\ controlLocals' =
            [controlLocals EXCEPT !.connect = controlLocals.connect /\ playback_open]
    /\ UNCHANGED <<host, setup, user, refresh, cacheVars, playbackVars, requestVars,
                   stored, discovered, engine_open, setupLocals, refreshed, pending,
                   failure_stop, historyVars, boundVars>>

ControlRefused ==
    /\ ControlGoto("apply", "failed")
    /\ TransportFree
    /\ Refused
    /\ enabled' = controlLocals.selected
    /\ controlLocals' =
            [controlLocals EXCEPT !.connect = controlLocals.connect /\ playback_open]
    /\ UNCHANGED <<host, setup, user, refresh, cacheVars, playbackVars, requestVars,
                   stored, discovered, sessions, engine_open, setupLocals, refreshed,
                   pending, failure_stop, historyVars, boundVars>>

\* While playback is open missing receivers are connected, as far as they answer.
ControlApplies ==
    LET selected == controlLocals.selected IN
    /\ control = "applying"
    /\ control' = IF controlLocals.connect THEN "names" ELSE "publish"
    /\ \E opened \in SUBSET (selected \ sessions) :
        /\ ~controlLocals.connect => opened = {}
        /\ controlLocals.connect /\ selected # {} => sessions \cup opened # {}
        /\ sessions' = sessions \cup opened
    /\ engine_open' = (engine_open \/ controlLocals.connect)
    /\ controlLocals' = [controlLocals EXCEPT !.known = discovered]
    /\ UNCHANGED <<host, setup, user, refresh, cacheVars, playbackVars, requestVars,
                   stored, discovered, enabled, setupLocals, refreshed, pending,
                   failure_stop, historyVars, boundVars>>

\* An open receiver refuses its volume; or none of the selected ones can be
\* opened, or the stream is stopped between two of them.
ControlFails ==
    /\ ControlGoto("applying", "failed")
    /\ \/ sessions # {} /\ UNCHANGED <<sessions, engine_open>>
       \/ /\ controlLocals.connect
          /\ engine_open' = TRUE
          /\ \/ controlLocals.selected # {} /\ sessions = {} /\ UNCHANGED sessions
             \/ /\ Refused
                /\ \E opened \in SUBSET controlLocals.selected :
                      sessions' = sessions \cup opened
    /\ UNCHANGED <<host, setup, user, refresh, cacheVars, playbackVars, requestVars,
                   stored, discovered, enabled, localVars, failure_stop, historyVars,
                   boundVars>>

\* The names of the open sessions, under transport_mutex_ once more.
ControlNames ==
    /\ ControlGoto("names", "publish")
    /\ TransportFree
    /\ controlLocals' = [controlLocals EXCEPT !.names = sessions]
    /\ UNCHANGED <<host, setup, user, refresh, cacheVars, playbackVars, requestVars,
                   stored, transportVars, setupLocals, refreshed, pending,
                   failure_stop, historyVars, boundVars>>

\* Mutant: the selection of the copy replaces what the user did meanwhile.
ControlPublishesCopy ==
    /\ ControlGoto("publish", "again")
    /\ known' = controlLocals.known
    /\ cached' = controlLocals.selected
    /\ names' = IF controlLocals.connect THEN controlLocals.names ELSE names
    /\ controlLocals' = NoControl
    /\ control_failed' = FALSE
    /\ UNCHANGED <<host, setup, user, refresh, connecting, playback_open,
                   cancel_requested, requestVars, stored, transportVars, setupLocals, refreshed,
                   pending,
                   failure_stop, wanted, lost, boundVars>>

\* The cache takes the outputs, but keeps the selection the user has made
\* meanwhile (preserve_user_output_state).
ControlPublishes ==
    /\ ControlGoto("publish", "again")
    /\ known' = controlLocals.known
    /\ cached' = IF ~controlLocals.known THEN {}
                 ELSE IF known THEN cached ELSE controlLocals.selected
    /\ names' = IF controlLocals.connect THEN controlLocals.names ELSE names
    /\ controlLocals' = NoControl
    /\ control_failed' = FALSE
    /\ lost' = IF known /\ ~controlLocals.known THEN lost \cup {"control"} ELSE lost
    /\ UNCHANGED <<host, setup, user, refresh, connecting, playback_open,
                   cancel_requested, requestVars, stored, transportVars, setupLocals, refreshed,
                   pending,
                   failure_stop, wanted, boundVars>>

\* Mutant: the label keeps the receivers of before.
ControlReportsErrorOnly ==
    /\ ControlGoto("failed", "again")
    /\ controlLocals' = NoControl
    /\ control_failed' = TRUE
    /\ UNCHANGED <<host, setup, user, refresh, cacheVars, playbackVars, requestVars,
                   stored, transportVars, setupLocals, refreshed,
                   pending, failure_stop, wanted, lost,
                   boundVars>>

\* After a failure the old receivers are no longer advertised.
ControlReports ==
    /\ ControlGoto("failed", "again")
    /\ names' = IF controlLocals.connect THEN {} ELSE names
    /\ controlLocals' = NoControl
    /\ control_failed' = TRUE
    /\ UNCHANGED <<host, setup, user, refresh, cacheVars, connecting, playback_open,
                   cancel_requested, requestVars, stored, transportVars, setupLocals, refreshed,
                   pending,
                   failure_stop, wanted, lost, boundVars>>

\* Mutant: only a full update is repeated.
ControlRepeatsFull ==
    /\ control = "again"
    /\ control' = IF "full" \in requests THEN "snapshot" ELSE "none"
    /\ UNCHANGED <<host, setup, user, refresh, cacheVars, playbackVars, requestVars,
                   stored, transportVars, localVars, failure_stop, historyVars,
                   boundVars>>

\* Requests made meanwhile are served by another round.
ControlRepeats ==
    /\ control = "again"
    /\ control' = IF requests # {} THEN "snapshot" ELSE "none"
    /\ UNCHANGED <<host, setup, user, refresh, cacheVars, playbackVars, requestVars,
                   stored, transportVars, localVars, failure_stop, historyVars,
                   boundVars>>

Control ==
    \/ ControlSnapshot \/ ControlBegins \/ ControlRefused \/ ControlApplies \/ ControlFails
    \/ ControlNames \/ ControlPublishes \/ ControlReports \/ ControlRepeats

Next == User \/ Host \/ Setup \/ RenderEnds \/ Refresh \/ Control

Spec == Init /\ [][Next]_vars

\* The threads are scheduled and every network operation ends by itself or by
\* its timeout.  A stopped stream ends its render loop; whether a stream fails,
\* and what the user does, is under no fairness.
Fairness ==
    /\ WF_vars(Setup)
    /\ WF_vars(host = "stopping" /\ RenderEnds)
    /\ WF_vars(HostSpawns \/ HostSpawnFails \/ HostStops \/ HostRefreshes)
    /\ WF_vars(SelectStores \/ SelectSchedules \/ SearchMembers \/ UserRefreshes)
    /\ WF_vars(Refresh)
    /\ WF_vars(Control)

FairSpec == Spec /\ Fairness

-----------------------------------------------------------------------------
(* What makes the lifecycle correct.                                       *)

\* Discovery never scans while receivers are connected: neither the refresh
\* that waited for the transport nor the one between two rounds enters a
\* session (refresh_outputs_worker, the check under both locks).
ScanOnlyWithoutSessions == refresh = "scanning" => sessions = {}

\* From prepare to the end of the stream playback_active() is never false: no
\* gap between Connecting and Open.
PlaybackAnnounced ==
    host \in {"spawning", "streaming"} /\ setup # "done" => PlaybackActive

\* A stop that arrives after prepare_playback_open() remains visible to the whole
\* of the asynchronous setup, whoever else stops, fails or updates meanwhile
\* (the comment in MultiroomOutput::open).
CancelVisible == host = "stopping" /\ setup # "done" => cancel_requested

\* Receivers are open only for a stream that is open or being set up: a worker
\* that overlaps a stop never reopens one (control_update_worker), and what a
\* setup or an update has opened is within reach of the next stop.
SessionsHavePlayback ==
    sessions # {} =>
        /\ engine_open
        /\ playback_open \/ setup \in {"connecting", "publish", "unwind"}

\* Playback runs, and no thread has work left on the selection.
Quiet ==
    /\ host = "streaming" /\ setup = "playing" /\ user = "idle"
    /\ control = "none" /\ ~control_failed

\* When all is quiet, the cache, the registry and the open receivers are those
\* the user has selected, whatever was toggled while an update was under way.
SelectionApplied ==
    Quiet /\ lost = {} /\ known =>
        /\ cached = StoredSelection /\ enabled = StoredSelection
        /\ sessions \subseteq StoredSelection

\* When all is quiet the label names the receivers that are open; after a
\* failed update it names none that is not.
LabelNamesSessions ==
    /\ Quiet => names = sessions
    /\ host = "streaming" /\ setup = "playing" /\ control = "none" => names \subseteq sessions

\* A refresh requested during playback runs after the stop.
RefreshServed == wanted /\ host = "closed" ~> ~wanted \/ host = "streaming"

\* Every request for an update is taken up by a worker.
UpdatesServed == requests # {} ~> requests = {}

\* A stop ends, also against a setup or workers that hold the transport.
StopEnds == host = "stopping" ~> host = "closed"

\* The comment above the last call of open_playback_stream(): selections made
\* during the handshake are reconciled once it is over.
LateSelectionReconciled ==
    Quiet /\ "refresh" \notin lost /\ known => enabled = StoredSelection

-----------------------------------------------------------------------------
(* The calls of the output come in the order of HostCalls.                 *)

Calls == INSTANCE HostCalls WITH
    phase <- CASE host \in {"closed", "refreshing"} -> "closed"
               [] host \in {"spawning", "streaming"} -> "prepared"
               [] OTHER -> "stopping",
    stream <- CASE setup = "none" -> "none"
                [] setup = "done" -> "over"
                [] OTHER -> "running"

\* Nothing of the above asks the output for calls it does not make: each step
\* of the host and the end of the render thread is one of HostCalls.
FollowsCalls == Calls!Spec
=============================================================================
