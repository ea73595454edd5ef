# Verification of foobar-universal-multiroom

TLA+ models of the Universal Multiroom component of foobar2000: an output
plug-in that plays PCM to a group of AirPlay receivers in common time. TLC
checks the models on small instances; TLAPS proves the most important of their
properties for every value of the constants.

    tlc -workers 2 -config MCMultiroomOutput.cfg MCMultiroomOutput.tla
    tlc -workers 2 -config MCAirPlayGroup.cfg MCAirPlayGroup.tla
    tlapm MultiroomOutputProofs.tla
    tlapm RtspConnectionProofs.tla

Paths: *output* is `src/components/foo_out_multiroom_bridge/multiroom_output.cpp`,
*state* is `multiroom_component_state.cpp` beside it, *airplay* is
`src/transports/airplay/`, *core* is `src/components/foo_out_multiroom_bridge/core/`.
`PROJECT.json` maps every definition to its lines.

## The system

| Component | State it keeps | Operations |
|---|---|---|
| Output and render loop (*output*) | `pcm_queue_`, `in_flight_frames_`, `running_`, `paused_`, `flush_requested_`, `force_play_`, `stream_epoch_`, `worker_error_`, the render thread | `open`, `write`, `can_write_samples`, `get_latency_samples`, `on_flush`, `on_force_play`, `pause`, destructor (`stop_stream`), `render_loop` |
| Component state (*state*) | `cached_outputs_`, playback Open/Connecting, cancel flags, requests and in-progress flags of three workers, the label, volumes, metadata, the last error; the persisted selection and groups | playback setup, write, flush, stop, failure report; refresh worker; control worker; pairing worker; selection, groups, volumes; remote commands |
| Engine, clock, scheduler (`core/multiroom_engine.cpp`, `sync_clock.cpp`, `packet_scheduler.cpp`) | stream format, frame position, per-output offset | open, write, flush, stop; packets with an RTP time per receiver |
| AirPlay transport and sessions (`airplay_transport.cpp`, `airplay_session.cpp`) | one session per output (phase, open, format, queued packets), the cancel flag, the common time anchor | set enabled outputs, connect selected, write frames, flush, close |
| RTSP client and connection (`airplay_rtsp.cpp`) | connection per output, CSeq, ciphers, event and timing threads, feedback | open (handshake with a choice of encoding), requests, set volume, send audio, flush, close, cancel, pair |
| Discovery and registry (`airplay_discovery.cpp`, `core/output_registry.cpp`) | receivers by id, aliases; outputs with selection and volume | refresh, upsert with the merge of identities, list, select |
| Speaker groups (`core/speaker_groups.cpp`) | none (pure functions over persisted text) | serialize, parse, resolve a group against known outputs |
| Pairing and cryptography (`airplay2_*.cpp`) | credentials, session keys | SRP, HKDF, ChaCha20-Poly1305 |
| User interface, metadata (`preferences.cpp`, `speaker_*.cpp`, `playback_metadata.cpp`) | windows | call the component state |

**Interaction.** foobar's host thread calls the output; the output's render
thread calls the component state (`open_playback_stream`, `write_playback_pcm`,
`flush_playback`), which calls engine, transport, sessions and RTSP client under
`transport_mutex_`. The user interface runs on the main thread and starts the
refresh, control and pairing workers. A render thread that fails queues a
callback on the main thread, which stops foobar, which closes the output.
`mutex_` guards the cache and the flags; it is taken inside `transport_mutex_`,
never around it, and is not held across network calls.

**What is hard.** A seek (new *epoch*) at every point of the render loop; a stop
that has to wake a thread waiting, connecting or sending; failures that race
with stops and with the next stream; workers that copy state under one lock and
use it under another, during network calls that last seconds; a setup that is
cancelled half way; a selection made while it is being applied; a receiver that
fails while others of its group play; late RTSP answers; identities that change
as more services of a receiver are found, with records, lists and credentials
elsewhere that know the earlier ones.

**What makes each component correct.**

- *Output*: every packet belongs to the receivers' present timeline; between two
  flushes no frame is lost, repeated or reordered; the latency covers what is in
  flight; a returned stop leaves nothing running; every call returns; a flush, a
  forced tail and a failure get where they have to.
- *Component state*: discovery and sessions exclude each other; receivers are
  open for playback alone; the user's selection wins; the label tells the truth;
  no request is lost; a stop always gets the transport.
- *Engine, clock, scheduler*: all receivers play a frame at one common time, with
  their offsets, across flushes and for receivers that join later.
- *Sessions*: a session is ready only if its connection is open; one failing
  receiver does not take a healthy one with it; a stop closes all of them.
- *RTSP*: an answer is matched to its request; a cancelled handshake ends and
  leaves nothing open; the fallback encoding is tried.
- *Discovery, registry*: one entry per receiver whatever the order of discovery;
  no id in use disappears; what the user set for a receiver outlives its ids.
- *Groups*: what is applied is what is selected, as members appear late or under
  other ids; what is shown as current is selected; an edit keeps its members.
- *Pairing*: the last credentials of a receiver are found under all of its ids;
  the user interface gets on; a receiver paired during a stream joins it.

## Modules

| Module | Content |
|---|---|
| `PlaybackTimeline` | abstract specification: what an output promises about frames and epochs |
| `HostCalls` | abstract specification: the order of the calls from the output to the component state |
| `MultiroomOutput` | the output, its render loop and the failure callback |
| `MultiroomOutputProofs` | theorems about it, among them the refinements of `PlaybackTimeline` and `HostCalls` |
| `MCMultiroomOutput` | its instance for TLC |
| `ComponentState` | playback setup and stop, refresh worker, control worker, selection |
| `ComponentStateProofs` | theorems about it, among them that it is driven as `HostCalls` allows |
| `GroupPlayTime` | abstract specification: common play time of a group |
| `AirPlayGroup` | sessions, connections, clock and anchor of the group that plays |
| `AirPlayGroupProofs` | theorems about it, among them the refinement of `GroupPlayTime` |
| `RtspConnection` | one connection: handshake, workers, requests, cancel, close |
| `RtspConnectionProofs` | theorems about it |
| `OutputRecords` | stored records and ids with aliases, used by the next four |
| `ReceiverIdentity` | discovery: two browses, the merge of identities |
| `ReceiverIdentityProofs` | lemmas about records and about the merge, for every list of receivers |
| `ReceiverSettings` | a setting on its way through records, cache, registry and picker |
| `ReceiverSettingsProofs` | theorems about identities, the places that hold them, and choices |
| `SpeakerGroups` | groups, their editor and the selection |
| `SpeakerGroupsProofs` | theorems about it |
| `Pairing` | pairing worker, credentials, and the streams that need them |
| `PairingProofs` | theorem about it |
| `MC...` | the instances for TLC, one for each module with a run |

`ReceiverSettings`, `SpeakerGroups` and `Pairing` extend `ReceiverIdentity`, so each
of them runs composed with discovery. `AirPlayGroup` refines `GroupPlayTime`,
`MultiroomOutput` refines `PlaybackTimeline`, and both `MultiroomOutput` and
`ComponentState` refine `HostCalls`, the seam between them. The levels meet at calls: a call of the
component state is one or two steps of `MultiroomOutput`, the critical sections of
`ComponentState` and `AirPlayGroup` are those calls, and the handshake of a dial in
`AirPlayGroup` is the whole of `RtspConnection`.

### MultiroomOutput

Three threads. HOST runs the methods of the output one after another (`host` is
its place in `stop_stream` and `open`); RENDER runs `render_loop` (`render` is
its place); MAIN is the user and the failure callback. One action is one
critical section of `queue_mutex_` or one call of the component state; a network
call is two actions where the other threads can act during it. A variable has
the name of the member it stands for. A frame is a record of its epoch and its
position in the epoch; conversion of samples is left out. A packet is
`PacketFrames` frames, the buffer holds `Capacity`, one write offers `MaxWrite`.
`worker_error` stands for `worker_error_` and `failure_stop_requested_`, which
the code sets and clears together. Opening, flushing, sending and creating the
thread may fail at any time; `write_playback_pcm` returns quietly when playback
is closed, as in the code.

`accepted`, `timeline` and `delivered` are history: frames written in the
epoch, the epoch the receivers were last flushed to, frames handed over.
`PlaybackTimeline` has just these: accept, start an epoch, move the receivers to
it, take a packet of the next frames, deliver it, end. The refinement mapping is
the identity on the history, with `Live` for the receivers being open.

`HostCalls` is the other side of the output: prepare, start of the thread or failure
to start it, end of the thread, cancel, stop. `CallPhase` and `CallStream` map the
control points of host and render thread to it; a joined thread counts as over until
`stop_playback()` has returned.

Assumption about foobar: the user starts a playback only when the previous
output is closed and the host idle; calls of the host are sequential.

| Run | Shows |
|---|---|
| `multiroom_output` | `PacketOnItsTimeline`, `LatencyCoversUndelivered`, `StoppedMeansClosed`, `ProgressHasRenderer`, `OfferStillHolds` (room once reported can be written), and `ImplementsTimeline` over two streams; and, as liveness, `HostCallsEnd`, `FlushReachesReceivers`, `ForcedTailDrains`, `FailureStopsPlayback`. |

Bounds: packets of 2 frames, a buffer of 3 (so that a full packet, a partial
packet and a full buffer with a rest occur), writes of at most 2, 4 frames in an
epoch, 5 epochs. An epoch is spent by an open, a stop and a flush, so five allow
a stream with flushes and a second stream after it. No property depends on more
than the packet in the air, the packet after it and the flush between them.

Fairness: the render thread and the host are scheduled, and a component call
ends (sockets have timeouts; `cancel_pending_open` closes a socket that is
waited on): weak fairness of `Render`, of the rest of a call that the host has
begun, and of the close that foobar makes of a stopped output. The main thread
runs queued callbacks. Nothing is assumed about the user, about writes or about
failures.

### ComponentState

Five threads: HOST (prepare, start, cancel, stop), the render thread inside
`open_playback_stream` and after it (`setup`), the main thread (`user`), and the
`refresh` and `control` workers. One action is one critical section of `mutex_`.
`transport_mutex_` is held over several of them: its holders are the control
points `setup = "connecting"`, `refresh = "scanning"`, `control = "applying"`, and
`TransportFree` guards whatever takes it. `refresh # "none"` is
`refresh_in_progress_`, `control # "none"` is `control_in_progress_`. The locals
`setupLocals`, `controlLocals`, `refreshed` and `pending` are the copies that the
code makes under one lock and uses under another; most properties are about them.

A selection is a set of outputs. `cached` is the selection in `cached_outputs_`
and `known` whether that is filled; `stored` the persisted records; `enabled` the
selection in the registry; `sessions` the open receivers. Discovery finds nothing
or every output. A partial update (volume, metadata) changes no selection, and
only its request is modelled. A group none of whose members is known is stored
and searched for, as `activate_speaker_group` does.

History: `wanted` (a refresh the user waits for), `control_failed`, and `lost`,
who has published an older selection over the user's. Two publications in the code do
that, the one of the setup (finding 1) and the one of a scan, which finding 2 shows for
groups. `SelectionApplied` is about all other behaviours: it shows that the control
worker never does, and that nothing else goes wrong. A setup, an update or a scan may
fail half way with receivers open; of an update that fails, also by a volume that an
open receiver refuses, no label is kept.

Assumptions: the calls of the output come in the order of `HostCalls`, which
`MultiroomOutput` keeps to; the host opens a stream only after a queued failure callback
has run; a worker's `std::thread` is stored before the worker ends (a narrow race of
the code is listed in the hazards); closing receivers does not throw (the RTSP client
catches there). The second is about foobar, and `MultiroomOutput` does without it.
`ComponentState` needs it: with the conjunct `~failure_stop` of `HostOpen` left out, TLC
finds the stop of an old callback, which has found foobar stopped, in the middle of the
next setup. It takes down the flag of that setup's cancel (against `CancelVisible`) and
the announcement of playback, so that a scan enters the session (against
`ScanOnlyWithoutSessions`); `SessionsHavePlayback` holds nevertheless.

| Run | Shows |
|---|---|
| `component_state` | two receivers, one stream, two selections: `SelectionApplied`, `LabelNamesSessions`. |
| `component_state_live` | two streams, a refresh: `ScanOnlyWithoutSessions`, `SessionsHavePlayback`, `RefreshServed`, `UpdatesServed`, `StopEnds`. |
| `late_selection` | violated: `LateSelectionReconciled`. |

Bounds: two receivers are needed where a part of a group opens or is replaced;
two streams where a worker of the first overlaps the second; two selections where
the second is made while the first is applied. A worker that runs is repeated
without bound, since volume changes are not counted. Symmetry of the receivers is
used for the run of invariants with two of them only. The live run has one
receiver and no toggle; what it is about are requests, which
`ChangePartial` and the end of the setup make without bound.

Fairness: each thread is scheduled and its network operations end. Whether a
stream fails and what the user does is under no fairness; a render loop that is
told to stop ends (`MultiroomOutput` shows that it does). `transport_mutex_` is fair
to no thread: `HostStops` is only weakly fair, so `StopEnds` says that setup, scans and
updates leave the lock for good once a stop is under way. It holds because nobody
starts a scan while playback is announced, a cancelled setup unwinds, and full updates
stem from selections (bounded) and the setup alone. The short hold of the lock by a
metadata update is left out: a stop waits for at most the one under way.

### AirPlayGroup and GroupPlayTime

The AirPlay side of one playback after another: the registry's selection, a session
per output (`phase`, `open`, `rtsp_session_id`), the client's map of connections
(`connection` holds the session id the connection is in, 0 for none), the engine's
clock (`frame_cursor`), and the group's timing anchor against the one each connection
took with its first packet. `op` is the critical section of `transport_mutex_` that is
under way; `who` began it: the setup of a playback, or a control update that connects
or does not. Beside it run the host's cancel, which takes no lock (`canceller` is its
place: the manager's flag, the client's flag, the collection of pending connections),
and one volume request that has read its session and is not yet sent. Opening,
the first volume, flushing and sending may fail at any receiver; a block that fails
at one has reached some of the group. `played` and `heard` are history: the last
packet a connection sent with the sender's time at which it is played, and the session
that last heard a volume.

`GroupPlayTime` is what a group promises: a *line* (the sender's time of frame 0) that
everybody is told who plays, and that changes only when nobody is left on it. The
mapping takes the anchor for the line and, as told, the ready receivers whose
connection has sent its sync packet.

| Run | Shows |
|---|---|
| `group_stream` | `ReadyHasConnection`, `PlayedTogether`, `CancelHeard`, `VolumeOnItsSession`, `ReadyStays` and the refinement `CommonPlayTime`. |
| `stale_sessions` | violated: `StopLeavesNoConnection`. |

Bounds: two receivers of different offset, -1 and 0 frames, so that a negative
timestamp is clamped; two streams; three sessions in all (a receiver joins, fails and
joins again); two blocks before a flush; one tick of the clock. Three sessions are
what a stale id needs: one that is read, one that replaces it, one of the other
receiver. `PlayedTogether` leaves out frames whose time on a receiver was clamped to 0.

### RtspConnection

One connection from `open()` to its destructor. `step` is where the opening thread is,
in the loops over addresses, the requests of the handshake, or the steps of `close()`.
`cancel_pc` is the place of each caller of `cancel()`, the host and `close()` itself;
sockets are numbers in the order of creation, with `sockets` telling which are open.
The event worker receives, answers and hands on; the timing worker looks at its flag.
Once `step = "ready"`, two threads have requests: the session manager's calls one
after another, and volumes beside them, kept apart by `request_mutex`. The receiver
answers in order (`unanswered`, `inbox`); a request may time out with its answer still
to come. What a request says is left out; what is kept is whether it is sent,
answered, refused or in vain.

| Run | Shows |
|---|---|
| `rtsp_connection` | `SocketsOwned`, `ReadyIsRecording`, `CancelStopsHandshake`, `AnswersInStep`, and as liveness `ConnectionEnds`. |
| `encoding_fallback` | violated: `RetryNotCancelled`. |

A name that does not resolve ends `open()`, also that of the event channel; an address
for which no socket can be made counts as one that is left out, so that each loop may
end before its addresses do.

Bounds: a name of one address, tried in both rounds of the loop, so that an attempt is
dropped and followed by another; three requests, enough for two of one thread around
one of the other; one command on the event channel. Socket numbers are never used
again: what a worker would do with a number that has been given to another connection
(airplay_rtsp.cpp:2011) is not covered.

Fairness: every step of the opening thread, of a cancel, a close, a request and a
worker is one the system ends by itself: connect, send and receive have timeouts
(`configure_socket_timeouts`), the timing worker waits half a second. Nothing is
assumed about the receiver or the host. One abstraction to know: the timeout is one of
each receive, and a receiver that sends a byte at a time could prolong a read beyond
it; a `Reads` or `ReadFails` is taken to come in the end.

### OutputRecords and ReceiverIdentity

`OutputRecords` has the stored records, how a record is found for an output with
aliases, and how it is written. The ids of the file are unique (both writers look for an
id before they add it), so the file is a function from ids to settings; its order, which
decides which of several records of an output counts, is kept as the set of ids that
stand before each (`before`). `ReceiverIdentity`
is `AirPlayDiscovery`. A *service* is what a receiver announces; a *scan* is two
browses, `Resolutions` of DNS-SD and `Answers` of multicast DNS, each of which may
hear any part of it: nothing, a service without its TXT record (it then goes by its
bare name), with or without an address. Within a scan, devices with one id are merged;
the result is merged entry by entry, in any order, into `devices`, where an entry of
another id with the same name at the same host is the same receiver. Entries are never
removed. An id is a number in the order of `std::map`; `Rank` is the strength of the
identity.

Abstractions: names tell receivers apart (two receivers of one name at one host are
one for the code too); a receiver keeps its addresses; the rounds of address queries
collapse to which record arrived; both browses come to the services in the order of
`Service`; aliases are a set, so that `load_pairing_credentials` may meet them in any
order.

### ReceiverSettings

Selection, volume and visibility are set, stored and looked up together: one Boolean,
`on`, stands for them. It is in four places, each under the id it knew: `stored`,
`cached`, `registry`, and the copies of the two workers. A setter changes the cache
and stores its copy afterwards (`unsaved` between the two). The picker's rows, and a
thumb that is held while rows change, are the user's end; a click on a row whose id was
replaced toggles nothing and asks for an update. The transport enters the devices in
the order of their ids, and a new one takes the setting of an alias that the registry
has by then (`Existing`).

| Run | Shows |
|---|---|
| `receiver_settings` | `NoTwins`, `KnownIdsResolve`, `ChoiceKept`. |

Bounds: one receiver of two services and three ids (two of them strong, one bare), two
scans, two changes, a restart; endpoints none, a host name, an IPv4 address (an IPv6
address differs from these in nothing but its place in `AddressesApplied`; with it the
state space is three times as large and no longer fits a short run). `ChoiceKept`
forgets a choice where the code is known to lose it: while the receiver is listed
twice, when the choice falls between a scan's reading of the records and its
publication, when an older record stands under an id that nothing links, or when a
control update publishes an id that a scan has replaced. It watches the ways a choice
takes through records, cache and registry otherwise; the second of these exceptions is
what `group_overtaken` finds violated for groups. Two names would add nothing:
entries of different names never meet.

### SpeakerGroups

The file of groups, activation, the display of the current group, and the editor of
the preferences page, whose rows are kept over a change of the outputs. All of it but
the refresh is on the main thread. A refresh goes step by step (`RefreshBrowses`,
`RefreshMerges` for each entry, `RefreshLists`, which reads the records, `RefreshStores`
for each record, `RefreshPublishes`), and so does a change: a group is activated or an
output toggled in the cache (`known` is what the change left there), the records of the
outputs that changed follow one by one (`writing`, `ChangeStores`), and an activation
ends with the records of all members, of those too that are not discovered
(`ActivationEnds`). The two interleave at any point: `activate_speaker_group()` takes
`mutex_` and the lock of the records, a refresh only each of the two where it needs it.
The main thread is serial with itself alone (`AtRest`).

A list read before a change and published after it puts the old selection back: finding
2. History says where: `late` has the receivers changed since the list was read,
`outdated` those with which such a list was published, or a record of it stored. What is
promised of the others is promised at every moment; `outdated` becomes
`late` with the next publication and is emptied by the next activation. `meant` is what the user left checked, as
receivers; `applied` the group last applied, with the receivers (`doubt`) about which
nothing can be promised: those whose ids in records or group nothing links, and those
whose record was overwritten by an overtaken refresh.

Abstractions: the members of a group are a set; their order decides in which order
new records are added and nothing else, and it is left open (`Orders`). A row
of the editor is an id with its check box. The groups of the file have ids of their own,
as `deserialize_speaker_groups()` drops the second of two. `ActiveGroupTruthful` leaves
out a receiver with several records or in the list twice (`Several`), where the records
of one receiver may disagree, and the moments in which a change or the records of a
refresh are half written. `AppliedGroupShown` is about the end of an activation, unless
a list published during it links the ids otherwise. Of the editor's signature
(preferences.cpp:95) the name is left out, which no row depends on.

| Run | Shows |
|---|---|
| `speaker_groups` | `AppliedGroupSelected`, `ActiveGroupTruthful`, `AppliedGroupShown`, `EditKept`. |
| `group_overtaken` | violated: `GroupReplacesSelection`. |

Bounds: two receivers, one of two services; two groups in the file and one more that
may be created; two refreshes, two changes of the selection, two clicks in the editor
and a restart, three of these five in one behaviour: 2.5 million states. `Coarse` in
`MCSpeakerGroups` further keeps TLC from orders that lead to the same states (while the
worker scans and merges it neither reads nor writes what the main thread does) and from
mixing two questions (the editor is used before the first change, with the worker idle;
a refresh does not begin in the middle of a change). All orders of a change and the
reading, storing and publishing of a refresh remain. The theorems hold for the
specification itself, without `Coarse` and without the bounds. A volume
set for a member that is waiting to be discovered ends the promise of
`AppliedGroupSelected`, because the code writes the cache's selection with it
(*state*:1144; the comment at *state*:1089 wants the member to stay queued).

### Pairing

`pair_output()` on the main thread (`calling` is between its check and the start of
the worker), the pairing worker, the stores of credentials, and the scans, streams and
updates that share the transport with it. `transport_mutex_` is held by the worker for
the whole handshake (`Free`), by a scan until all of its result is merged, and by the
setup or the control worker while it tries one output after another (`transport`,
`untried`, `Opens`); a stop is one step. Credentials are numbers, and `trusted` says
which ones a receiver accepts; the last message of the pairing may be lost after the
receiver has accepted. `store` (the file) and `memory` map ids to credentials: ids are
unique in both and the order of the file is never used. `Loaded` is a set because the
aliases of an output are one: several of them may have records. Scans change ids, the
receiver may be reset, foobar2000 restarted. History: the credentials of each
receiver's last pairing, the ids that were paired or played under with them, and who
is due to join the stream.

| Run | Shows |
|---|---|
| `pairing` | `PairedReconnects`; as liveness `PairingEnds`, `PairedJoins`. |

Bounds: one receiver of two services and three ids that needs pairing, two pairings,
three scans (two ids linked, and another after the restart), a reset, a restart.
`PairedReconnects` leaves out an id that discovery has
linked and under which the receiver has not played since, when credentials of an
earlier pairing are still stored under another of its ids: the code takes whichever
record comes first.

Fairness: the pairing worker, a call under way, scan, setup and control worker run to
their end; each request of the handshake has a timeout. A worker that waits for the
transport gets it although streams are started and stopped for ever (strong fairness of
`Resolves`): between two of them the lock is free while nobody clicks. The user
interface does wait for the whole of a pairing in one case, see *Hazards without a
property*.

## Findings

1. `late_selection` (*state*:1303). The setup copies the cache, connects for up to
   seconds, and then publishes the selection of its copy. A speaker toggled
   meanwhile is toggled back in the cache, though not in the configuration, and the
   update scheduled at the end applies the old selection. The comment there says the
   update is to reconcile just such callbacks. The control worker avoids this with
   `preserve_user_output_state(outputs_snapshot, cached_outputs_)`.
2. `group_overtaken` (*state*:560). The refresh worker applies the stored records to its
   list (line 547) and publishes the list under another lock (line 560). A group
   activated in between changes cache and records; the list then puts the selection of
   before back into the cache, while the records, and `active_speaker_group_id()`, have
   the group. It stays so until the next refresh or change, and a control update that
   copies the cache in this state sends the old selection to the receivers.
   `docs/UI_AUDIT.md:25` says that applying a group "replaces the selected set
   atomically".
3. `stale_sessions` (airplay_session.cpp:141). A receiver that opens and then refuses
   its first volume is marked failed and loses its session id, so no stop, update or
   selection closes its connection: `docs/ROADMAP.md:37` says that a stop leaves no
   stale session behind. The next open of this receiver replaces the connection.
4. `encoding_fallback` (airplay_rtsp.cpp:1281). The second attempt, with PCM, is made
   on a connection that the first one has closed, and so cancelled: it fails before it
   dials. `README.md:53` promises ALAC or PCM as the receiver takes it.

## Hazards without a property

PROJECT.json lists the hazards with the properties that watch them. These have none.

- *state*:560: a scan releases the transport before it publishes, so that a setup can
  open a session in between and the older list replaces its cache (the comment at
  *state*:500 wants no scan in an active session). `ComponentState` has it, as
  `"refresh" \in lost`; the same publication is finding 2.
- *state*:1436: the stop queued by a failure may stop a newer, healthy stream. The
  model has it (`FailureStopsHost`); nothing says that it cannot happen.
- *state*:906: the second `pair_output()` in a row clears the flag of the pairing
  under way, and a third blocks the user interface until that pairing is over
  (`docs/UI_AUDIT.md:23` wants network work off its callbacks). `PairingEnds` says
  only that it does get over.
- *state*:1144 and *state*:1123: volume and visibility of a queued group member
  deselect it (`docs/UI_AUDIT.md:17`: "selection and playback state are unchanged").
- airplay_discovery.cpp:526: a lost TXT record makes a known receiver unsupported.
- *state*:780: master volume applied twice to an output without a record.
- *state*:433: remote commands without an id, or more than 64 later, act once per receiver.
- *state*:518, 668: a worker's `std::thread` is stored after it may have ended.
- *state*:1386: the stop of a failure callback resets cancel flags of a later setup
  (excluded by an assumption about foobar; see `ComponentState`).
- airplay_rtsp.cpp:2011: a socket number reused while the event worker waits on it.
- airplay_session.cpp:251: the record of queued packets grows until a flush.
- airplay_discovery.cpp:739, 773: contexts of a browse live on the stack of a call
  that may give up waiting for the callback that uses them.
- speaker_toolbar.cpp:106: the dropdown selects by index into a list read again at
  the click.

## Proofs

For every packet size, buffer size, set of receivers, offset, number of addresses and
ids, and for every bound, from the named assumptions on the constants alone
(`SizesAssumption`, `BoundsAssumption`, `GroupAssumption`, `ConnectionAssumption`;
where identities are concerned `IdAssumption`, that ids are ordered as in a `std::map`,
`NameAssumption`, that each service and id is of one receiver, and for
groups `GroupsAssumption`, that the file of groups is one that can be read). No property is inductive as it stands; what each
invariant adds is the reason why it holds. TLC has checked every added conjunct on the
instance of the module before it was proved.

**MultiroomOutput** (`TypeCorrect`, `TimelineCorrect`, `LatencyCorrect`,
`StopCorrect`, `ProgressCorrect`, `OfferCorrect`, `OutputImplementsTimeline`,
`OutputCallsInOrder`). A packet
is right when it is sent because of what was true when it was popped. `Inv` adds
`ControlInv`, how the control points of host and render thread go together and where
receivers are closed, and `TimelineInv`: the queue holds the newest frames of the
epoch, frames popped, in hand and delivered add up, and while the epoch in the render
thread's hand is behind, a flush or a stop is pending. From `Inv`, each step of the
output is a step of `PlaybackTimeline` or leaves its variables alone. An offer still
holds at the write because only the host itself adds frames (`OfferStep`). That each
step is a call of `HostCalls` or none (`CallsStep`) needs of the invariant how host and
render thread go together (`HostPhases`): a stop that finds a thread to join always
goes on to `stop_playback()`, and one that finds none has nothing to stop.

**ComponentState**, the lifecycle (`TypeCorrect`, `SessionsCorrect`, `ScanCorrect`,
`CancelVisibleCorrect`, `AnnouncementCorrect`, `LifecycleFollowsCalls`). `Inv` adds `Exclusive` (one holder of `transport_mutex_`),
`Phases` (Connecting lasts for the handshake, Open from then to the next stop; a
worker that connects does so while playback is open, which holds because both ways to
end playback need the lock it holds) and `FoundFirst` (nothing is cached, copied or
selected that was not discovered, which the type invariant's last conjunct rests on).
That no scan enters a session follows from the recheck in `RefreshBegins`: playback
inactive means no session, and a session can only be opened with the lock that the
scan then holds. A cancel stays visible because a queued failure belongs to a setup
that is over. `LifecycleFollowsCalls` says that the module asks the output for no call
but those of `HostCalls`; with `OutputCallsInOrder` both sides of the seam are proved
against one specification.

**ComponentState**, the selection (`SelectionCorrect`, `LabelCorrect`). Both are about
moments of rest; `SelectionInv` says what holds between them. While a stream plays,
the cache is the user's wish (`CacheFollows`), and unless a full update is *due* -
requested, or about to be by the setup or by the handler of a click - the update under
way has copied the cache or the registry already has it (`UpdateFollows`). Due-ness is
lost in one step only, when the worker takes the requests and, in the same critical
section, copies the cache. `DiscoverySettled` has the reason why the handshake's copy
and the cache agree on what is known: no scan runs from there on. For the label
(`LabelFollows`): in a steady stream each update under way connects, and no session
changes between its reading of the names and their publication; a failed one leaves a
label that names no closed receiver. Open receivers are among the enabled ones (`SessionsEnabled`) except
while a stop has cancelled an update.

**AirPlayGroup** (`TypeCorrect`, `ConnectionCorrect`, `PlayedTogetherCorrect`,
`CancelCorrect`, `VolumeCorrect`, `ReadyStaysCorrect`, `GroupKeepsPlayTime`). Two
receivers play together because each plays from the anchor its connection took
(`PlayedFromAnchor`) and every anchor taken is the group's (`OneAnchor`); this survives
the drop of the anchor because only ready sessions have taken one, and those are
closed or flushed with it. `Sessions` and `Phases` say who is ready while an update is
half way: the output that is dialled is not, the one whose first volume is under way
is and has sent nothing. `CancelMarks` covers the three orders of registration, flag
and collection. The same invariant makes every step one of `GroupPlayTime` (`GroupStep`):
somebody starts the line, joins it, leaves it, or it ends with nobody on it.

**RtspConnection** (`TypeCorrect`, `SocketsCorrect`, `RecordingCorrect`,
`AnswersCorrect`, `CancelCorrect`, `RetryNeverDials`). Sockets: a handle that is set is
the only one of an open socket (`HandlesOpen`), and an open socket has its handle where
a cancel or the close finds it, or is in the opener's hand on the way there
(`OpenHaveHandles`); `HandlesEmpty` says where no handle can be set, so that storing
one loses none. A handshake may store a socket after a cancel has swept: the socket is
then closed by the drop of the attempt or by the close, which `HandlesEmpty` shows to
come after the last store. Recording: `RecordOwed` follows the answer to the early
RECORD to the late one, and `WorkersJoined` the timing worker to its join. Answers:
those due or arrived are those of the last requests, in order, at most one for each
timeout and one for the request under way (`AnswersDue`), so what a request reads is at
most as old as timeouts allow. Cancel: from the sweep of the control socket on there
is no handle to ask by (`CancelCloses`). `RetryNeverDials` is the finding of
`encoding_fallback` as a theorem: whoever retries finds its own cancel and unwinds, for
any number of addresses.

**ReceiverSettings** and the merge (`NoTwinsCorrect`, `KnownIdsCorrect`). Where nobody
is listed twice, the first twin that `upsert_discovered_identity()` finds is the only
one (`OnlyTwin`): whether the entry or the alias is made, no twin is left
(`MergeNoTwins`), the names of aliases agree (`MergeNames`) and no id gets lost
(`MergeKeepsIds`). Every place that holds ids was filled from discovery's list or from
another place, and a restart, the one step at which discovery forgets ids, finds the
workers' lists empty (`NothingListed`, `NothingTaken`). These proofs use nothing of
what a scan finds.

**ReceiverSettings**, the choice (`ChoiceCorrect`), with the exceptions named above. As long as a choice is expected to
last, every record of the receiver agrees with it (`RecordsRight`), so that it does not
matter which of them `apply_stored_output_state()` finds; so do the cache and the list
of a scan under each id they have (`CacheRight`, `ListRight`), which hold the receiver
once (`ListedOnce`). The record of a change follows the cache, and a held thumb precedes
it: `Waiting` and `Dragged` except the receiver until then, and `HandRight` says that
what is on its way is what was chosen. The snapshot of a control update needs no
invariant at all: its settings never reach the cache, since
`preserve_user_output_state()` replaces them. `HasFirst`, that of any records one stands
before the others, is the order of the file without an induction over it.

**Pairing** (`ReconnectCorrect`). Every id that a receiver was used under has the
credentials of its last pairing in the file (`UsedStored`): a pairing forgets the other
ids of the receiver it was made for, and a connect under a new id stores again what it
found under an alias. This needs `MemoryStored`, that the map in memory is never ahead
of the file, for otherwise credentials found in the map alone would be lost by a
restart. With `MergeNames` all ids linked to one entry are of one receiver, so that no
credentials of another are found.

**SpeakerGroups** (`AppliedCorrect`, `ActiveCorrect`, `EditCorrect`, `ShownCorrect`).
A group, the records and the list hold ids of different times. For every receiver not
in doubt, all its records say whether it is a member (`RecordsAgree`), and so do the
cache and the list of a refresh, as far as it can be selected there (`ListAgrees`):
it does not matter which record `apply_stored_output_state()` finds, nor under which
id. `ChangeInv` has what a change leaves in the cache until its records are written: the
cache is still that, or a list came too late for every receiver whose record is to
follow; and a list read in the middle of a change is late for these from the start. The
theorems except the receivers for which a list came too late (`outdated`) and those whose
record such a list overwrote (in `doubt`): there the code does lose the group. The group
shown as current is computed from the records but is a claim about the cache; `TruthInv`
relates the two: an output on its way to the cache agrees with the record under its own
id, or is about to be stored there, or has no record and is not selected (`ListStored`);
a receiver of one entry and one record is then selected in the cache only if its record
is, and does not miss it once available (`CacheStored`).
Comparisons never leave a receiver (`SameName`, `ContainedName`, `MatchNames`), so that a
group that matches names exactly the receivers selected; this makes `ShownCorrect` hold
whatever is in doubt. It supposes that the cache links ids as it did when the activation
began, which is all that comparisons look at (`SameLinks`). `EditInv` needs of the outputs only that the aliases of one are of
one receiver: populating the rows then keeps the receivers checked (`RowsNamed`).

**Proved only.** `CallsInOrder`, `FollowsCalls`, `CancelVisible`, `PlaybackAnnounced` and
`RetryNeverDials` are in no configuration kept here; TLC agreed with each of them on the
instance of its module before it was proved.

**Model-checked only.** Everything under fairness: `HostCallsEnd`, `FlushReachesReceivers`,
`ForcedTailDrains`, `FailureStopsPlayback`, `RefreshServed`, `UpdatesServed`,
`StopEnds`, `ConnectionEnds`, `PairingEnds`, `PairedJoins`; liveness and ENABLED are
out of the prover's reach. The type invariants of the modules that run discovery are
neither proved (they depend on what folding the answers of a browse computes, which
takes induction over data) nor part of a configuration kept here; the proofs of these
modules use the parts of them that they state themselves.

## Plan

1. The stop of a failure as a call of `HostCalls`, so that the assumption about foobar's
   callbacks becomes a part of the specification.
2. Volumes (master times speaker, through registry and cache) and remote commands
   (duplicates over a group).

## Not modelled

Metadata reading and drawing (Windows handlers that draw state and call the methods
modelled), cryptography (arithmetic beyond enumeration), HEOS (a README without code),
probes and tests, build files, wire formats of plist, SDP, DNS, RTP and ALAC, text
formats of the configuration, logging. Of the component state: volumes as numbers,
the contents of metadata, remote commands, and the order of the shutdown, which joins
the workers one after another once nothing can start them. Of the sessions: metadata
and the record of queued packets. Of the RTSP client: what requests say, feedback, the
loopback client. Of the user interface: the toolbar's dropdown, layout, painting.
