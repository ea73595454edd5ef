-------------------------- MODULE ReceiverSettings --------------------------
(***************************************************************************)
(* What the user set for a receiver, on its way through the four places    *)
(* that keep it: the record stored in foobar's configuration, the cache of *)
(* the component state, the transport's registry, and the speaker picker.  *)
(* Each of them knows a receiver by an id, and discovery may replace that  *)
(* id by a stronger one at any scan, or by a weaker one after a restart.   *)
(*                                                                         *)
(* Threads: the main thread (the picker's handlers; a change is made in    *)
(* the cache, then stored), the refresh worker (scan, list, apply the      *)
(* stored records, publish) and the control worker (snapshot, apply to the *)
(* registry and list, publish).  The two workers' middle steps hold        *)
(* transport_mutex_; the stored records have a lock of their own.          *)
(*                                                                         *)
(* Selection, volume and visibility travel together in one record: one     *)
(* Boolean stands for the three.  The master volume is not modelled, nor   *)
(* is playback, during which no scan runs (see ComponentState).            *)
(***************************************************************************)
EXTENDS ReceiverIdentity

CONSTANTS
    MaxScans,       \* bound: scans
    MaxChanges,     \* bound: settings the user changes
    MaxRestarts     \* bound: restarts of foobar2000

ASSUME SettingsAssumption ==
    /\ MaxScans \in Nat /\ MaxChanges \in Nat /\ MaxRestarts \in Nat

VARIABLES
    registry,       \* OutputRegistry: which outputs it has, and the setting of each
    stored,         \* cfg_airplay_output_state: the file of records
    cached,         \* cached_outputs_
    refresh, listed, migrating,     \* the refresh worker and its locals
    requested,      \* control_full_update_requested_
    control, snapshot,              \* the control worker and its local
    rows, drag,     \* the picker: its enabled rows, the thumb that is held
    unsaved,        \* a change made in the cache and not yet stored
    chosen,         \* history: what the user last set for a receiver, under which
                    \*   id; None once that is known to be lost
    scans, changes, restarts

scanVars == <<devices, found, registry>>
refreshVars == <<refresh, listed, migrating>>
controlVars == <<requested, control, snapshot>>
pickerVars == <<rows, drag>>
boundVars == <<scans, changes, restarts>>
vars == <<scanVars, stored, cached, refreshVars, controlVars, pickerVars,
          unsaved, chosen, boundVars>>

\* The files of records, the settings of one output each.
OutputStates == UNION {[ids -> [on : BOOLEAN, before : SUBSET ids]] : ids \in SUBSET Id}

NoSettings == [i \in {} |-> FALSE]
None == [id |-> "none"]
NoOutputs == [i \in {} |-> [on |-> FALSE, aliases |-> {}]]

-----------------------------------------------------------------------------
\* The registry of the transport follows the entries each time the transport
\* synchronises it; callers may go on using an id that is only an alias by then.

\* sync_discovered_outputs() enters the devices in the order of their ids.  One
\* that is new takes the setting of an alias that the registry has at that point,
\* of which the first in the order of its aliases, any of them here.
Existing(i) ==
    devices[i].aliases \cap (DOMAIN registry \cup {j \in DOMAIN devices : j < i})

\* What the registry may have in the end: no other output is retained.
Synced ==
    {settings \in [DOMAIN devices -> BOOLEAN] :
        \A i \in DOMAIN devices :
            \/ i \in DOMAIN registry /\ settings[i] = registry[i]
            \/ i \notin DOMAIN registry /\ Existing(i) = {} /\ ~settings[i]
            \/ /\ i \notin DOMAIN registry
               /\ \E j \in Existing(i) :
                     settings[i] = IF j \in DOMAIN registry THEN registry[j]
                                   ELSE settings[j]}

\* set_enabled_outputs(), which throws for an id that resolves to no output.
Enabled(ids) == [e \in DOMAIN devices |-> e \in Resolved(ids)]

-----------------------------------------------------------------------------
\* The lists of outputs.

\* preserve_user_output_state(): the first previous output under one of the ids.
Preserved(outputs, previous) ==
    [i \in DOMAIN outputs |->
        LET known == Ids(i, outputs[i]) \cap DOMAIN previous
        IN  IF known = {} THEN outputs[i]
            ELSE [outputs[i] EXCEPT !.on = previous[First(known)].on]]

\* list_outputs() of a registry that has just been synchronised.
Listed(settings) ==
    [i \in DOMAIN devices |-> [on |-> settings[i], modern |-> devices[i].modern,
                               playable |-> devices[i].modern /\ HasEndpoint(devices[i]),
                               aliases |-> devices[i].aliases]]

-----------------------------------------------------------------------------
\* History.  A setting is no longer expected where the code may lose it: the
\* receiver is listed under two ids at once, or it changes between the moment a
\* scan reads the records and the moment it publishes them, or an older record
\* remains under an id that is not linked to this one, or an update publishes an
\* id that a scan replaced after the update had listed it.

ListedTwice(ids) == {n \in Name : \E i, j \in ids : i # j /\ NameOf[i] = n /\ NameOf[j] = n}
RecordsRead == refresh \in {"apply", "publish"}
Risky(i) == RecordsRead \/ NameOf[i] \in ListedTwice(DOMAIN devices) \cup ListedTwice(DOMAIN cached)
Unlinked(i, output) ==
    \E k \in DOMAIN stored : NameOf[k] = NameOf[i] /\ k \notin Ids(i, output)
Forgetting(names) == [n \in Name |-> IF n \in names THEN None ELSE chosen[n]]
Unsaved == IF unsaved = None THEN {} ELSE {NameOf[unsaved.id]}
Outdated == {NameOf[i] : i \in DOMAIN snapshot \ DOMAIN cached}

-----------------------------------------------------------------------------
\* The refresh worker.

RefreshStarts ==
    /\ refresh = "idle"
    /\ scans < MaxScans
    /\ scans' = scans + 1
    /\ refresh' = "browse"
    /\ UNCHANGED <<scanVars, stored, cached, listed, migrating, controlVars,
                   pickerVars, unsaved, chosen, changes, restarts>>

RefreshBrowses ==
    /\ refresh = "browse"
    /\ Browse
    /\ refresh' = "merge"
    /\ UNCHANGED <<devices, registry, stored, cached, listed, migrating,
                   controlVars, pickerVars, unsaved, chosen, boundVars>>

\* Neither browse had a result: the cache stays as it was.
RefreshFails ==
    /\ refresh = "browse"
    /\ refresh' = "idle"
    /\ UNCHANGED <<scanVars, stored, cached, listed, migrating, controlVars,
                   pickerVars, unsaved, chosen, boundVars>>

RefreshMerges ==
    /\ refresh = "merge"
    /\ Merge
    /\ chosen' = Forgetting(ListedTwice(DOMAIN devices'))
    /\ UNCHANGED <<registry, stored, cached, refreshVars, controlVars,
                   pickerVars, unsaved, boundVars>>

\* list_outputs(), then the first half of apply_stored_output_state(): the
\* records as they are now are the outputs' settings.
RefreshLists ==
    /\ refresh = "merge"
    /\ DOMAIN found = {}
    /\ registry' \in Synced
    /\ LET outputs == Listed(registry')
       IN  /\ listed' = [i \in DOMAIN devices |-> Applied(stored, i, outputs[i])]
           /\ migrating' = Misfiled(stored, outputs)
           /\ chosen' = Forgetting(
                            {NameOf[i] : i \in {j \in DOMAIN devices : Unlinked(j, outputs[j])}}
                            \cup Unsaved)
    /\ refresh' = "apply"
    /\ UNCHANGED <<devices, found, stored, cached, controlVars,
                   pickerVars, unsaved, boundVars>>

\* A setting found under an alias is stored under the output's id.
RefreshMigrates ==
    /\ refresh = "apply"
    /\ \E i \in Firsts(migrating) :
        /\ stored' = WithRecord(stored, i, listed[i])
        /\ migrating' = migrating \ {i}
    /\ UNCHANGED <<scanVars, cached, refresh, listed, controlVars, pickerVars,
                   unsaved, chosen, boundVars>>

RefreshLeaves ==
    /\ refresh = "apply"
    /\ migrating = {}
    /\ refresh' = "publish"
    /\ UNCHANGED <<scanVars, stored, cached, listed, migrating, controlVars,
                   pickerVars, unsaved, chosen, boundVars>>

RefreshPublishes ==
    /\ refresh = "publish"
    /\ cached' = listed
    /\ listed' = NoOutputs
    /\ refresh' = "idle"
    /\ UNCHANGED <<scanVars, stored, migrating, controlVars, pickerVars,
                   unsaved, chosen, boundVars>>

Refresh ==
    \/ RefreshStarts \/ RefreshBrowses \/ RefreshFails \/ RefreshMerges
    \/ RefreshLists \/ RefreshMigrates \/ RefreshLeaves \/ RefreshPublishes

-----------------------------------------------------------------------------
\* The control worker.

ControlSnapshots ==
    /\ control = "idle" /\ requested
    /\ requested' = FALSE
    /\ control' = "apply"
    /\ snapshot' = cached
    /\ UNCHANGED <<scanVars, stored, cached, refreshVars, pickerVars, unsaved,
                   chosen, boundVars>>

Selected(outputs) == {i \in DOMAIN outputs : outputs[i].on}

\* Under transport_mutex_, which a scan that has begun to browse holds until
\* its records are applied.
\* set_enabled_outputs() and set_output_volume() resolve the snapshot's ids.
ControlApplies ==
    /\ control = "apply"
    /\ refresh \in {"idle", "browse", "publish"}
    /\ registry' = Enabled(Selected(snapshot))
    /\ snapshot' = Preserved(Listed(registry'), snapshot)
    /\ control' = "publish"
    /\ UNCHANGED <<devices, found, stored, cached, refreshVars, requested,
                   pickerVars, unsaved, chosen, boundVars>>

\* Mutant: the list replaces the cache with the settings of the snapshot.
ControlPublishesSnapshot ==
    /\ control = "publish"
    /\ cached' = snapshot
    /\ snapshot' = NoOutputs
    /\ control' = "idle"
    /\ chosen' = Forgetting(Outdated)
    /\ UNCHANGED <<scanVars, stored, refreshVars, requested, pickerVars,
                   unsaved, boundVars>>

ControlPublishes ==
    /\ control = "publish"
    /\ cached' = Preserved(snapshot, cached)
    /\ snapshot' = NoOutputs
    /\ control' = "idle"
    /\ chosen' = Forgetting(Outdated)
    /\ UNCHANGED <<scanVars, stored, refreshVars, requested, pickerVars, unsaved,
                   boundVars>>

Control == ControlSnapshots \/ ControlApplies \/ ControlPublishes

-----------------------------------------------------------------------------
\* The main thread: the picker and the setters it calls.

Idle == unsaved = None

\* The rows whose controls are enabled.
Playable == {i \in DOMAIN cached : cached[i].playable}

PickerReads ==
    /\ Idle /\ drag = None
    /\ rows # Playable
    /\ rows' = Playable
    /\ UNCHANGED <<scanVars, stored, cached, refreshVars, controlVars, drag,
                   unsaved, chosen, boundVars>>

\* What the user means to set.
Chooses(i, on) ==
    /\ changes < MaxChanges
    /\ changes' = changes + 1
    /\ chosen' = [chosen EXCEPT ![NameOf[i]] =
                     IF Risky(i) THEN None ELSE [id |-> i, on |-> on]]

\* A setter finds the output by id in the cache, changes it there and keeps a
\* copy of it to store.  A full update of the control worker follows a new
\* selection; a new volume goes straight to the session.
Sets(i, on, full) ==
    /\ cached' = [cached EXCEPT ![i].on = on]
    /\ unsaved' = [id |-> i, on |-> on, aliases |-> cached[i].aliases,
                 full |-> full]

\* A click calls toggle_output(), which refuses an output without AirPlay 2.
Clicks(i) ==
    /\ Idle /\ drag = None
    /\ i \in rows \cap DOMAIN cached
    /\ cached[i].modern
    /\ Chooses(i, ~cached[i].on)
    /\ Sets(i, ~cached[i].on, TRUE)
    /\ rows' = Playable
    /\ UNCHANGED <<scanVars, stored, refreshVars, controlVars, drag, scans,
                   restarts>>

\* The output was replaced by a stronger identity in the meantime: nothing is
\* toggled, and an update follows all the same.
ClicksInVain(i) ==
    /\ Idle /\ drag = None
    /\ i \in rows \ DOMAIN cached
    /\ requested' = TRUE
    /\ rows' = Playable
    /\ UNCHANGED <<scanVars, stored, cached, refreshVars, control, snapshot, drag,
                   unsaved, chosen, boundVars>>

\* While a thumb is held the timer leaves the picker alone; releasing it calls
\* set_output_volume().
Grabs(i) ==
    /\ Idle /\ drag = None
    /\ i \in rows
    /\ \E on \in BOOLEAN :
        /\ Chooses(i, on)
        /\ drag' = [id |-> i, on |-> on]
    /\ UNCHANGED <<scanVars, stored, cached, refreshVars, controlVars, rows,
                   unsaved, scans, restarts>>

Releases ==
    /\ Idle /\ drag # None
    /\ drag.id \in DOMAIN cached
    /\ drag' = None
    /\ Sets(drag.id, drag.on, FALSE)
    /\ chosen' = Forgetting(IF Risky(drag.id) THEN {NameOf[drag.id]} ELSE {})
    /\ UNCHANGED <<scanVars, stored, refreshVars, controlVars, rows, boundVars>>

\* There too.
ReleasesInVain ==
    /\ Idle /\ drag # None
    /\ drag.id \notin DOMAIN cached
    /\ drag' = None
    /\ chosen' = Forgetting({NameOf[drag.id]})
    /\ UNCHANGED <<scanVars, stored, cached, refreshVars, controlVars, rows,
                   unsaved, boundVars>>

Stores ==
    /\ ~Idle
    /\ stored' = WithRecord(stored, unsaved.id, unsaved)
    /\ unsaved' = None
    /\ requested' = (requested \/ unsaved.full)
    /\ chosen' = Forgetting(IF Unlinked(unsaved.id, unsaved) THEN Unsaved ELSE {})
    /\ UNCHANGED <<scanVars, cached, refreshVars, control, snapshot, pickerVars,
                   boundVars>>

User ==
    \/ PickerReads \/ Releases \/ ReleasesInVain \/ Stores
    \/ \E i \in rows : Clicks(i) \/ ClicksInVain(i) \/ Grabs(i)

\* Only the stored records survive.
Restart ==
    /\ restarts < MaxRestarts
    /\ Idle /\ drag = None /\ refresh = "idle" /\ control = "idle" /\ ~requested
    /\ restarts' = restarts + 1
    /\ devices' = NoDevices
    /\ registry' = NoSettings
    /\ cached' = NoOutputs
    /\ rows' = {}
    /\ UNCHANGED <<found, stored, refreshVars, controlVars, drag, unsaved,
                   chosen, scans, changes>>

Init ==
    /\ devices = NoDevices
    /\ found = Nothing
    /\ registry = NoSettings
    /\ stored = NoRecords
    /\ cached = NoOutputs
    /\ refresh = "idle" /\ listed = NoOutputs /\ migrating = {}
    /\ requested = FALSE /\ control = "idle" /\ snapshot = NoOutputs
    /\ rows = {} /\ drag = None
    /\ unsaved = None
    /\ chosen = [n \in Name |-> None]
    /\ scans = 0 /\ changes = 0 /\ restarts = 0

Next == Refresh \/ Control \/ User \/ Restart

Spec == Init /\ [][Next]_vars

-----------------------------------------------------------------------------
TypeOK ==
    /\ IdentityTyped
    /\ DOMAIN registry \subseteq Id
    /\ stored \in OutputStates
    /\ refresh \in {"idle", "browse", "merge", "apply", "publish"}
    /\ requested \in BOOLEAN /\ control \in {"idle", "apply", "publish"}
    /\ migrating \subseteq DOMAIN listed
    /\ rows \subseteq Id

\* Every id that is in use somewhere still leads to an output, and to the
\* receiver it was listed for.
KnownIdsResolve ==
    \A i \in DOMAIN cached \cup DOMAIN snapshot \cup DOMAIN listed \cup DOMAIN registry :
        Linked(i)

\* What the user set for a receiver is what the cache shows for it, unless the
\* code may have lost it in one of the ways named at Risky, Unlinked and Outdated.
ChoiceKept ==
    Idle /\ drag = None =>
        \A n \in Name, i \in DOMAIN cached :
            chosen[n] # None /\ chosen[n].id \in Ids(i, cached[i])
                => cached[i].on = chosen[n].on
=============================================================================
