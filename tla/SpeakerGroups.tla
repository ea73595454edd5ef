---------------------------- MODULE SpeakerGroups ----------------------------
(***************************************************************************)
(* Named groups of speakers: the file of groups, the editor on the         *)
(* preferences page, and what applying a group does to the selection.      *)
(*                                                                         *)
(* A group holds ids of outputs.  Discovery may replace an id, and after a *)
(* restart the list starts empty and may grow from other ids, so groups,   *)
(* stored records and listed outputs are compared through the aliases the  *)
(* outputs have at that moment.                                            *)
(*                                                                         *)
(* All but the refresh worker runs on foobar2000's main thread, which is   *)
(* serial with itself only: a change is made in the cache under mutex_,    *)
(* then record by record under the lock of the records, and a refresh may  *)
(* read the records and publish its list at any point of that.  History    *)
(* variables tell the receivers for which such a list came too late.       *)
(*                                                                         *)
(* A control update lists the same outputs with the settings of the cache  *)
(* and is left out.  So are the names of groups: a save that is refused,   *)
(* for its name or its members, changes nothing.                           *)
(***************************************************************************)
EXTENDS ReceiverIdentity

CONSTANTS
    SavedGroups,    \* the groups that earlier sessions left in the file
    MaxGroups,      \* bound: groups that are ever created
    MaxScans,       \* bound: refreshes the user asks for
    MaxChanges,     \* bound: clicks that change the selection or a setting
    MaxEdits,       \* bound: clicks in the editor that change something
    MaxRestarts     \* bound: restarts of foobar2000

\* The file of groups, with ids of their own.  Each has at least one member, and each
\* once; their order is left open.
GroupFiles ==
    {file \in Seq([id : 1..MaxGroups, members : (SUBSET Id) \ {{}}]) :
        \A j, k \in DOMAIN file : file[j].id = file[k].id => j = k}

ASSUME GroupsAssumption ==
    /\ SavedGroups \in GroupFiles
    /\ {MaxGroups, MaxScans, MaxChanges, MaxEdits, MaxRestarts} \subseteq Nat

VARIABLES
    groups,         \* cfg_speaker_groups, in the order of the file
    stored,         \* cfg_airplay_output_state: the file of records
    cached,         \* cached_outputs_
    refresh, listed,    \* the refresh worker, its list,
    storing,        \*   and the outputs whose record it will write
    activating,     \* the main thread: the members of the group it activates,
    known,          \*   the outputs as a change left them in the cache,
    writing,        \*   and those whose record it will write
    editing,        \* the editor: editing_group_id_, 0 for a new group,
    rows,           \*   its rows, each with its check box,
    shown,          \*   and the outputs they were made from
    meant,          \* history: the receivers the user left checked
    applied,        \* history: the group that was applied last
    late,           \* history: the receivers changed since the list was read,
    outdated,       \*   and those with which such a list was published or stored
    created, scans, changes, edits, restarts

scanVars == <<devices, found>>
refreshVars == <<refresh, listed, storing>>
changeVars == <<activating, known, writing>>
historyVars == <<applied, late, outdated>>
editorVars == <<editing, rows, shown, meant>>
boundVars == <<created, scans, changes, edits, restarts>>
vars == <<scanVars, groups, stored, cached, refreshVars, changeVars, editorVars,
          historyVars, boundVars>>

None == [ids |-> {}, doubt |-> Name]
NoOutputs == [i \in {} |-> [on |-> FALSE, available |-> FALSE, aliases |-> {}]]
NoRows == [i \in {} |-> FALSE]
Closed == MaxGroups + 1

-----------------------------------------------------------------------------
\* core/speaker_groups.cpp.

\* resolve_speaker_group_output_ids().
Resolve(ids, outputs) == {i \in DOMAIN outputs : Ids(i, outputs[i]) \cap ids # {}}

SameOutput(d, e, outputs) == \E i \in DOMAIN outputs : {d, e} \subseteq Ids(i, outputs[i])

\* speaker_group_contains_persisted_output(): directly, or through the first
\* output that is known under the id.
ContainsPersisted(ids, id, outputs) ==
    \/ id \in ids
    \/ \E i \in Firsts(OutputsWith(id, outputs)) : Ids(i, outputs[i]) \cap ids # {}

\* Mutant: outputs that are not members may be selected too.
MatchesMembers(ids, selected, outputs) ==
    /\ selected # {}
    /\ \A i \in ids : \E s \in selected : s = i \/ SameOutput(s, i, outputs)

\* speaker_group_matches_persisted_selection().
MatchesSelection(ids, selected, outputs) ==
    /\ selected # {}
    /\ \A s \in selected : ContainsPersisted(ids, s, outputs)
    /\ \A i \in ids : \E s \in selected : s = i \/ SameOutput(s, i, outputs)

-----------------------------------------------------------------------------
\* The selection in the stored records.

Represented(records, ids, id, outputs) ==
    \E k \in DOMAIN records :
        /\ ContainsPersisted(ids, k, outputs)
        /\ k = id \/ SameOutput(k, id, outputs)

\* Mutant: outputs that are not listed now stay selected.
MarkedMembers(records, ids, outputs) ==
    [k \in DOMAIN records |-> [on |-> records[k].on \/ ContainsPersisted(ids, k, outputs),
                               before |-> records[k].before]]

Marked(records, ids, outputs) ==
    [k \in DOMAIN records |-> [on |-> ContainsPersisted(ids, k, outputs),
                               before |-> records[k].before]]

\* The members that get a record, in some order: those that have none, but for
\* those that are the same output as an earlier one.
Added(records, ids, outputs) ==
    LET missing == {i \in ids : ~Represented(records, ids, i, outputs)}
    IN  {new \in SUBSET missing :
            /\ \A d, e \in new : d # e => ~SameOutput(d, e, outputs)
            /\ \A d \in missing \ new : \E e \in new : SameOutput(d, e, outputs)}

Orders(ids) ==
    {earlier \in [ids -> SUBSET ids] :
        \A some \in (SUBSET ids) \ {{}} :
            \E k \in some : earlier[k] \cap some = {} /\ \A j \in some \ {k} : k \in earlier[j]}

Extended(records, new, earlier) ==
    [k \in DOMAIN records \cup new |->
        IF k \in DOMAIN records THEN records[k]
        ELSE [on |-> TRUE, before |-> DOMAIN records \cup earlier[k]]]

\* Mutant: a member without a record is left out of the selection.
ReplacedKnown(records, ids, outputs) == {Marked(records, ids, outputs)}

\* replace_stored_output_selection(): exactly the members are selected, those
\* without a record get one, at the end.
Replaced(records, ids, outputs) ==
    LET marked == Marked(records, ids, outputs)
    IN  UNION {{Extended(marked, new, earlier) : earlier \in Orders(new)} :
                   new \in Added(marked, ids, outputs)}

SelectedRecords == {k \in DOMAIN stored : stored[k].on}

\* active_speaker_group_id(): the first group of the file that is selected.
ActiveGroup ==
    Firsts({k \in DOMAIN groups :
                MatchesSelection(groups[k].members, SelectedRecords, cached)})

-----------------------------------------------------------------------------
\* History.  An id is a receiver's, but the code knows only what is linked.

Named(ids) == {NameOf[i] : i \in ids}
StoredIds == DOMAIN stored
Listings(n, outputs) == {i \in DOMAIN outputs : NameOf[i] = n}

\* The receivers with ids, in the records or in a group, that no output links.
Doubtful(ids, outputs) ==
    {n \in Name :
        LET own == {i \in ids : NameOf[i] = n}
        IN  IF Listings(n, outputs) = {} THEN \E d, e \in own : d # e
            ELSE \E i \in Listings(n, outputs) :
                    ~(own \cup Listings(n, outputs) \subseteq Ids(i, outputs[i]))}

\* The receivers with several ids: in the records, from times when these were not
\* linked, or in a list, when they were found at several hosts.
Several(ids) == {n \in Name : \E d, e \in ids : d # e /\ NameOf[d] = n /\ NameOf[e] = n}

Doubting(names) == [applied EXCEPT !.doubt = @ \cup names]

-----------------------------------------------------------------------------
\* The refresh worker.

\* list_outputs().  An output without a record has the selection of the registry:
\* it may be one that an earlier update enabled if its record has gone to the other
\* listing of its receiver, else whatever is selected has a record.
ListedFrom(entries, enabled) ==
    [i \in DOMAIN entries |-> [on |-> i \in enabled, aliases |-> entries[i].aliases,
                               modern |-> entries[i].modern,
                               available |-> entries[i].modern /\ HasEndpoint(entries[i])]]

ListedTwice(entries) == {i \in DOMAIN entries : Listings(NameOf[i], entries) # {i}}

Published(outputs) == [i \in DOMAIN outputs |-> Applied(stored, i, outputs[i])]

RefreshOutputs ==
    /\ refresh = "idle"
    /\ scans < MaxScans
    /\ scans' = scans + 1
    /\ refresh' = "scan"
    /\ UNCHANGED <<scanVars, groups, stored, cached, listed, storing, changeVars, editorVars,
                   historyVars, created, changes, edits, restarts>>

RefreshBrowses ==
    /\ refresh = "scan"
    /\ Browse
    /\ refresh' = "merge"
    /\ UNCHANGED <<devices, groups, stored, cached, listed, storing, changeVars, editorVars,
                   historyVars, boundVars>>

RefreshFails ==
    /\ refresh = "scan"
    /\ refresh' = "idle"
    /\ UNCHANGED <<scanVars, groups, stored, cached, listed, storing, changeVars, editorVars,
                   historyVars, boundVars>>

RefreshMerges ==
    /\ refresh = "merge"
    /\ Merge
    /\ UNCHANGED <<groups, stored, cached, refreshVars, changeVars, editorVars, historyVars,
                   boundVars>>

\* The receivers whose records the main thread is about to write.
Changing == IF activating # {} THEN Name ELSE Named(writing)

\* The records are applied as they are now, and
RefreshLists ==
    /\ refresh = "merge"
    /\ DOMAIN found = {}
    /\ \E enabled \in SUBSET ListedTwice(devices) :
        LET outputs == ListedFrom(devices, enabled)
        IN  /\ listed' = Published(outputs)
            /\ storing' = Misfiled(stored, outputs)
            /\ applied' = Doubting(Named(enabled) \cup
                                  Doubtful(StoredIds \cup applied.ids, listed'))
    /\ refresh' = "apply"
    /\ late' = Changing
    /\ UNCHANGED <<scanVars, groups, stored, cached, changeVars, editorVars, outdated,
                   boundVars>>

\* those of aliases stored again, with the setting that was read.
RefreshStores ==
    /\ refresh = "apply"
    /\ \E i \in Firsts(storing) :
        LET overtaken == Named({i}) \cap late
        IN  /\ stored' = WithRecord(stored, i, listed[i])
            /\ storing' = storing \ {i}
            /\ applied' = Doubting(overtaken)
            /\ outdated' = outdated \cup overtaken
    /\ UNCHANGED <<scanVars, groups, cached, refresh, listed, changeVars, editorVars, late,
                   boundVars>>

RefreshPublishes ==
    /\ refresh = "apply"
    /\ storing = {}
    /\ cached' = listed
    /\ listed' = NoOutputs
    /\ refresh' = "idle"
    /\ outdated' = late
    /\ late' = {}
    /\ UNCHANGED <<scanVars, groups, stored, storing, changeVars, editorVars, applied,
                   boundVars>>

Refresh ==
    \/ RefreshOutputs \/ RefreshBrowses \/ RefreshFails \/ RefreshMerges
    \/ RefreshLists \/ RefreshStores \/ RefreshPublishes

-----------------------------------------------------------------------------
\* The selection.  A change is made in the cache, then in the records.

Changes ==
    /\ changes < MaxChanges
    /\ changes' = changes + 1
    /\ UNCHANGED <<created, scans, edits, restarts>>

\* A list that was read and is not published yet does not have the change.
Overtakes(names) == late' = IF refresh = "apply" THEN late \cup names ELSE late

Available(outputs) ==
    [i \in {j \in DOMAIN outputs : outputs[j].available} |-> outputs[i]]

\* activate_speaker_group(): the members that are available are selected in the
\* cache, and no others;
ActivateGroup(group) ==
    LET resolved == Resolve(group.members, Available(cached))
    IN  /\ Changes
        /\ cached' = [i \in DOMAIN cached |-> [cached[i] EXCEPT !.on = i \in resolved]]
        /\ known' = cached'
        /\ writing' = {i \in DOMAIN cached : cached[i].on # (i \in resolved)}
        /\ activating' = group.members
        /\ applied' = None
        /\ Overtakes(Name)
        /\ outdated' = {}
        /\ UNCHANGED <<scanVars, groups, stored, refreshVars, editorVars>>

\* the records of those that changed are written, as after any other change;
ChangeStores ==
    /\ \E i \in Firsts(writing) :
        /\ stored' = WithRecord(stored, i, known[i])
        /\ writing' = writing \ {i}
    /\ known' = IF writing' = {} /\ activating = {} THEN NoOutputs ELSE known
    /\ UNCHANGED <<scanVars, groups, cached, refreshVars, activating, editorVars,
                   historyVars, boundVars>>

\* in the end all members are selected in the records; with none available a
\* scan starts, unless one is running.
ActivationEnds ==
    /\ activating # {} /\ writing = {}
    /\ stored' \in Replaced(stored, activating, known)
    /\ refresh' = IF refresh = "idle" /\ Resolve(activating, Available(known)) = {}
                  THEN "scan" ELSE refresh
    /\ applied' = [ids |-> activating, doubt |-> Doubtful(StoredIds \cup activating, known)]
    /\ activating' = {} /\ known' = NoOutputs
    /\ UNCHANGED <<scanVars, groups, cached, listed, storing, writing, editorVars, late,
                   outdated, boundVars>>

\* The record of an output follows.
Follows(i) ==
    /\ Changes
    /\ known' = cached'
    /\ writing' = {i}
    /\ Overtakes(Named({i}))
    /\ UNCHANGED <<scanVars, groups, stored, refreshVars, activating, editorVars, outdated>>

\* toggle_output() refuses an output without AirPlay 2.
Toggle(i) ==
    /\ cached[i].modern
    /\ cached' = [cached EXCEPT ![i].on = ~@]
    /\ applied' = None
    /\ Follows(i)

\* set_output_volume(), set_output_dropdown_visibility(): the record is written
\* with the selection of the cache, which leaves out a member that is waiting
\* to be discovered, or may be outdated.
SetVolume(i) ==
    /\ cached' = cached
    /\ applied' = IF cached[i].on = (Ids(i, cached[i]) \cap applied.ids # {})
                  THEN Doubting(Named({i}) \cap outdated) ELSE None
    /\ Follows(i)

-----------------------------------------------------------------------------
\* The editor.

Edits ==
    /\ edits < MaxEdits
    /\ edits' = edits + 1
    /\ UNCHANGED <<scans, changes, restarts>>

\* Mutant: members that are not listed get no row.
RowsOfOutputs(ids) == [i \in DOMAIN cached |-> Ids(i, cached[i]) \cap ids # {}]

\* populate_group_members(): the outputs, and the ids that none of them has.
Rows(ids) ==
    LET absent == {i \in ids : OutputsWith(i, cached) = {}}
    IN  [i \in DOMAIN cached \cup absent |->
            i \in DOMAIN cached => Ids(i, cached[i]) \cap ids # {}]

Signature == [i \in DOMAIN cached |-> [aliases |-> cached[i].aliases, modern |-> cached[i].modern]]
NoSignature == [i \in {} |-> [aliases |-> {}, modern |-> FALSE]]

Checked == {i \in DOMAIN rows : rows[i]}

Populates(id, ids) ==
    /\ editing' = id
    /\ rows' = Rows(ids)
    /\ shown' = Signature
    /\ meant' = Named(ids)

\* reload_group_list(), begin_new_group(): the group, or else the first one.
Reloads(id) ==
    LET all == groups'
        chosen == {k \in DOMAIN all : all[k].id = id}
    IN  IF all = <<>> THEN Populates(0, {})
        ELSE LET k == IF chosen = {} THEN 1 ELSE First(chosen)
             IN  Populates(all[k].id, all[k].members)

OpenPage ==
    /\ editing = Closed
    /\ groups' = groups
    /\ Reloads(0)
    /\ UNCHANGED <<scanVars, stored, cached, refreshVars, changeVars, historyVars, boundVars>>

\* The page goes with what was not saved.
Closes == editing' = Closed /\ rows' = NoRows /\ shown' = NoSignature /\ meant' = {}

ClosePage ==
    /\ editing # Closed
    /\ Closes
    /\ UNCHANGED <<scanVars, groups, stored, cached, refreshVars, changeVars, historyVars,
                   boundVars>>

BeginNewGroup ==
    /\ editing \notin {0, Closed}
    /\ Populates(0, {})
    /\ UNCHANGED <<scanVars, groups, stored, cached, refreshVars, changeVars, historyVars,
                   boundVars>>

LoadGroup(group) ==
    /\ editing \notin {group.id, Closed}
    /\ Populates(group.id, group.members)
    /\ UNCHANGED <<scanVars, groups, stored, cached, refreshVars, changeVars, historyVars,
                   boundVars>>

Check(i) ==
    /\ Edits
    /\ rows' = [rows EXCEPT ![i] = ~@]
    /\ meant' = Named({j \in DOMAIN rows : rows'[j]})
    /\ UNCHANGED <<scanVars, groups, stored, cached, refreshVars, changeVars, editing,
                   shown, historyVars, created>>

\* refresh_group_members_if_outputs_changed().
RefreshMembers ==
    /\ editing # Closed
    /\ shown # Signature
    /\ rows' = Rows(Checked)
    /\ shown' = Signature
    /\ UNCHANGED <<scanVars, groups, stored, cached, refreshVars, changeVars, editing,
                   meant, historyVars, boundVars>>

\* save_speaker_group(): no member may be listed without AirPlay 2.
SaveGroup ==
    LET id == IF editing = 0 THEN created + 1 ELSE editing
        saved == [id |-> id, members |-> Checked]
    IN  /\ editing # Closed
        /\ Checked # {}
        /\ \A i \in {j \in DOMAIN cached : ~cached[j].modern} :
                ~ContainsPersisted(Checked, i, cached)
        /\ id <= MaxGroups
        /\ Edits
        /\ created' = IF editing = 0 THEN created + 1 ELSE created
        /\ groups' = IF \E k \in DOMAIN groups : groups[k].id = id
                     THEN [k \in DOMAIN groups |->
                              IF groups[k].id = id THEN saved ELSE groups[k]]
                     ELSE Append(groups, saved)
        /\ Reloads(id)
        /\ UNCHANGED <<scanVars, stored, cached, refreshVars, changeVars, historyVars>>

DeleteGroup ==
    /\ editing \notin {0, Closed}
    /\ Edits
    /\ \E k \in DOMAIN groups : groups[k].id = editing /\ groups' = RemoveAt(groups, k)
    /\ Reloads(0)
    /\ UNCHANGED <<scanVars, stored, cached, refreshVars, changeVars, historyVars, created>>

\* The main thread is not in the middle of a change.
AtRest == activating = {} /\ writing = {}

User ==
    /\ AtRest
    /\ \/ \E k \in DOMAIN groups : ActivateGroup(groups[k]) \/ LoadGroup(groups[k])
       \/ \E i \in DOMAIN cached : Toggle(i) \/ SetVolume(i)
       \/ \E i \in DOMAIN rows : Check(i)
       \/ OpenPage \/ ClosePage \/ BeginNewGroup \/ RefreshMembers \/ SaveGroup \/ DeleteGroup

\* The two files survive.
Restart ==
    /\ restarts < MaxRestarts
    /\ AtRest /\ refresh = "idle"
    /\ restarts' = restarts + 1
    /\ devices' = NoDevices
    /\ cached' = NoOutputs
    /\ Closes
    /\ applied' = Doubting(Doubtful(StoredIds \cup applied.ids, NoOutputs))
    /\ outdated' = {}
    /\ UNCHANGED <<found, groups, stored, refreshVars, changeVars, late, created, scans, changes,
                   edits>>

Init ==
    /\ devices = NoDevices
    /\ found = Nothing
    /\ groups = SavedGroups
    /\ stored = NoRecords
    /\ cached = NoOutputs
    /\ refresh = "idle" /\ listed = NoOutputs /\ storing = {}
    /\ activating = {} /\ known = NoOutputs /\ writing = {}
    /\ editing = Closed /\ rows = NoRows /\ shown = NoSignature /\ meant = {}
    /\ applied = None /\ late = {} /\ outdated = {}
    /\ created = Len(SavedGroups) /\ scans = 0 /\ changes = 0 /\ edits = 0 /\ restarts = 0

Next == Refresh \/ User \/ ChangeStores \/ ActivationEnds \/ Restart

Spec == Init /\ [][Next]_vars

-----------------------------------------------------------------------------
TypeOK ==
    /\ IdentityTyped
    /\ groups \in GroupFiles
    /\ StoredIds \subseteq Id
    /\ \A k \in StoredIds : stored[k] \in [on : BOOLEAN, before : SUBSET StoredIds]
    /\ DOMAIN cached \cup DOMAIN listed \cup DOMAIN known \subseteq Id
    /\ refresh \in {"idle", "scan", "merge", "apply"}
    /\ storing \subseteq DOMAIN listed
    /\ activating \subseteq Id
    /\ writing \subseteq DOMAIN known
    /\ DOMAIN rows \subseteq Id
    /\ late \cup outdated \subseteq Name

\* A group's members and nothing else are selected, each as soon as it is available.
Selects(ids, i) ==
    /\ cached[i].on => NameOf[i] \in Named(ids)
    /\ cached[i].available /\ Ids(i, cached[i]) \cap ids # {} => cached[i].on

\* After a group is applied, and until the user selects otherwise, nothing but its
\* members is selected, and each member is as soon as it is available: across
\* scans that find it late or under another id, and across restarts.  A list read
\* before the group was applied may be published after it; then the next refresh
\* has the group selected again.
AppliedGroupSelected ==
    \A i \in DOMAIN cached :
        NameOf[i] \notin applied.doubt \cup outdated => Selects(applied.ids, i)

\* What docs/UI_AUDIT.md says, that applying a group replaces the selection atomically:
\* with both threads at rest, the applied group is what is selected.
GroupReplacesSelection ==
    AtRest /\ refresh = "idle" =>
        \A i \in DOMAIN cached : NameOf[i] \notin applied.doubt => Selects(applied.ids, i)

\* The group that is shown as the current one tells what is selected: no other
\* output is, and of its members all that are available; but while a refresh stores
\* records that it has yet to publish, and but for a receiver with which a list from
\* before a change was published.
ActiveGroupTruthful ==
    AtRest /\ refresh # "apply" =>
        \A k \in ActiveGroup, i \in DOMAIN cached :
            LET named == Named(groups[k].members)
            IN  NameOf[i] \notin outdated \cup Several(StoredIds) \cup Several(DOMAIN cached)
                                \cup Doubtful(StoredIds \cup groups[k].members, cached) =>
                    /\ cached[i].on => NameOf[i] \in named
                    /\ cached[i].available /\ NameOf[i] \in named => cached[i].on

Links(outputs) == [i \in DOMAIN outputs |-> outputs[i].aliases]

\* A group that was applied is shown as the current one, or one with the same members,
\* unless a refresh has just published that its ids are linked otherwise.
GroupShown ==
    \A k \in DOMAIN groups :
        ActivationEnds /\ groups[k].members = activating /\ Links(known) = Links(cached)
            => /\ ActiveGroup' # {}
               /\ \A j \in ActiveGroup' : Named(groups[j].members) = Named(activating)
AppliedGroupShown == [][GroupShown]_vars

\* Saving keeps the receivers that the user left checked, those included that
\* are not discovered now or have got another id since.
EditKept ==
    editing # Closed => Named(Checked) = meant
=============================================================================
