----------------------- MODULE ReceiverSettingsProofs -----------------------
(***************************************************************************)
(* For any services, names and ids, and whatever the scans come up with:   *)
(* no receiver is listed twice at one host, every id that the registry,    *)
(* the cache or a worker's list still holds leads to its receiver, and     *)
(* what the user set is what the cache shows.  The places that hold ids    *)
(* are filled at different times by three threads and compared with        *)
(* discovery at none: all they rely on is that discovery never loses an    *)
(* id before a restart, and that a restart finds no list on its way.  The  *)
(* setting survives because the records of a receiver, the list on its way *)
(* and the cache never disagree on it.                                     *)
(***************************************************************************)
EXTENDS ReceiverSettings, ReceiverIdentityProofs

\* Whatever is held under an id is known to discovery.
Held == DOMAIN cached \cup DOMAIN snapshot \cup DOMAIN listed \cup DOMAIN registry
HeldIsKnown == Held \subseteq KnownIds

\* A worker leaves no list behind.
NothingListed == refresh \notin {"apply", "publish"} => DOMAIN listed = {}
NothingTaken == control = "idle" => DOMAIN snapshot = {}

IdentityInv == Entries /\ NamesAgree /\ NoTwins
HeldInv == HeldIsKnown /\ NothingListed /\ NothingTaken
SettingsInv == IdentityInv /\ HeldInv

-----------------------------------------------------------------------------
(* The entries of discovery.                                               *)

\* Only a merge and a restart change them.
LEMMA DevicesStep == Next => Merge \/ Restart \/ UNCHANGED devices
<1>1. ASSUME Refresh PROVE Merge \/ UNCHANGED devices
  BY <1>1, Zenon DEF Refresh, scanVars, Browse, RefreshStarts, RefreshBrowses, RefreshFails,
     RefreshMerges, RefreshLists, RefreshMigrates, RefreshLeaves, RefreshPublishes
<1>2. ASSUME Control PROVE UNCHANGED devices
  BY <1>2, Zenon DEF Control, scanVars, ControlSnapshots, ControlApplies, ControlPublishes
<1>3. ASSUME User PROVE UNCHANGED devices
  BY <1>3, Zenon DEF User, scanVars, PickerReads, Releases, ReleasesInVain, Stores, Clicks,
     ClicksInVain, Grabs
<1>. QED BY <1>1, <1>2, <1>3, Zenon DEF Next

\* They stay entries of one receiver each, and none is listed twice at a host.
LEMMA IdentityStep == IdentityInv /\ [Next]_vars => IdentityInv'
<1> SUFFICES ASSUME IdentityInv, [Next]_vars PROVE IdentityInv'
  OBVIOUS
<1>1. Merge \/ Restart \/ UNCHANGED devices
  BY DevicesStep, Zenon DEF vars, scanVars
<1>2. CASE Merge
  BY <1>2, MergeEntries, MergeNames, MergeNoTwins, Zenon DEF IdentityInv
<1>3. CASE Restart
  <2>1. devices' = NoDevices
    BY <1>3, Zenon DEF Restart
  <2>2. DOMAIN devices' = {}
    BY <2>1 DEF NoDevices
  <2>. QED BY <2>2 DEF IdentityInv, Entries, NamesAgree, NoTwins
<1>4. CASE UNCHANGED devices
  BY <1>4 DEF IdentityInv, Entries, NamesAgree, NoTwins
<1>. QED BY <1>1, <1>2, <1>3, <1>4

\* The id of an entry is known, and no id is lost while the program runs.
LEMMA EntriesKnown == DOMAIN devices \subseteq KnownIds
BY DEF KnownIds, Ids

LEMMA KnownStays == IdentityInv /\ (Merge \/ UNCHANGED devices) => KnownIds \subseteq KnownIds'
<1>1. IdentityInv /\ Merge => KnownIds \subseteq KnownIds'
  BY MergeKeepsIds, Zenon DEF IdentityInv
<1>2. UNCHANGED devices => KnownIds \subseteq KnownIds'
  BY DEF KnownIds, Ids
<1>. QED BY <1>1, <1>2

-----------------------------------------------------------------------------
(* The lists that hold ids.                                                *)

\* The ids of a list come from the entries, or from the list it replaces.
LEMMA ListDomains ==
    /\ \A settings \in Synced : DOMAIN settings = DOMAIN devices
    /\ \A ids : DOMAIN Enabled(ids) = DOMAIN devices
    /\ \A settings : DOMAIN Listed(settings) = DOMAIN devices
    /\ \A outputs, previous : DOMAIN Preserved(outputs, previous) = DOMAIN outputs
BY DEF Synced, Enabled, Listed, Preserved

LEMMA EmptyLists ==
    DOMAIN NoOutputs = {} /\ DOMAIN NoSettings = {} /\ DOMAIN NoDevices = {}
BY DEF NoOutputs, NoSettings, NoDevices

\* The lists that a step leaves alone stay held.
LEMMA HeldUnchanged ==
    HeldInv /\ KnownIds \subseteq KnownIds' /\ UNCHANGED <<registry, listed, cached, snapshot>>
        => HeldIsKnown'
BY DEF HeldInv, HeldIsKnown, Held

\* What the refresh worker merges, lists and publishes is known.
LEMMA RefreshHeld == IdentityInv /\ HeldInv /\ Refresh => HeldInv'
<1> SUFFICES ASSUME IdentityInv, HeldInv, Refresh PROVE HeldInv'
  OBVIOUS
<1>1. NothingTaken'
  <2>1. UNCHANGED <<control, snapshot>>
    BY Zenon DEF Refresh, controlVars, RefreshStarts, RefreshBrowses, RefreshFails,
       RefreshMerges, RefreshLists, RefreshMigrates, RefreshLeaves, RefreshPublishes
  <2>. QED BY <2>1 DEF HeldInv, NothingTaken
<1>2. CASE RefreshStarts \/ RefreshBrowses \/ RefreshFails \/ RefreshMigrates \/ RefreshLeaves
  <2>1. /\ UNCHANGED <<devices, registry, listed, cached, snapshot>>
        /\ refresh \notin {"apply", "publish"} \/ refresh' \in {"apply", "publish"}
    BY <1>2, Zenon DEF scanVars, refreshVars, controlVars, RefreshStarts, RefreshBrowses,
       RefreshFails, RefreshMigrates, RefreshLeaves
  <2>2. KnownIds \subseteq KnownIds'
    BY <2>1, KnownStays
  <2>3. HeldIsKnown'
    BY <2>1, <2>2, HeldUnchanged
  <2>4. NothingListed'
    BY <2>1 DEF HeldInv, NothingListed
  <2>. QED BY <1>1, <2>3, <2>4, Zenon DEF HeldInv
<1>3. CASE RefreshMerges
  <2>1. Merge /\ UNCHANGED <<registry, listed, cached, snapshot, refresh>>
    BY <1>3, Zenon DEF RefreshMerges, refreshVars, controlVars
  <2>2. HeldIsKnown'
    BY <2>1, KnownStays, HeldUnchanged
  <2>3. NothingListed'
    BY <2>1 DEF HeldInv, NothingListed
  <2>. QED BY <1>1, <2>2, <2>3, Zenon DEF HeldInv
<1>4. CASE RefreshLists
  <2>1. /\ registry' \in Synced
        /\ listed' = [i \in DOMAIN devices |-> Applied(stored, i, Listed(registry')[i])]
        /\ refresh' = "apply"
        /\ UNCHANGED <<devices, cached, snapshot>>
    BY <1>4, Zenon DEF RefreshLists, controlVars
  <2>2. DOMAIN registry' = DOMAIN devices /\ DOMAIN listed' = DOMAIN devices
    BY <2>1, ListDomains
  <2>3. DOMAIN devices \subseteq KnownIds /\ KnownIds \subseteq KnownIds'
    BY <2>1, EntriesKnown, KnownStays
  <2>4. HeldIsKnown'
    BY <2>1, <2>2, <2>3 DEF HeldInv, HeldIsKnown, Held
  <2>5. NothingListed'
    BY <2>1 DEF NothingListed
  <2>. QED BY <1>1, <2>4, <2>5, Zenon DEF HeldInv
<1>5. CASE RefreshPublishes
  <2>1. /\ cached' = listed /\ listed' = NoOutputs
        /\ UNCHANGED <<devices, registry, snapshot>>
    BY <1>5, Zenon DEF RefreshPublishes, scanVars, controlVars
  <2>2. DOMAIN listed' = {}
    BY <2>1, EmptyLists
  <2>3. KnownIds \subseteq KnownIds'
    BY <2>1, KnownStays
  <2>4. HeldIsKnown'
    BY <2>1, <2>2, <2>3 DEF HeldInv, HeldIsKnown, Held
  <2>5. NothingListed'
    BY <2>2 DEF NothingListed
  <2>. QED BY <1>1, <2>4, <2>5, Zenon DEF HeldInv
<1>. QED BY <1>2, <1>3, <1>4, <1>5, Zenon DEF Refresh

\* What the control worker takes, lists and publishes is known.
LEMMA ControlHeld == IdentityInv /\ HeldInv /\ Control => HeldInv'
<1> SUFFICES ASSUME IdentityInv, HeldInv, Control PROVE HeldInv'
  OBVIOUS
<1>1. UNCHANGED <<devices, refresh, listed>>
  BY Zenon DEF Control, scanVars, refreshVars, ControlSnapshots, ControlApplies, ControlPublishes
<1>2. NothingListed' /\ KnownIds \subseteq KnownIds'
  BY <1>1, KnownStays DEF HeldInv, NothingListed
<1>3. CASE ControlSnapshots
  <2>1. snapshot' = cached /\ control' = "apply" /\ UNCHANGED <<registry, cached>>
    BY <1>3, Zenon DEF ControlSnapshots, scanVars
  <2>. QED BY <1>1, <1>2, <2>1 DEF HeldInv, HeldIsKnown, Held, NothingTaken
<1>4. CASE ControlApplies
  <2>1. /\ registry' = Enabled(Selected(snapshot))
        /\ snapshot' = Preserved(Listed(registry'), snapshot)
        /\ control' = "publish" /\ UNCHANGED cached
    BY <1>4, Zenon DEF ControlApplies
  <2>2. DOMAIN registry' = DOMAIN devices /\ DOMAIN snapshot' = DOMAIN devices
    BY <2>1, ListDomains
  <2>. QED BY <1>1, <1>2, <2>1, <2>2, EntriesKnown DEF HeldInv, HeldIsKnown, Held, NothingTaken
<1>5. CASE ControlPublishes
  <2>1. /\ cached' = Preserved(snapshot, cached)
        /\ snapshot' = NoOutputs /\ UNCHANGED registry
    BY <1>5, Zenon DEF ControlPublishes, scanVars
  <2>2. DOMAIN cached' = DOMAIN snapshot /\ DOMAIN snapshot' = {}
    BY <2>1, ListDomains, EmptyLists
  <2>. QED BY <1>1, <1>2, <2>1, <2>2 DEF HeldInv, HeldIsKnown, Held, NothingTaken
<1>. QED BY <1>3, <1>4, <1>5, Zenon DEF Control

\* The user changes settings, not the ids they are held under.
LEMMA UserHeld == IdentityInv /\ HeldInv /\ User => HeldInv'
<1> SUFFICES ASSUME IdentityInv, HeldInv, User PROVE HeldInv'
  OBVIOUS
<1>1. UNCHANGED <<devices, registry, refresh, listed, control, snapshot>>
  BY Zenon DEF User, scanVars, refreshVars, controlVars, PickerReads, Releases, ReleasesInVain,
     Stores, Clicks, ClicksInVain, Grabs
<1>2. \/ UNCHANGED cached
      \/ \E i, on : cached' = [cached EXCEPT ![i].on = on]
  BY Zenon DEF User, PickerReads, Releases, ReleasesInVain, Stores, Clicks,
     ClicksInVain, Grabs, Sets
<1>3. DOMAIN cached' = DOMAIN cached
  BY <1>2
<1>4. KnownIds \subseteq KnownIds'
  BY <1>1, KnownStays
<1>. QED BY <1>1, <1>3, <1>4 DEF HeldInv, HeldIsKnown, Held, NothingListed, NothingTaken

\* A restart, which comes between the steps of no worker, leaves nothing held.
LEMMA RestartHeld == HeldInv /\ Restart => HeldInv'
<1> SUFFICES ASSUME HeldInv, Restart PROVE HeldInv'
  OBVIOUS
<1>1. /\ refresh = "idle" /\ control = "idle"
      /\ registry' = NoSettings /\ cached' = NoOutputs
      /\ UNCHANGED <<refresh, listed, control, snapshot>>
  BY Zenon DEF Restart, refreshVars, controlVars
<1>2. DOMAIN registry' = {} /\ DOMAIN cached' = {}
  BY <1>1, EmptyLists
<1>3. DOMAIN listed' = {} /\ DOMAIN snapshot' = {}
  BY <1>1 DEF HeldInv, NothingListed, NothingTaken
<1>. QED BY <1>2, <1>3 DEF HeldInv, HeldIsKnown, Held, NothingListed, NothingTaken

-----------------------------------------------------------------------------
(* The invariant.                                                          *)

\* Before the first scan nothing is listed and nothing held.
LEMMA InitInv == Init => SettingsInv
<1> SUFFICES ASSUME Init PROVE SettingsInv
  OBVIOUS
<1>1. devices = NoDevices /\ registry = NoSettings /\ cached = NoOutputs
      /\ listed = NoOutputs /\ snapshot = NoOutputs
  BY Zenon DEF Init
<1>2. /\ DOMAIN devices = {} /\ DOMAIN registry = {} /\ DOMAIN cached = {}
      /\ DOMAIN listed = {} /\ DOMAIN snapshot = {}
  BY <1>1, EmptyLists
<1>. QED BY <1>2 DEF SettingsInv, IdentityInv, Entries, NamesAgree, NoTwins, HeldInv,
                     HeldIsKnown, Held, NothingListed, NothingTaken

LEMMA StepInv == SettingsInv /\ [Next]_vars => SettingsInv'
<1> SUFFICES ASSUME IdentityInv, HeldInv, [Next]_vars PROVE IdentityInv' /\ HeldInv'
  BY DEF SettingsInv
<1>1. IdentityInv'
  BY IdentityStep, Zenon
<1>2. ASSUME UNCHANGED vars PROVE HeldInv'
  <2>1. UNCHANGED <<devices, registry, cached, refresh, listed, control, snapshot>>
    BY <1>2, Zenon DEF vars, scanVars, refreshVars, controlVars
  <2>. QED BY <2>1, KnownStays DEF HeldInv, HeldIsKnown, Held, NothingListed, NothingTaken
<1>. QED BY <1>1, <1>2, RefreshHeld, ControlHeld, UserHeld, RestartHeld, Zenon DEF Next

\* The invariant holds in every reachable state.
THEOREM Invariance == Spec => []SettingsInv
BY InitInv, StepInv, PTL DEF Spec

\* However often scans lose and find the records of a receiver's services, it is
\* never listed twice at one host: upsert_discovered_identity() makes one entry
\* the alias of the other (airplay_discovery.cpp:498).
THEOREM NoTwinsCorrect == Spec => []NoTwins
<1>1. SettingsInv => NoTwins
  BY DEF SettingsInv, IdentityInv
<1>. QED BY <1>1, Invariance, PTL

\* Every id that the registry, the cache or a worker holds still leads to an
\* output of the receiver it was listed for, although discovery replaced it
\* meanwhile: resolve_output_id() finds it among the aliases.
THEOREM KnownIdsCorrect == Spec => []KnownIdsResolve
<1>1. SettingsInv => KnownIdsResolve
  <2> SUFFICES ASSUME IdentityInv, HeldInv, NEW i \in Held PROVE Linked(i)
    BY DEF SettingsInv, KnownIdsResolve, Held
  <2>1. i \in KnownIds
    BY DEF HeldInv, HeldIsKnown
  <2>. QED BY <2>1, KnownIsLinked DEF IdentityInv
<1>. QED BY <1>1, Invariance, PTL

-----------------------------------------------------------------------------
(* What the user set.  All records of a receiver agree on it, so that it   *)
(* does not matter which of them a scan finds first; the cache and the     *)
(* list of a scan have it under every id of the receiver.                  *)

ListsTyped == Outputs(cached) /\ Outputs(listed) /\ Outputs(snapshot)
ListsNamed ==
    /\ OneReceiver(cached) /\ OneReceiver(listed) /\ OneReceiver(snapshot)
    /\ unsaved # None => \A j \in unsaved.aliases : NameOf[j] = NameOf[unsaved.id]

MigratingListed == refresh = "apply" => migrating \subseteq DOMAIN listed

\* What is expected of a receiver: nothing while its thumb is held, and nothing of
\* the records while the change is not stored.
Dragged(n) == drag # None /\ NameOf[drag.id] = n
Waiting(n) == unsaved # None /\ NameOf[unsaved.id] = n
Expected(n) == chosen[n] # None /\ ~Dragged(n)

Once(ids, n) == \A i, j \in ids : NameOf[i] = n /\ NameOf[j] = n => i = j
ListedOnce ==
    \A n \in Name : chosen[n] # None =>
        Once(DOMAIN devices, n) /\ Once(DOMAIN listed, n) /\ Once(DOMAIN cached, n)

Right(list, n) == \A i \in DOMAIN list : NameOf[i] = n => list[i].on = chosen[n].on
CacheRight == \A n \in Name : Expected(n) => Right(cached, n)
ListRight == \A n \in Name : Expected(n) => Right(listed, n)
RecordsRight ==
    \A n \in Name : Expected(n) /\ ~Waiting(n) =>
        Right(stored, n) /\ \E k \in DOMAIN stored : NameOf[k] = n

\* What is in the user's hand is what was chosen.
HandRight ==
    \A n \in Name : chosen[n] # None =>
        /\ Dragged(n) => drag.on = chosen[n].on
        /\ Waiting(n) => unsaved.on = chosen[n].on

FormInv == ListsTyped /\ ListsNamed /\ InOrder(stored) /\ MigratingListed
RightInv ==
    /\ DOMAIN chosen = Name
    /\ ListedOnce /\ CacheRight /\ ListRight /\ RecordsRight /\ HandRight

-----------------------------------------------------------------------------
(* Steps that only withdraw what is expected.                              *)

Fewer == DOMAIN chosen' = Name /\ \A n \in Name : chosen'[n] # None => chosen'[n] = chosen[n]

LEMMA ForgettingFewer ==
    ASSUME NEW names, chosen' = Forgetting(names)
    PROVE  Fewer /\ \A n \in Name : chosen'[n] # None => n \notin names
BY DEF Forgetting, Fewer

settingVars == <<listed, cached, stored, unsaved, drag>>

LEMMA RightKept ==
    ASSUME RightInv, Fewer, UNCHANGED settingVars,
           \A n \in Name : chosen'[n] # None => Once(DOMAIN devices', n)
    PROVE  RightInv'
<1>1. UNCHANGED listed /\ UNCHANGED cached /\ UNCHANGED stored /\ UNCHANGED unsaved /\ UNCHANGED drag
  BY Zenon DEF settingVars
<1>2. ASSUME NEW n \in Name, chosen'[n] # None
      PROVE  /\ chosen[n] # None /\ chosen'[n] = chosen[n]
             /\ Dragged(n)' = Dragged(n) /\ Waiting(n)' = Waiting(n)
  BY <1>1, <1>2 DEF Fewer, Dragged, Waiting
<1>3. ListedOnce'
  BY <1>1, <1>2 DEF RightInv, ListedOnce, Once
<1>4. CacheRight'
  BY <1>1, <1>2 DEF RightInv, CacheRight, Expected, Right
<1>5. ListRight'
  BY <1>1, <1>2 DEF RightInv, ListRight, Expected, Right
<1>6. RecordsRight'
  BY <1>1, <1>2 DEF RightInv, RecordsRight, Expected, Right
<1>7. HandRight'
  BY <1>1, <1>2 DEF RightInv, HandRight
<1>. QED BY <1>3, <1>4, <1>5, <1>6, <1>7 DEF RightInv, Fewer

LEMMA SameChosen == RightInv /\ UNCHANGED chosen => Fewer
BY DEF RightInv, Fewer

LEMMA SameDevices ==
    ASSUME RightInv, Fewer, UNCHANGED devices
    PROVE  \A n \in Name : chosen'[n] # None => Once(DOMAIN devices', n)
BY DEF RightInv, Fewer, ListedOnce

LEMMA FormKept ==
    ASSUME FormInv, UNCHANGED <<listed, cached, snapshot, stored, unsaved, migrating>>,
           refresh' = "apply" => refresh = "apply"
    PROVE  FormInv'
BY DEF FormInv, ListsTyped, Outputs, Output, ListsNamed, OneReceiver, InOrder, HasFirst, BeforeRecords,
       MigratingListed

-----------------------------------------------------------------------------
(* The refresh worker.                                                     *)

LEMMA QuietChoice ==
    ASSUME FormInv, RightInv,
           UNCHANGED <<devices, listed, migrating, cached, snapshot, stored, unsaved, drag, chosen>>,
           refresh' = "apply" => refresh = "apply"
    PROVE  FormInv' /\ RightInv'
<1>1. UNCHANGED settingVars /\ UNCHANGED chosen /\ UNCHANGED devices
  BY Zenon DEF settingVars
<1>2. Fewer
  BY <1>1, SameChosen, Zenon
<1>3. RightInv'
  BY <1>1, <1>2, SameDevices, RightKept, Zenon
<1>4. UNCHANGED <<listed, cached, snapshot, stored, unsaved, migrating>>
  BY Zenon
<1>. QED BY <1>3, <1>4, FormKept, Zenon

LEMMA MergesChoice ==
    ASSUME FormInv, RightInv, RefreshMerges
    PROVE  FormInv' /\ RightInv'
<1>1. /\ chosen' = Forgetting(ListedTwice(DOMAIN devices'))
      /\ UNCHANGED settingVars
      /\ UNCHANGED <<listed, cached, snapshot, stored, unsaved, migrating>>
      /\ refresh' = refresh
  BY Zenon DEF RefreshMerges, refreshVars, controlVars, pickerVars, settingVars
<1>2. Fewer /\ \A n \in Name : chosen'[n] # None => n \notin ListedTwice(DOMAIN devices')
  BY <1>1, ForgettingFewer, Zenon
<1>3. \A n \in Name : chosen'[n] # None => Once(DOMAIN devices', n)
  BY <1>2 DEF ListedTwice, Once
<1>. QED BY <1>1, <1>2, <1>3, RightKept, FormKept, Zenon

\* A list of the registry.
LEMMA ListedOutputs ==
    ASSUME NEW settings, NEW i \in DOMAIN devices
    PROVE  /\ Output(Listed(settings)[i])
           /\ Listed(settings)[i].aliases = devices[i].aliases
<1>1. Listed(settings)[i] = [on |-> settings[i], modern |-> devices[i].modern,
                             playable |-> devices[i].modern /\ HasEndpoint(devices[i]),
                             aliases |-> devices[i].aliases]
  BY DEF Listed
<1>2. Output(Listed(settings)[i])
  BY <1>1 DEF Output
<1>. QED BY <1>1, <1>2

\* An output of the list has the setting of the records, all of which are its own.
LEMMA ListsChoice ==
    ASSUME IdentityInv, FormInv, RightInv, RefreshLists
    PROVE  FormInv' /\ RightInv'
<1> DEFINE outputs == Listed(registry')
           unlinked == {NameOf[i] : i \in {j \in DOMAIN devices : Unlinked(j, outputs[j])}}
<1>1. /\ listed' = [i \in DOMAIN devices |-> Applied(stored, i, outputs[i])]
      /\ migrating' = Misfiled(stored, outputs)
      /\ chosen' = Forgetting(unlinked \cup Unsaved)
      /\ devices' = devices /\ stored' = stored /\ cached' = cached /\ snapshot' = snapshot
      /\ unsaved' = unsaved /\ drag' = drag
  BY Zenon DEF RefreshLists, controlVars, pickerVars
<1>2. /\ Fewer
      /\ \A n \in Name : chosen'[n] # None => n \notin unlinked \cup Unsaved
  BY <1>1, ForgettingFewer, Zenon
<1>3. ASSUME NEW i \in DOMAIN devices
      PROVE  /\ Output(outputs[i]) /\ outputs[i].aliases = devices[i].aliases
             /\ Output(listed'[i]) /\ listed'[i].aliases = devices[i].aliases
  <2>1. Output(outputs[i]) /\ outputs[i].aliases = devices[i].aliases
    BY ListedOutputs, Zenon
  <2>2. listed'[i] = Applied(stored, i, outputs[i])
    BY <1>1, Zenon
  <2> HIDE DEF outputs
  <2>3. CASE DOMAIN stored \cap Ids(i, outputs[i]) = {}
    BY <2>1, <2>2, <2>3, AppliedNothing
  <2>4. CASE DOMAIN stored \cap Ids(i, outputs[i]) # {}
    <3>1. /\ Output(Applied(stored, i, outputs[i]))
          /\ Applied(stored, i, outputs[i]).aliases = outputs[i].aliases
      BY <2>1, <2>4, AppliedRecord DEF FormInv
    <3>. QED BY <2>1, <2>2, <3>1
  <2>. QED BY <2>1, <2>3, <2>4
<1>4. DOMAIN listed' = DOMAIN devices
  BY <1>1
<1>5. ASSUME NEW n \in Name, chosen'[n] # None, ~Dragged(n)',
             NEW i \in DOMAIN devices, NameOf[i] = n
      PROVE  listed'[i].on = chosen'[n].on
  <2>1. Expected(n) /\ ~Waiting(n) /\ chosen'[n] = chosen[n]
    <3>1. n \notin Unsaved
      BY <1>2, <1>5, Zenon
    <3>2. ~Waiting(n)
      BY <3>1 DEF Unsaved, Waiting
    <3>. QED BY <1>1, <1>2, <1>5, <3>2 DEF Fewer, Expected, Dragged
  <2>2. Right(stored, n) /\ \E k \in DOMAIN stored : NameOf[k] = n
    BY <2>1, Zenon DEF RightInv, RecordsRight
  <2>3. ~Unlinked(i, outputs[i])
    BY <1>2, <1>5, Zenon
  <2>4. Output(outputs[i]) /\ outputs[i].aliases = devices[i].aliases
    BY <1>3, Zenon
  <2>5. listed'[i] = Applied(stored, i, outputs[i])
    BY <1>1, Zenon
  <2> HIDE DEF outputs
  <2>6. DOMAIN stored \cap Ids(i, outputs[i]) # {}
    BY <1>5, <2>2, <2>3 DEF Unlinked
  <2>7. PICK k \in DOMAIN stored \cap Ids(i, outputs[i]) : listed'[i].on = stored[k].on
    BY <2>4, <2>5, <2>6, AppliedRecord DEF FormInv
  <2>8. NameOf[k] = n
    BY <1>5, <2>4, <2>7 DEF IdentityInv, NamesAgree, Ids
  <2>. QED BY <2>1, <2>2, <2>7, <2>8 DEF Right
<1>6. FormInv'
  <2>1. ListsTyped'
    BY <1>1, <1>3, <1>4, Zenon DEF FormInv, ListsTyped, Outputs
  <2>2. ListsNamed'
    BY <1>1, <1>3, <1>4 DEF FormInv, ListsNamed, OneReceiver, IdentityInv, NamesAgree
  <2>3. MigratingListed'
    <3>1. DOMAIN outputs = DOMAIN devices
      BY ListDomains, Zenon
    <3>. QED BY <1>1, <1>4, <3>1 DEF MigratingListed, Misfiled
  <2>4. InOrder(stored)'
    BY <1>1 DEF FormInv, InOrder, HasFirst, BeforeRecords
  <2>. QED BY <2>1, <2>2, <2>3, <2>4, Zenon DEF FormInv
<1>7. RightInv'
  <2> HIDE DEF unlinked, outputs
  <2>1. ASSUME NEW n \in Name, chosen'[n] # None
        PROVE  /\ chosen[n] # None /\ chosen'[n] = chosen[n]
               /\ Dragged(n)' = Dragged(n) /\ Waiting(n)' = Waiting(n)
    BY <1>1, <1>2, <2>1 DEF Fewer, Dragged, Waiting
  <2>2. ListedOnce'
    BY <1>1, <1>4, <2>1 DEF RightInv, ListedOnce, Once
  <2>. cached' = cached /\ stored' = stored
    BY <1>1, Zenon
  <2>3. CacheRight'
    BY <2>1 DEF RightInv, CacheRight, Expected, Right
  <2>4. ListRight'
    BY <1>4, <1>5, <2>1 DEF ListRight, Expected, Right
  <2>5. RecordsRight'
    BY <2>1 DEF RightInv, RecordsRight, Expected, Right
  <2>6. HandRight'
    BY <1>1, <2>1 DEF RightInv, HandRight
  <2>. QED BY <1>2, <2>2, <2>3, <2>4, <2>5, <2>6 DEF RightInv, Fewer
<1>. QED BY <1>6, <1>7

\* A setting that is stored again is the one that was found.
LEMMA MigratesChoice ==
    ASSUME FormInv, RightInv, RefreshMigrates
    PROVE  FormInv' /\ RightInv'
<1>1. PICK i \in Firsts(migrating) :
          /\ refresh = "apply"
          /\ stored' = WithRecord(stored, i, listed[i])
          /\ migrating' = migrating \ {i}
          /\ devices' = devices /\ listed' = listed /\ cached' = cached /\ snapshot' = snapshot
          /\ unsaved' = unsaved /\ drag' = drag /\ chosen' = chosen
  BY Zenon DEF RefreshMigrates, scanVars, controlVars, pickerVars
<1>2. i \in DOMAIN listed
  BY <1>1 DEF Firsts, FormInv, MigratingListed
<1>3. FormInv'
  <2>1. InOrder(stored)'
    BY <1>1, RecordsOrdered DEF FormInv, InOrder, HasFirst, BeforeRecords
  <2>2. ListsTyped' /\ ListsNamed' /\ MigratingListed'
    BY <1>1 DEF FormInv, ListsTyped, Outputs, Output, ListsNamed, OneReceiver, MigratingListed
  <2>. QED BY <2>1, <2>2, Zenon DEF FormInv
<1>4. /\ DOMAIN stored' = (DOMAIN stored \ listed[i].aliases) \cup {i}
      /\ \A k \in DOMAIN stored' : k # i => stored'[k].on = stored[k].on
      /\ stored'[i].on = listed[i].on
  <2>1. stored' = WithRecord(stored, i, listed[i])
    BY <1>1, Zenon
  <2>. QED BY <2>1 DEF WithRecord
<1>5. \A j \in listed[i].aliases : NameOf[j] = NameOf[i]
  BY <1>2 DEF FormInv, ListsNamed, OneReceiver
<1>6. RecordsRight'
  <2> SUFFICES ASSUME NEW n \in Name, Expected(n), ~Waiting(n)
               PROVE  /\ \A k \in DOMAIN stored' : NameOf[k] = n => stored'[k].on = chosen[n].on
                      /\ \E k \in DOMAIN stored' : NameOf[k] = n
    BY <1>1 DEF RecordsRight, Expected, Waiting, Dragged, Right
  <2>1. /\ \A k \in DOMAIN stored : NameOf[k] = n => stored[k].on = chosen[n].on
        /\ \E k \in DOMAIN stored : NameOf[k] = n
    BY DEF RightInv, RecordsRight, Right
  <2>2. NameOf[i] = n => listed[i].on = chosen[n].on
    BY <1>2 DEF RightInv, ListRight, Right
  <2>. QED BY <1>4, <1>5, <2>1, <2>2
<1>7. ListedOnce' /\ CacheRight' /\ ListRight' /\ HandRight'
  BY <1>1 DEF RightInv, ListedOnce, Once, CacheRight, ListRight, HandRight, Expected, Right,
     Dragged, Waiting
<1>. QED BY <1>1, <1>3, <1>6, <1>7 DEF RightInv

LEMMA PublishesChoice ==
    ASSUME FormInv, RightInv, RefreshPublishes
    PROVE  FormInv' /\ RightInv'
<1>1. /\ cached' = listed /\ listed' = NoOutputs
      /\ devices' = devices /\ stored' = stored /\ snapshot' = snapshot /\ refresh' = "idle"
      /\ unsaved' = unsaved /\ drag' = drag /\ chosen' = chosen
  BY Zenon DEF RefreshPublishes, scanVars, controlVars, pickerVars
<1>2. DOMAIN listed' = {}
  BY <1>1, EmptyLists
<1>3. FormInv'
  BY <1>1, <1>2 DEF FormInv, ListsTyped, Outputs, Output, ListsNamed, OneReceiver,
     InOrder, HasFirst, BeforeRecords, MigratingListed
<1>4. ListedOnce'
  BY <1>1, <1>2 DEF RightInv, ListedOnce, Once
<1>5. CacheRight' /\ ListRight'
  BY <1>1, <1>2 DEF RightInv, CacheRight, ListRight, Expected, Right, Dragged
<1>6. RecordsRight' /\ HandRight'
  BY <1>1 DEF RightInv, RecordsRight, HandRight, Expected, Right, Dragged, Waiting
<1>. QED BY <1>1, <1>3, <1>4, <1>5, <1>6 DEF RightInv

-----------------------------------------------------------------------------
(* The control worker.                                                     *)

\* preserve_user_output_state() leaves outputs outputs, with their aliases.
LEMMA PreservedOutputs ==
    ASSUME NEW outputs, NEW previous, Outputs(outputs), NEW i \in DOMAIN outputs
    PROVE  /\ Output(Preserved(outputs, previous)[i])
           /\ Preserved(outputs, previous)[i].aliases = outputs[i].aliases
<1> DEFINE known == Ids(i, outputs[i]) \cap DOMAIN previous
<1>1. \/ Preserved(outputs, previous)[i] = outputs[i]
      \/ Preserved(outputs, previous)[i] = [outputs[i] EXCEPT !.on = previous[First(known)].on]
  BY Zenon DEF Preserved
<1>2. Output(outputs[i])
  BY DEF Outputs
<1>3. CASE Preserved(outputs, previous)[i] = outputs[i]
  BY <1>2, <1>3
<1>4. CASE Preserved(outputs, previous)[i] = [outputs[i] EXCEPT !.on = previous[First(known)].on]
  BY <1>2, <1>4, OutputSet
<1>. QED BY <1>1, <1>3, <1>4

LEMMA PreservedForm ==
    ASSUME NEW outputs, NEW previous, Outputs(outputs), OneReceiver(outputs)
    PROVE  Outputs(Preserved(outputs, previous)) /\ OneReceiver(Preserved(outputs, previous))
<1>1. DOMAIN Preserved(outputs, previous) = DOMAIN outputs
  BY DEF Preserved
<1>2. \A i \in DOMAIN outputs :
          /\ Output(Preserved(outputs, previous)[i])
          /\ Preserved(outputs, previous)[i].aliases = outputs[i].aliases
  BY PreservedOutputs, Zenon
<1>3. Outputs(Preserved(outputs, previous))
  BY <1>1, <1>2, Zenon DEF Outputs
<1>4. OneReceiver(Preserved(outputs, previous))
  BY <1>1, <1>2, Zenon DEF OneReceiver
<1>. QED BY <1>3, <1>4

\* An output with one earlier output under its ids gets the setting of that.
LEMMA PreservedSetting ==
    ASSUME NEW outputs, NEW previous, Outputs(outputs), NEW i \in DOMAIN outputs,
           Ids(i, outputs[i]) \cap DOMAIN previous = {i}
    PROVE  Preserved(outputs, previous)[i].on = previous[i].on
<1>1. First({i}) = i
  BY DEF First, Firsts
<1>2. Preserved(outputs, previous)[i] = [outputs[i] EXCEPT !.on = previous[i].on]
  BY <1>1 DEF Preserved
<1>. QED BY <1>2, OutputSet DEF Outputs

LEMMA SnapshotsChoice ==
    ASSUME FormInv, RightInv, ControlSnapshots
    PROVE  FormInv' /\ RightInv'
<1>1. /\ snapshot' = cached
      /\ devices' = devices /\ listed' = listed /\ cached' = cached /\ stored' = stored
      /\ unsaved' = unsaved /\ migrating' = migrating /\ refresh' = refresh
  BY Zenon DEF ControlSnapshots, scanVars, refreshVars
<1>2. FormInv'
  BY <1>1 DEF FormInv, ListsTyped, Outputs, Output, ListsNamed, OneReceiver, InOrder, HasFirst, BeforeRecords, MigratingListed
<1>3. UNCHANGED settingVars /\ UNCHANGED chosen /\ UNCHANGED devices
  BY Zenon DEF ControlSnapshots, scanVars, refreshVars, pickerVars, settingVars
<1>. QED BY <1>2, <1>3, SameChosen, SameDevices, RightKept, Zenon

LEMMA AppliesChoice ==
    ASSUME IdentityInv, FormInv, RightInv, ControlApplies
    PROVE  FormInv' /\ RightInv'
<1>1. /\ snapshot' = Preserved(Listed(registry'), snapshot)
      /\ devices' = devices /\ listed' = listed /\ cached' = cached /\ stored' = stored
      /\ unsaved' = unsaved /\ migrating' = migrating /\ refresh' = refresh
  BY Zenon DEF ControlApplies, refreshVars
<1>2. Outputs(snapshot') /\ OneReceiver(snapshot')
  <2>1. DOMAIN Listed(registry') = DOMAIN devices
    BY DEF Listed
  <2>2. \A i \in DOMAIN devices : /\ Output(Listed(registry')[i])
                                 /\ Listed(registry')[i].aliases = devices[i].aliases
    BY ListedOutputs, Zenon
  <2>3. Outputs(Listed(registry')) /\ OneReceiver(Listed(registry'))
    BY <2>1, <2>2, Zenon DEF Outputs, OneReceiver, IdentityInv, NamesAgree
  <2>. QED BY <1>1, <2>3, PreservedForm, Zenon
<1>3. FormInv'
  BY <1>1, <1>2 DEF FormInv, ListsTyped, Outputs, Output, ListsNamed, OneReceiver, InOrder, HasFirst, BeforeRecords, MigratingListed
<1>4. UNCHANGED settingVars /\ UNCHANGED chosen /\ UNCHANGED devices
  BY Zenon DEF ControlApplies, refreshVars, pickerVars, settingVars
<1>. QED BY <1>3, <1>4, SameChosen, SameDevices, RightKept, Zenon

\* The settings of the cache outlast its list.
LEMMA ControlPublishesChoice ==
    ASSUME FormInv, RightInv, ControlPublishes
    PROVE  FormInv' /\ RightInv'
<1>1. /\ cached' = Preserved(snapshot, cached) /\ snapshot' = NoOutputs
      /\ chosen' = Forgetting(Outdated)
      /\ devices' = devices /\ listed' = listed /\ stored' = stored
      /\ unsaved' = unsaved /\ drag' = drag /\ migrating' = migrating /\ refresh' = refresh
  BY Zenon DEF ControlPublishes, scanVars, refreshVars, pickerVars
<1>2. Fewer /\ \A n \in Name : chosen'[n] # None => n \notin Outdated
  BY <1>1, ForgettingFewer, Zenon
<1>3. DOMAIN snapshot' = {} /\ DOMAIN cached' = DOMAIN snapshot
  BY <1>1, EmptyLists, ListDomains
<1>4. FormInv'
  <2>1. Outputs(cached') /\ OneReceiver(cached')
    BY <1>1, PreservedForm, Zenon DEF FormInv, ListsTyped, ListsNamed
  <2>2. ListsTyped' /\ ListsNamed'
    BY <1>1, <1>3, <2>1 DEF FormInv, ListsTyped, Outputs, Output, ListsNamed, OneReceiver
  <2>3. InOrder(stored)' /\ MigratingListed'
    BY <1>1 DEF FormInv, InOrder, HasFirst, BeforeRecords, MigratingListed
  <2>. QED BY <2>2, <2>3, Zenon DEF FormInv
<1>5. ASSUME NEW n \in Name, chosen'[n] # None
      PROVE  /\ chosen[n] # None /\ chosen'[n] = chosen[n]
             /\ Dragged(n)' = Dragged(n) /\ Waiting(n)' = Waiting(n)
             /\ \A i \in DOMAIN snapshot : NameOf[i] = n => i \in DOMAIN cached
  <2>1. \A i \in DOMAIN snapshot : NameOf[i] = n => i \in DOMAIN cached
    BY <1>2, <1>5 DEF Outdated
  <2>. QED BY <1>1, <1>2, <1>5, <2>1 DEF Fewer, Dragged, Waiting
<1>6. ListedOnce'
  BY <1>1, <1>3, <1>5 DEF RightInv, ListedOnce, Once
<1>7. CacheRight'
  <2> SUFFICES ASSUME NEW n \in Name, chosen'[n] # None, ~Dragged(n)',
                      NEW i \in DOMAIN cached', NameOf[i] = n
               PROVE  cached'[i].on = chosen'[n].on
    BY Zenon DEF CacheRight, Expected, Right
  <2>1. i \in DOMAIN snapshot /\ i \in DOMAIN cached
    BY <1>3, <1>5
  <2>2. \A j \in Ids(i, snapshot[i]) : NameOf[j] = n
    BY <2>1 DEF FormInv, ListsNamed, OneReceiver, Ids
  <2>3. Once(DOMAIN cached, n)
    BY <1>5, Zenon DEF RightInv, ListedOnce
  <2>4. Ids(i, snapshot[i]) \cap DOMAIN cached = {i}
    BY <2>1, <2>2, <2>3 DEF Once, Ids
  <2>5. cached'[i].on = cached[i].on
    BY <1>1, <2>1, <2>4, PreservedSetting DEF FormInv, ListsTyped
  <2>6. cached[i].on = chosen[n].on
    BY <1>5, <2>1 DEF RightInv, CacheRight, Expected, Right
  <2>. QED BY <1>5, <2>5, <2>6
<1>8. ListRight' /\ RecordsRight'
  <2>. listed' = listed /\ stored' = stored
    BY <1>1, Zenon
  <2>. QED BY <1>5 DEF RightInv, ListRight, RecordsRight, Expected, Right
<1>9. HandRight'
  BY <1>1, <1>5 DEF RightInv, HandRight
<1>. QED BY <1>2, <1>4, <1>6, <1>7, <1>8, <1>9 DEF RightInv, Fewer

-----------------------------------------------------------------------------
(* The user, and a restart.                                                *)

\* A setter changes one output of the cache.
LEMMA SetsForm ==
    ASSUME FormInv, NEW i \in DOMAIN cached, NEW on, NEW full, Sets(i, on, full),
           listed' = listed, snapshot' = snapshot, stored' = stored, migrating' = migrating,
           refresh' = refresh
    PROVE  /\ FormInv'
           /\ DOMAIN cached' = DOMAIN cached /\ cached'[i].on = on
           /\ \A j \in DOMAIN cached : j # i => cached'[j] = cached[j]
           /\ unsaved' # None /\ unsaved'.id = i /\ unsaved'.on = on
<1>1. /\ cached' = [cached EXCEPT ![i].on = on]
      /\ unsaved' = [id |-> i, on |-> on, aliases |-> cached[i].aliases, full |-> full]
  BY Zenon DEF Sets
<1>2. Output(cached[i])
  BY DEF FormInv, ListsTyped, Outputs
<1>3. /\ DOMAIN cached' = DOMAIN cached
      /\ \A j \in DOMAIN cached : j # i => cached'[j] = cached[j]
      /\ cached'[i] = [cached[i] EXCEPT !.on = on]
  BY <1>1
<1>4. unsaved' # None
  <2>1. DOMAIN None = {"id"}
    BY DEF None
  <2>2. "on" \in DOMAIN unsaved'
    BY <1>1
  <2>. QED BY <2>1, <2>2
<1>5. unsaved'.id = i /\ unsaved'.on = on /\ unsaved'.aliases = cached[i].aliases
  BY <1>1
<1>6. Output(cached'[i]) /\ cached'[i].on = on /\ cached'[i].aliases = cached[i].aliases
  BY <1>2, <1>3, OutputSet
<1>7. Outputs(cached')
  <2>. QED BY <1>3, <1>6, Zenon DEF FormInv, ListsTyped, Outputs
<1>8. ListsTyped'
  BY <1>7 DEF FormInv, ListsTyped, Outputs, Output
<1>9. ListsNamed'
  <2>1. \A j \in DOMAIN cached' : j \in DOMAIN cached /\ cached'[j].aliases = cached[j].aliases
    BY <1>3, <1>6
  <2>2. OneReceiver(cached')
    BY <2>1 DEF FormInv, ListsNamed, OneReceiver
  <2>3. \A j \in unsaved'.aliases : NameOf[j] = NameOf[unsaved'.id]
    BY <1>5 DEF FormInv, ListsNamed, OneReceiver
  <2>. QED BY <2>2, <2>3 DEF FormInv, ListsNamed, OneReceiver
<1>10. InOrder(stored)' /\ MigratingListed'
  BY DEF FormInv, InOrder, HasFirst, BeforeRecords, MigratingListed
<1>11. FormInv'
  BY <1>8, <1>9, <1>10, Zenon DEF FormInv
<1>. QED BY <1>3, <1>4, <1>5, <1>6, <1>11

\* Where a change is expected to last, nobody holds an older setting.
LEMMA NotRisky ==
    ASSUME HeldInv, NEW i, ~Risky(i), NameOf[i] \in Name
    PROVE  /\ DOMAIN listed = {}
           /\ Once(DOMAIN devices, NameOf[i]) /\ Once(DOMAIN cached, NameOf[i])
BY DEF HeldInv, NothingListed, Risky, RecordsRead, ListedTwice, Once

\* What the user means to set.
ChoseOne(i, on) ==
    /\ DOMAIN chosen' = Name
    /\ \A n \in Name : n # NameOf[i] => chosen'[n] = chosen[n]
    /\ \A n \in Name : n = NameOf[i] /\ chosen'[n] # None => ~Risky(i) /\ chosen'[n].on = on

LEMMA ChoosesOne ==
    ASSUME RightInv, NEW i, NEW on, Chooses(i, on)
    PROVE  ChoseOne(i, on)
<1>1. chosen' = [chosen EXCEPT ![NameOf[i]] = IF Risky(i) THEN None ELSE [id |-> i, on |-> on]]
  BY Zenon DEF Chooses
<1>. QED BY <1>1 DEF RightInv, ChoseOne

LEMMA ClicksChoice ==
    ASSUME HeldInv, FormInv, RightInv, NEW i, Clicks(i)
    PROVE  FormInv' /\ RightInv'
<1> DEFINE on == ~cached[i].on
<1>1. /\ i \in DOMAIN cached /\ drag = None /\ unsaved = None
      /\ Chooses(i, on) /\ Sets(i, on, TRUE)
      /\ devices' = devices /\ listed' = listed /\ snapshot' = snapshot /\ stored' = stored
      /\ migrating' = migrating /\ refresh' = refresh /\ drag' = drag
  BY Zenon DEF Clicks, Idle, scanVars, refreshVars, controlVars
<1> HIDE DEF on
<1>2. /\ FormInv'
      /\ DOMAIN cached' = DOMAIN cached /\ cached'[i].on = on
      /\ \A j \in DOMAIN cached : j # i => cached'[j] = cached[j]
      /\ unsaved' # None /\ unsaved'.id = i /\ unsaved'.on = on
  BY <1>1, SetsForm, Zenon
<1>3. /\ DOMAIN chosen' = Name
      /\ \A n \in Name : n # NameOf[i] => chosen'[n] = chosen[n]
      /\ \A n \in Name : n = NameOf[i] /\ chosen'[n] # None => ~Risky(i) /\ chosen'[n].on = on
  <2>1. ChoseOne(i, on)
    BY <1>1, ChoosesOne, Zenon
  <2>. QED BY <2>1, Zenon DEF ChoseOne
<1>4. ASSUME NEW n \in Name, n = NameOf[i], chosen'[n] # None
      PROVE  /\ chosen'[n].on = on /\ DOMAIN listed = {}
             /\ Once(DOMAIN devices, n) /\ Once(DOMAIN cached, n)
  BY <1>3, <1>4, NotRisky, Zenon
<1>5. ASSUME NEW n \in Name, n # NameOf[i], chosen'[n] # None
      PROVE  /\ chosen'[n] = chosen[n] /\ chosen[n] # None
             /\ Expected(n) /\ ~Waiting(n) /\ ~Waiting(n)'
  BY <1>1, <1>2, <1>3, <1>5 DEF Expected, Dragged, Waiting
<1>6. ListedOnce'
  <2>1. ASSUME NEW n \in Name, chosen'[n] # None
        PROVE  Once(DOMAIN devices, n) /\ Once(DOMAIN listed, n) /\ Once(DOMAIN cached, n)
    <3>1. CASE n = NameOf[i]
      BY <1>4, <2>1, <3>1 DEF Once
    <3>2. CASE n # NameOf[i]
      BY <1>5, <2>1, <3>2, Zenon DEF RightInv, ListedOnce
    <3>. QED BY <3>1, <3>2
  <2>. QED BY <1>1, <1>2, <2>1 DEF ListedOnce, Once
<1>7. CacheRight'
  <2> SUFFICES ASSUME NEW n \in Name, chosen'[n] # None, NEW j \in DOMAIN cached, NameOf[j] = n
               PROVE  cached'[j].on = chosen'[n].on
    BY <1>2 DEF CacheRight, Expected, Right
  <2>1. CASE n = NameOf[i]
    <3>1. j = i
      BY <1>1, <1>4, <2>1 DEF Once
    <3>. QED BY <1>2, <1>4, <2>1, <3>1
  <2>2. CASE n # NameOf[i]
    <3>1. cached[j].on = chosen[n].on
      BY <1>5, <2>2 DEF RightInv, CacheRight, Right
    <3>. QED BY <1>2, <1>5, <2>2, <3>1
  <2>. QED BY <2>1, <2>2
<1>8. ListRight'
  <2> SUFFICES ASSUME NEW n \in Name, chosen'[n] # None, NEW j \in DOMAIN listed, NameOf[j] = n
               PROVE  listed[j].on = chosen'[n].on
    BY <1>1 DEF ListRight, Expected, Right
  <2>1. n # NameOf[i]
    BY <1>4
  <2>. QED BY <1>5, <2>1 DEF RightInv, ListRight, Right
<1>9. RecordsRight'
  <2> SUFFICES ASSUME NEW n \in Name, chosen'[n] # None, ~Waiting(n)'
               PROVE  /\ \A k \in DOMAIN stored : NameOf[k] = n => stored[k].on = chosen'[n].on
                      /\ \E k \in DOMAIN stored : NameOf[k] = n
    BY <1>1 DEF RecordsRight, Expected, Right
  <2>1. n # NameOf[i]
    BY <1>2 DEF Waiting
  <2>2. chosen'[n] = chosen[n] /\ Expected(n) /\ ~Waiting(n)
    BY <1>5, <2>1
  <2>. QED BY <2>2 DEF RightInv, RecordsRight, Right
<1>10. HandRight'
  <2>1. \A n \in Name : ~Dragged(n)'
    BY <1>1 DEF Dragged
  <2>2. \A n \in Name : chosen'[n] # None /\ Waiting(n)' => unsaved'.on = chosen'[n].on
    BY <1>2, <1>4 DEF Waiting
  <2>. QED BY <2>1, <2>2 DEF HandRight
<1>. QED BY <1>2, <1>3, <1>6, <1>7, <1>8, <1>9, <1>10 DEF RightInv

\* While the thumb of a receiver is held nothing is expected of it but what the
\* thumb will set.
LEMMA GrabsChoice ==
    ASSUME HeldInv, FormInv, RightInv, NEW i, Grabs(i)
    PROVE  FormInv' /\ RightInv'
<1>1. PICK on \in BOOLEAN :
          /\ drag = None /\ unsaved = None
          /\ Chooses(i, on) /\ drag' = [id |-> i, on |-> on]
          /\ devices' = devices /\ listed' = listed /\ snapshot' = snapshot /\ stored' = stored
          /\ cached' = cached /\ unsaved' = unsaved
          /\ migrating' = migrating /\ refresh' = refresh
  BY Zenon DEF Grabs, Idle, scanVars, refreshVars, controlVars
<1>2. drag' # None /\ drag'.id = i /\ drag'.on = on
  <2>1. "on" \in DOMAIN drag' /\ DOMAIN None = {"id"} /\ drag'.id = i /\ drag'.on = on
    BY <1>1 DEF None
  <2>. QED BY <2>1
<1>3. /\ DOMAIN chosen' = Name
      /\ \A n \in Name : n # NameOf[i] => chosen'[n] = chosen[n]
      /\ \A n \in Name : n = NameOf[i] /\ chosen'[n] # None => ~Risky(i) /\ chosen'[n].on = on
  <2>1. ChoseOne(i, on)
    BY <1>1, ChoosesOne, Zenon
  <2>. QED BY <2>1, Zenon DEF ChoseOne
<1>4. ASSUME NEW n \in Name, n = NameOf[i], chosen'[n] # None
      PROVE  /\ chosen'[n].on = on /\ DOMAIN listed = {} /\ Dragged(n)'
             /\ Once(DOMAIN devices, n) /\ Once(DOMAIN cached, n)
  <2>1. Dragged(n)'
    BY <1>2, <1>4 DEF Dragged
  <2>. QED BY <1>3, <1>4, <2>1, NotRisky, Zenon
<1>5. ASSUME NEW n \in Name, n # NameOf[i], chosen'[n] # None
      PROVE  /\ chosen'[n] = chosen[n] /\ chosen[n] # None
             /\ Expected(n) /\ ~Waiting(n) /\ ~Waiting(n)' /\ ~Dragged(n)'
  BY <1>1, <1>2, <1>3, <1>5 DEF Expected, Dragged, Waiting
<1>6. FormInv'
  BY <1>1, FormKept, Zenon
<1>7. ListedOnce'
  <2>1. ASSUME NEW n \in Name, chosen'[n] # None
        PROVE  Once(DOMAIN devices, n) /\ Once(DOMAIN listed, n) /\ Once(DOMAIN cached, n)
    <3>1. CASE n = NameOf[i]
      BY <1>4, <2>1, <3>1 DEF Once
    <3>2. CASE n # NameOf[i]
      BY <1>5, <2>1, <3>2, Zenon DEF RightInv, ListedOnce
    <3>. QED BY <3>1, <3>2
  <2>. QED BY <1>1, <2>1 DEF ListedOnce, Once
<1>8. CacheRight' /\ ListRight' /\ RecordsRight'
  <2>1. ASSUME NEW n \in Name, Expected(n)'
        PROVE  chosen'[n] = chosen[n] /\ Expected(n) /\ ~Waiting(n)
    BY <1>4, <1>5, <2>1 DEF Expected
  <2>2. cached' = cached /\ listed' = listed /\ stored' = stored
    BY <1>1, Zenon
  <2>. QED BY <2>1, <2>2 DEF RightInv, CacheRight, ListRight, RecordsRight, Right
<1>9. HandRight'
  <2>1. ASSUME NEW n \in Name, chosen'[n] # None
        PROVE  (Dragged(n)' => drag'.on = chosen'[n].on) /\ ~Waiting(n)'
    <3>1. ~Waiting(n)'
      BY <1>1 DEF Waiting
    <3>. QED BY <1>2, <1>4, <1>5, <2>1, <3>1
  <2>. QED BY <2>1 DEF HandRight
<1>. QED BY <1>3, <1>6, <1>7, <1>8, <1>9 DEF RightInv

\* What the thumb sets when it is released is what was chosen.
LEMMA ReleasesChoice ==
    ASSUME HeldInv, FormInv, RightInv, Releases
    PROVE  FormInv' /\ RightInv'
<1> DEFINE i == drag.id
           on == drag.on
<1>1. /\ i \in DOMAIN cached /\ drag # None /\ drag' = None /\ unsaved = None
      /\ Sets(i, on, FALSE)
      /\ chosen' = Forgetting(IF Risky(i) THEN {NameOf[i]} ELSE {})
      /\ devices' = devices /\ listed' = listed /\ snapshot' = snapshot /\ stored' = stored
      /\ migrating' = migrating /\ refresh' = refresh
  BY Zenon DEF Releases, Idle, scanVars, refreshVars, controlVars
<1>2. \A n \in Name : chosen[n] # None /\ n = NameOf[i] => on = chosen[n].on
  BY <1>1 DEF RightInv, HandRight, Dragged
<1>3. \A n \in Name : Dragged(n) <=> n = NameOf[i]
  BY <1>1 DEF Dragged
<1> HIDE DEF i, on
<1>4. /\ FormInv'
      /\ DOMAIN cached' = DOMAIN cached /\ cached'[i].on = on
      /\ \A j \in DOMAIN cached : j # i => cached'[j] = cached[j]
      /\ unsaved' # None /\ unsaved'.id = i /\ unsaved'.on = on
  BY <1>1, SetsForm, Zenon
<1>5. /\ Fewer
      /\ \A n \in Name : chosen'[n] # None => n \notin IF Risky(i) THEN {NameOf[i]} ELSE {}
  BY <1>1, ForgettingFewer, Zenon
<1>6. ASSUME NEW n \in Name, chosen'[n] # None
      PROVE  chosen'[n] = chosen[n] /\ chosen[n] # None
  BY <1>5, <1>6 DEF Fewer
<1>7. ASSUME NEW n \in Name, n = NameOf[i], chosen'[n] # None
      PROVE  chosen'[n].on = on /\ DOMAIN listed = {} /\ Once(DOMAIN cached, n)
  <2>1. ~Risky(i)
    BY <1>5, <1>7
  <2>2. chosen'[n].on = on
    BY <1>2, <1>6, <1>7
  <2>. QED BY <1>7, <2>1, <2>2, NotRisky, Zenon
<1>8. ASSUME NEW n \in Name, n # NameOf[i], chosen'[n] # None
      PROVE  Expected(n) /\ ~Waiting(n)
  BY <1>1, <1>3, <1>6, <1>8 DEF Expected, Waiting
<1>9. ListedOnce'
  BY <1>1, <1>4, <1>6 DEF RightInv, ListedOnce, Once
<1>10. CacheRight'
  <2> SUFFICES ASSUME NEW n \in Name, chosen'[n] # None, NEW j \in DOMAIN cached, NameOf[j] = n
               PROVE  cached'[j].on = chosen'[n].on
    BY <1>4 DEF CacheRight, Expected, Right
  <2>1. CASE n = NameOf[i]
    <3>1. j = i
      BY <1>1, <1>7, <2>1 DEF Once
    <3>. QED BY <1>4, <1>7, <2>1, <3>1
  <2>2. CASE n # NameOf[i]
    <3>1. cached[j].on = chosen[n].on
      BY <1>8, <2>2 DEF RightInv, CacheRight, Right
    <3>. QED BY <1>4, <1>6, <2>2, <3>1
  <2>. QED BY <2>1, <2>2
<1>11. ListRight'
  <2> SUFFICES ASSUME NEW n \in Name, chosen'[n] # None, NEW j \in DOMAIN listed, NameOf[j] = n
               PROVE  listed[j].on = chosen'[n].on
    BY <1>1 DEF ListRight, Expected, Right
  <2>1. n # NameOf[i]
    BY <1>7
  <2>. QED BY <1>6, <1>8, <2>1 DEF RightInv, ListRight, Right
<1>12. RecordsRight'
  <2> SUFFICES ASSUME NEW n \in Name, chosen'[n] # None, ~Waiting(n)'
               PROVE  /\ \A k \in DOMAIN stored : NameOf[k] = n => stored[k].on = chosen'[n].on
                      /\ \E k \in DOMAIN stored : NameOf[k] = n
    BY <1>1 DEF RecordsRight, Expected, Right
  <2>1. n # NameOf[i]
    BY <1>4 DEF Waiting
  <2>2. chosen'[n] = chosen[n] /\ Expected(n) /\ ~Waiting(n)
    BY <1>6, <1>8, <2>1
  <2>. QED BY <2>2 DEF RightInv, RecordsRight, Right
<1>13. HandRight'
  <2>1. \A n \in Name : ~Dragged(n)'
    BY <1>1 DEF Dragged
  <2>2. \A n \in Name : chosen'[n] # None /\ Waiting(n)' => unsaved'.on = chosen'[n].on
    BY <1>4, <1>7 DEF Waiting
  <2>. QED BY <2>1, <2>2 DEF HandRight
<1>. QED BY <1>4, <1>5, <1>9, <1>10, <1>11, <1>12, <1>13 DEF RightInv, Fewer

\* A thumb whose output is gone sets nothing.
LEMMA ReleasesInVainChoice ==
    ASSUME FormInv, RightInv, ReleasesInVain
    PROVE  FormInv' /\ RightInv'
<1>1. /\ drag # None /\ drag' = None /\ chosen' = Forgetting({NameOf[drag.id]})
      /\ devices' = devices /\ listed' = listed /\ snapshot' = snapshot /\ stored' = stored
      /\ cached' = cached /\ unsaved' = unsaved
      /\ migrating' = migrating /\ refresh' = refresh
  BY Zenon DEF ReleasesInVain, scanVars, refreshVars, controlVars
<1>2. Fewer /\ \A n \in Name : chosen'[n] # None => n \notin {NameOf[drag.id]}
  BY <1>1, ForgettingFewer, Zenon
<1>3. ASSUME NEW n \in Name, chosen'[n] # None
      PROVE  /\ chosen[n] # None /\ chosen'[n] = chosen[n] /\ Expected(n)
             /\ ~Dragged(n)' /\ Waiting(n)' = Waiting(n)
  BY <1>1, <1>2, <1>3 DEF Fewer, Dragged, Waiting, Expected
<1>4. FormInv'
  BY <1>1, FormKept, Zenon
<1>5. ListedOnce'
  BY <1>1, <1>3 DEF RightInv, ListedOnce, Once
<1>6. CacheRight' /\ ListRight' /\ RecordsRight'
  <2>1. cached' = cached /\ listed' = listed /\ stored' = stored
    BY <1>1, Zenon
  <2>2. ASSUME NEW n \in Name, Expected(n)'
        PROVE  chosen'[n] = chosen[n] /\ Expected(n) /\ Waiting(n)' = Waiting(n)
    BY <1>3, <2>2 DEF Expected
  <2>. QED BY <2>1, <2>2 DEF RightInv, CacheRight, ListRight, RecordsRight, Right
<1>7. HandRight'
  BY <1>1, <1>3 DEF RightInv, HandRight
<1>. QED BY <1>2, <1>4, <1>5, <1>6, <1>7 DEF RightInv, Fewer

\* With the change its record is stored, and no older one of the receiver stays.
LEMMA StoresChoice ==
    ASSUME FormInv, RightInv, Stores
    PROVE  FormInv' /\ RightInv'
<1> DEFINE i == unsaved.id
<1>1. /\ unsaved # None /\ unsaved' = None
      /\ stored' = WithRecord(stored, i, unsaved)
      /\ chosen' = Forgetting(IF Unlinked(i, unsaved) THEN Unsaved ELSE {})
      /\ devices' = devices /\ listed' = listed /\ snapshot' = snapshot /\ cached' = cached
      /\ drag' = drag /\ migrating' = migrating /\ refresh' = refresh
  BY Zenon DEF Stores, Idle, scanVars, refreshVars, pickerVars
<1>2. Fewer /\ \A n \in Name : chosen'[n] # None
                  => n \notin IF Unlinked(i, unsaved) THEN Unsaved ELSE {}
  BY <1>1, ForgettingFewer, Zenon
<1>3. /\ DOMAIN stored' = (DOMAIN stored \ unsaved.aliases) \cup {i}
      /\ \A k \in DOMAIN stored' : k # i => stored'[k].on = stored[k].on
      /\ stored'[i].on = unsaved.on
  <2>1. stored' = WithRecord(stored, i, unsaved)
    BY <1>1, Zenon
  <2>. QED BY <2>1 DEF WithRecord
<1>4. \A j \in unsaved.aliases : NameOf[j] = NameOf[i]
  BY <1>1 DEF FormInv, ListsNamed
<1>5. \A n \in Name : Waiting(n) <=> n = NameOf[i]
  BY <1>1 DEF Waiting
<1>6. Unsaved = {NameOf[i]}
  BY <1>1 DEF Unsaved
<1>7. FormInv'
  <2>1. InOrder(stored)'
    BY <1>1, RecordsOrdered DEF FormInv, InOrder, HasFirst, BeforeRecords
  <2>2. ListsTyped' /\ ListsNamed' /\ MigratingListed'
    BY <1>1 DEF FormInv, ListsTyped, Outputs, Output, ListsNamed, OneReceiver, MigratingListed
  <2>. QED BY <2>1, <2>2, Zenon DEF FormInv
<1>8. ASSUME NEW n \in Name, chosen'[n] # None
      PROVE  /\ chosen[n] # None /\ chosen'[n] = chosen[n]
             /\ Dragged(n)' = Dragged(n) /\ ~Waiting(n)'
  BY <1>1, <1>2, <1>8 DEF Fewer, Dragged, Waiting
<1>9. RecordsRight'
  <2> SUFFICES ASSUME NEW n \in Name, chosen'[n] # None, ~Dragged(n)
               PROVE  /\ \A k \in DOMAIN stored' : NameOf[k] = n => stored'[k].on = chosen[n].on
                      /\ \E k \in DOMAIN stored' : NameOf[k] = n
    BY <1>8 DEF RecordsRight, Expected, Right
  <2>0. Expected(n)
    BY <1>8 DEF Expected
  <2>1. CASE n = NameOf[i]
    <3>1. ~Unlinked(i, unsaved)
      BY <1>2, <1>6, <2>1
    <3>2. \A k \in DOMAIN stored : NameOf[k] = n => k \in Ids(i, unsaved)
      BY <2>1, <3>1 DEF Unlinked
    <3>3. unsaved.on = chosen[n].on
      BY <1>5, <1>8, <2>1 DEF RightInv, HandRight
    <3> HIDE DEF i
    <3>. QED BY <1>3, <2>1, <3>2, <3>3 DEF Ids
  <2>2. CASE n # NameOf[i]
    <3>1. /\ \A k \in DOMAIN stored : NameOf[k] = n => stored[k].on = chosen[n].on
          /\ \E k \in DOMAIN stored : NameOf[k] = n
      BY <1>5, <2>0, <2>2 DEF RightInv, RecordsRight, Right
    <3> HIDE DEF i
    <3>. QED BY <1>3, <1>4, <2>2, <3>1
  <2>. QED BY <2>1, <2>2
<1>10. ListedOnce'
  BY <1>1, <1>8 DEF RightInv, ListedOnce, Once
<1>11. CacheRight' /\ ListRight'
  <2>1. cached' = cached /\ listed' = listed
    BY <1>1, Zenon
  <2>2. ASSUME NEW n \in Name, Expected(n)'
        PROVE  chosen'[n] = chosen[n] /\ Expected(n)
    BY <1>8, <2>2 DEF Expected
  <2>. QED BY <2>1, <2>2 DEF RightInv, CacheRight, ListRight, Right
<1>12. HandRight'
  BY <1>1, <1>8 DEF RightInv, HandRight
<1>. QED BY <1>2, <1>7, <1>9, <1>10, <1>11, <1>12 DEF RightInv, Fewer

\* A restart keeps the records, and comes when nothing is on its way to them.
LEMMA RestartsChoice ==
    ASSUME FormInv, RightInv, Restart
    PROVE  FormInv' /\ RightInv'
<1>1. /\ devices' = NoDevices /\ cached' = NoOutputs /\ refresh = "idle"
      /\ listed' = listed /\ snapshot' = snapshot /\ stored' = stored /\ drag' = drag
      /\ unsaved' = unsaved /\ migrating' = migrating /\ refresh' = refresh /\ chosen' = chosen
  BY Zenon DEF Restart, refreshVars, controlVars
<1>2. DOMAIN cached' = {} /\ DOMAIN devices' = {}
  BY <1>1, EmptyLists
<1>3. FormInv'
  BY <1>1, <1>2 DEF FormInv, ListsTyped, Outputs, Output, ListsNamed, OneReceiver, InOrder, HasFirst, BeforeRecords, MigratingListed
<1>4. ListedOnce' /\ CacheRight'
  BY <1>1, <1>2 DEF RightInv, ListedOnce, Once, CacheRight, Right
<1>5. ListRight' /\ RecordsRight' /\ HandRight'
  BY <1>1 DEF RightInv, ListRight, RecordsRight, HandRight, Expected, Right, Dragged, Waiting
<1>. QED BY <1>1, <1>3, <1>4, <1>5 DEF RightInv

-----------------------------------------------------------------------------
(* The invariant of what was chosen.                                       *)

\* A choice is held for the receiver that it was made for.
ChosenOwn == \A n \in Name : chosen[n] # None => NameOf[chosen[n].id] = n

ChoiceInv == SettingsInv /\ FormInv /\ RightInv /\ ChosenOwn

LEMMA OwnStays == RightInv /\ ChosenOwn /\ [Next]_vars => ChosenOwn'
<1> SUFFICES ASSUME RightInv, ChosenOwn, [Next]_vars PROVE ChosenOwn'
  OBVIOUS
<1>1. \/ chosen' = chosen
      \/ \E names : chosen' = Forgetting(names)
      \/ \E i, on : Chooses(i, on)
  <2>1. ASSUME Refresh PROVE chosen' = chosen \/ \E names : chosen' = Forgetting(names)
    BY <2>1, Zenon DEF Refresh, RefreshStarts, RefreshBrowses, RefreshFails, RefreshMerges,
       RefreshLists, RefreshMigrates, RefreshLeaves, RefreshPublishes
  <2>2. ASSUME Control PROVE chosen' = chosen \/ \E names : chosen' = Forgetting(names)
    BY <2>2, Zenon DEF Control, ControlSnapshots, ControlApplies, ControlPublishes
  <2>3. ASSUME User
        PROVE  \/ chosen' = chosen
               \/ \E names : chosen' = Forgetting(names)
               \/ \E i, on : Chooses(i, on)
    BY <2>3, Zenon DEF User, PickerReads, Releases, ReleasesInVain, Stores, Clicks,
     ClicksInVain, Grabs
  <2>4. ASSUME Restart \/ UNCHANGED vars PROVE chosen' = chosen
    BY <2>4, Zenon DEF Restart, vars
  <2>. QED BY <2>1, <2>2, <2>3, <2>4, Zenon DEF Next
<1>2. ASSUME NEW names, chosen' = Forgetting(names) PROVE ChosenOwn'
  BY <1>2, ForgettingFewer DEF ChosenOwn, Fewer
<1>3. ASSUME NEW i, NEW on, Chooses(i, on) PROVE ChosenOwn'
  <2>1. chosen' = [chosen EXCEPT ![NameOf[i]] = IF Risky(i) THEN None ELSE [id |-> i, on |-> on]]
    BY <1>3, Zenon DEF Chooses
  <2>. QED BY <2>1 DEF RightInv, ChosenOwn
<1>. QED BY <1>1, <1>2, <1>3 DEF ChosenOwn

LEMMA InitChoice == Init => ChoiceInv
<1> SUFFICES ASSUME Init PROVE ChoiceInv
  OBVIOUS
<1>1. /\ cached = NoOutputs /\ listed = NoOutputs /\ snapshot = NoOutputs
      /\ stored = NoRecords /\ unsaved = None /\ refresh = "idle"
      /\ chosen = [n \in Name |-> None]
  BY Zenon DEF Init
<1>2. DOMAIN cached = {} /\ DOMAIN listed = {} /\ DOMAIN snapshot = {} /\ DOMAIN stored = {}
  BY <1>1, EmptyLists DEF NoRecords
<1>3. FormInv
  BY <1>1, <1>2 DEF FormInv, ListsTyped, Outputs, ListsNamed, OneReceiver, InOrder, HasFirst, BeforeRecords, MigratingListed
<1>4. DOMAIN chosen = Name /\ \A n \in Name : chosen[n] = None
  BY <1>1
<1>5. RightInv /\ ChosenOwn
  BY <1>4 DEF RightInv, ListedOnce, CacheRight, ListRight, RecordsRight, HandRight, Expected,
     ChosenOwn
<1>. QED BY <1>3, <1>5, InitInv DEF ChoiceInv

LEMMA StepChoice == ChoiceInv /\ [Next]_vars => ChoiceInv'
<1> SUFFICES ASSUME SettingsInv, FormInv, RightInv, ChosenOwn, [Next]_vars
             PROVE  ChoiceInv'
  BY Zenon DEF ChoiceInv
<1>1. IdentityInv /\ HeldInv
  BY DEF SettingsInv
<1>2. SettingsInv' /\ ChosenOwn'
  BY StepInv, OwnStays, Zenon
<1>3. ASSUME Refresh PROVE FormInv' /\ RightInv'
  <2>1. ASSUME RefreshStarts \/ RefreshBrowses \/ RefreshFails \/ RefreshLeaves
        PROVE  FormInv' /\ RightInv'
    <3>1. /\ UNCHANGED <<devices, listed, migrating, cached, snapshot, stored, unsaved, drag,
                         chosen>>
          /\ refresh' \in {"browse", "merge", "idle", "publish"}
      BY <2>1, Zenon DEF RefreshStarts, RefreshBrowses, RefreshFails, RefreshLeaves, scanVars,
         controlVars, pickerVars
    <3>2. refresh' # "apply"
      BY <3>1
    <3>. QED BY <3>1, <3>2, QuietChoice, Zenon
  <2>. QED BY <1>1, <1>3, <2>1, MergesChoice, ListsChoice, MigratesChoice, PublishesChoice, Zenon
           DEF Refresh
<1>4. ASSUME Control PROVE FormInv' /\ RightInv'
  BY <1>1, <1>4, SnapshotsChoice, AppliesChoice, ControlPublishesChoice, Zenon DEF Control
<1>5. ASSUME User PROVE FormInv' /\ RightInv'
  <2>1. ASSUME PickerReads PROVE FormInv' /\ RightInv'
    <3>1. /\ UNCHANGED <<devices, listed, migrating, cached, snapshot, stored, unsaved, drag,
                         chosen>>
          /\ refresh' = refresh
      BY <2>1, Zenon DEF PickerReads, scanVars, refreshVars, controlVars
    <3>. QED BY <3>1, QuietChoice, Zenon
  <2>2. ASSUME NEW i, ClicksInVain(i) PROVE FormInv' /\ RightInv'
    <3>1. /\ UNCHANGED <<devices, listed, migrating, cached, snapshot, stored, unsaved, drag,
                         chosen>>
          /\ refresh' = refresh
      BY <2>2, Zenon DEF ClicksInVain, scanVars, refreshVars, controlVars, boundVars
    <3>. QED BY <3>1, QuietChoice, Zenon
  <2>. QED BY <1>1, <1>5, <2>1, <2>2, ReleasesChoice, ReleasesInVainChoice, StoresChoice, ClicksChoice,
              GrabsChoice, Zenon DEF User
<1>6. ASSUME UNCHANGED vars PROVE FormInv' /\ RightInv'
  <2>1. /\ UNCHANGED <<devices, listed, migrating, cached, snapshot, stored, unsaved, drag,
                       chosen>>
        /\ refresh' = refresh
    BY <1>6, Zenon DEF vars, scanVars, refreshVars, controlVars, pickerVars
  <2>. QED BY <2>1, QuietChoice, Zenon
<1>7. FormInv' /\ RightInv'
  BY <1>3, <1>4, <1>5, <1>6, RestartsChoice, Zenon DEF Next
<1>. QED BY <1>2, <1>7, Zenon DEF ChoiceInv

\* The lists, the records and what is on its way to them keep to what was chosen.
THEOREM ChoiceInvariance == Spec => []ChoiceInv
BY InitChoice, StepChoice, PTL DEF Spec

\* While no change is in the user's hand, the cache shows what the user last set
\* for a receiver under every id that leads there, although scans and updates
\* have replaced the list since: preserve_user_output_state() and
\* apply_stored_output_state() find the setting under one of the output's ids
\* (multiroom_component_state.cpp:312, 185).  Nothing is said of a setting changed
\* while a scan had read the records and not published them, nor of a receiver
\* that was listed under two ids, that has a record under an id not linked to its
\* entry, or whose id a scan replaced before an update published the old one.
THEOREM ChoiceCorrect == Spec => []ChoiceKept
<1>1. ChoiceInv => ChoiceKept
  <2> SUFFICES ASSUME ChoiceInv, drag = None, NEW n \in Name, NEW i \in DOMAIN cached,
                      chosen[n] # None, chosen[n].id \in Ids(i, cached[i])
               PROVE  cached[i].on = chosen[n].on
    BY DEF ChoiceKept
  <2>1. NameOf[i] = n
    BY DEF ChoiceInv, ChosenOwn, FormInv, ListsNamed, OneReceiver, Ids
  <2>2. Expected(n)
    BY DEF Expected, Dragged
  <2>. QED BY <2>1, <2>2 DEF ChoiceInv, RightInv, CacheRight, Right
<1>. QED BY <1>1, ChoiceInvariance, PTL

=============================================================================
