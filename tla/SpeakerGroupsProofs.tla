------------------------- MODULE SpeakerGroupsProofs -------------------------
(***************************************************************************)
(* For any services, ids and groups: the group that was applied last is    *)
(* what is selected, the group that is shown as the current one tells what *)
(* is selected, and an edit keeps its members.  Three lists of ids are     *)
(* compared at different times through aliases that keep changing; what    *)
(* holds them together is that the records of a receiver and whatever list *)
(* is on its way agree on it, for every receiver whose ids are linked.     *)
(***************************************************************************)
EXTENDS SpeakerGroups, ReceiverIdentityProofs, SequenceTheorems

\* A list of the outputs of discovery.
List(outputs) ==
    /\ Outputs(outputs) /\ OneReceiver(outputs)
    /\ DOMAIN outputs \subseteq Id
    /\ \A i \in DOMAIN outputs : "available" \in DOMAIN outputs[i]

-----------------------------------------------------------------------------
(* core/speaker_groups.cpp compares ids of one receiver only.              *)

LEMMA SameName ==
    ASSUME NEW outputs, OneReceiver(outputs), NEW d, NEW e, SameOutput(d, e, outputs)
    PROVE  NameOf[d] = NameOf[e]
BY DEF OneReceiver, SameOutput, Ids

LEMMA WithName ==
    ASSUME NEW outputs, OneReceiver(outputs), NEW k, NEW i \in OutputsWith(k, outputs)
    PROVE  i \in DOMAIN outputs /\ NameOf[i] = NameOf[k]
BY DEF OneReceiver, OutputsWith, Ids

\* An id that counts as a member has a member's receiver.
LEMMA ContainedName ==
    ASSUME NEW outputs, OneReceiver(outputs), NEW ids, NEW k, ContainsPersisted(ids, k, outputs)
    PROVE  NameOf[k] \in Named(ids)
<1>1. CASE k \in ids
  BY <1>1 DEF Named
<1>2. ASSUME NEW i \in Firsts(OutputsWith(k, outputs)), Ids(i, outputs[i]) \cap ids # {}
      PROVE  NameOf[k] \in Named(ids)
  <2>1. i \in OutputsWith(k, outputs)
    BY DEF Firsts
  <2>2. i \in DOMAIN outputs /\ NameOf[i] = NameOf[k]
    BY <2>1, WithName
  <2>3. PICK d \in ids : d \in Ids(i, outputs[i])
    BY <1>2
  <2>4. NameOf[d] = NameOf[i]
    BY <2>2, <2>3 DEF OneReceiver, Ids
  <2>. QED BY <2>2, <2>4 DEF Named
<1>. QED BY <1>1, <1>2 DEF ContainsPersisted

\* It counts as one if all outputs that are known under it are a member's.
LEMMA LinkedContained ==
    ASSUME NEW outputs, List(outputs), NEW ids, NEW k, NEW d \in ids,
           OutputsWith(k, outputs) = {} => d = k,
           \A i \in OutputsWith(k, outputs) : d \in Ids(i, outputs[i])
    PROVE  ContainsPersisted(ids, k, outputs)
<1>1. CASE OutputsWith(k, outputs) = {}
  BY <1>1 DEF ContainsPersisted
<1>2. CASE OutputsWith(k, outputs) # {}
  <2>1. OutputsWith(k, outputs) \subseteq Nat
    BY IdAssumption DEF OutputsWith, List
  <2>2. PICK i : i \in Firsts(OutputsWith(k, outputs))
    BY <1>2, <2>1, FirstExists
  <2>3. d \in Ids(i, outputs[i])
    BY <2>2 DEF Firsts
  <2>. QED BY <2>2, <2>3 DEF ContainsPersisted
<1>. QED BY <1>1, <1>2

\* A group that matches a selection names the receivers of the selection.
LEMMA MatchNames ==
    ASSUME NEW outputs, OneReceiver(outputs), NEW ids, NEW selected,
           MatchesSelection(ids, selected, outputs)
    PROVE  Named(ids) = Named(selected)
<1>1. \A s \in selected : NameOf[s] \in Named(ids)
  BY ContainedName DEF MatchesSelection
<1>2. \A d \in ids : \E s \in selected : NameOf[s] = NameOf[d]
  BY SameName DEF MatchesSelection
<1>. QED BY <1>1, <1>2 DEF Named

-----------------------------------------------------------------------------
(* replace_stored_output_selection().                                      *)

\* In the records after it exactly the members are selected, and each is.
SelectsMembers(records, ids, outputs, after) ==
    \E new \in SUBSET (ids \ DOMAIN records) :
        /\ DOMAIN after = DOMAIN records \cup new
        /\ \A k \in DOMAIN records : after[k].on <=> ContainsPersisted(ids, k, outputs)
        /\ \A k \in new : after[k].on
        /\ \A d \in ids : \E k \in DOMAIN after :
                after[k].on /\ (k = d \/ SameOutput(k, d, outputs))

LEMMA OrdersFirst ==
    ASSUME NEW ids, NEW earlier \in Orders(ids), NEW some \in SUBSET ids, some # {}
    PROVE  \E k \in some : earlier[k] \cap some = {}
BY DEF Orders

LEMMA AddedSplit ==
    ASSUME NEW records, NEW ids, NEW outputs,
           NEW new \in Added(Marked(records, ids, outputs), ids, outputs)
    PROVE  /\ new \subseteq ids /\ new \cap DOMAIN records = {}
           /\ \A d \in ids : \/ \E e \in new : e = d \/ SameOutput(e, d, outputs)
                             \/ \E k \in DOMAIN records :
                                    /\ ContainsPersisted(ids, k, outputs)
                                    /\ k = d \/ SameOutput(k, d, outputs)
<1> DEFINE marked == Marked(records, ids, outputs)
           missing == {i \in ids : ~Represented(marked, ids, i, outputs)}
<1>1. DOMAIN marked = DOMAIN records
  BY DEF Marked
<1> HIDE DEF marked
<1>2. /\ new \subseteq missing
      /\ \A d \in missing \ new : \E e \in new : SameOutput(d, e, outputs)
  BY DEF Added, marked
<1>3. \A d \in ids \ missing : \E k \in DOMAIN records :
          ContainsPersisted(ids, k, outputs) /\ (k = d \/ SameOutput(k, d, outputs))
  BY <1>1 DEF Represented
<1>4. \A d, e : SameOutput(d, e, outputs) => SameOutput(e, d, outputs)
  BY DEF SameOutput
<1>5. ASSUME NEW k \in new, k \in DOMAIN records PROVE FALSE
  <2>1. k \in ids /\ ~Represented(marked, ids, k, outputs)
    BY <1>2
  <2>2. ContainsPersisted(ids, k, outputs)
    BY <2>1 DEF ContainsPersisted
  <2>. QED BY <1>1, <1>5, <2>1, <2>2 DEF Represented
<1>6. \A d \in missing : \E e \in new : e = d \/ SameOutput(e, d, outputs)
  BY <1>2, <1>4
<1>. QED BY <1>2, <1>3, <1>5, <1>6

LEMMA ReplacedRecords ==
    ASSUME NEW records, InOrder(records), NEW ids, NEW outputs,
           NEW after \in Replaced(records, ids, outputs)
    PROVE  InOrder(after) /\ SelectsMembers(records, ids, outputs, after)
<1> DEFINE marked == Marked(records, ids, outputs)
<1> HIDE DEF marked
<1>1. PICK new \in Added(marked, ids, outputs) :
          \E earlier \in Orders(new) : after = Extended(marked, new, earlier)
  BY DEF Replaced, marked
<1>2. PICK earlier \in Orders(new) : after = Extended(marked, new, earlier)
  BY <1>1
<1>3. /\ DOMAIN marked = DOMAIN records
      /\ \A k \in DOMAIN records :
             marked[k] = [on |-> ContainsPersisted(ids, k, outputs), before |-> records[k].before]
  BY DEF Marked, marked
<1>4. /\ new \subseteq ids /\ new \cap DOMAIN records = {}
      /\ \A d \in ids : \/ \E e \in new : e = d \/ SameOutput(e, d, outputs)
                        \/ \E k \in DOMAIN records :
                               /\ ContainsPersisted(ids, k, outputs)
                               /\ k = d \/ SameOutput(k, d, outputs)
  BY <1>1, AddedSplit DEF marked
<1>5. DOMAIN after = DOMAIN records \cup new
  BY <1>2, <1>3 DEF Extended
<1>6. ASSUME NEW k \in DOMAIN records
      PROVE  /\ after[k].on <=> ContainsPersisted(ids, k, outputs)
             /\ after[k].before = records[k].before
  <2>1. after[k] = [on |-> ContainsPersisted(ids, k, outputs), before |-> records[k].before]
    BY <1>2, <1>3 DEF Extended
  <2>. QED BY <2>1
<1>7. ASSUME NEW k \in new
      PROVE  after[k].on /\ after[k].before = DOMAIN records \cup earlier[k]
  <2>1. after[k] = [on |-> TRUE, before |-> DOMAIN records \cup earlier[k]]
    BY <1>2, <1>3, <1>4 DEF Extended
  <2>. QED BY <2>1
<1>8. SelectsMembers(records, ids, outputs, after)
  <2>1. \A d \in ids : \E k \in DOMAIN after :
            after[k].on /\ (k = d \/ SameOutput(k, d, outputs))
    BY <1>4, <1>5, <1>6, <1>7, Zenon
  <2>. QED BY <1>4, <1>5, <1>6, <1>7, <2>1 DEF SelectsMembers
<1>9. ASSUME NEW some \in SUBSET DOMAIN after, some # {}
      PROVE  \E k \in some : after[k].before \cap some = {}
  <2>1. CASE some \cap DOMAIN records # {}
    <3>1. PICK k \in some \cap DOMAIN records :
              records[k].before \cap (some \cap DOMAIN records) = {}
      BY <2>1 DEF InOrder, HasFirst
    <3>2. records[k].before \subseteq DOMAIN records
      BY <3>1 DEF InOrder, BeforeRecords
    <3>. QED BY <1>6, <3>1, <3>2
  <2>2. CASE some \cap DOMAIN records = {}
    <3>1. some \in SUBSET new
      BY <1>5, <2>2
    <3>2. PICK k \in some : earlier[k] \cap some = {}
      BY <1>9, <3>1, OrdersFirst
    <3>. QED BY <1>7, <2>2, <3>1, <3>2
  <2>. QED BY <2>1, <2>2
<1>10. \A k \in new : earlier[k] \subseteq new
  BY DEF Orders
<1>11. \A k \in DOMAIN after : after[k].before \subseteq DOMAIN after
  BY <1>5, <1>6, <1>7, <1>10 DEF InOrder, BeforeRecords
<1>. QED BY <1>8, <1>9, <1>11 DEF InOrder, HasFirst, BeforeRecords

-----------------------------------------------------------------------------
(* What the steps do to the lists.                                         *)

\* An output whose selection is set stays otherwise as it was.
LEMMA Switched ==
    ASSUME NEW output, Output(output), "available" \in DOMAIN output, NEW on
    PROVE  /\ Output([output EXCEPT !.on = on])
           /\ [output EXCEPT !.on = on].on = on
           /\ [output EXCEPT !.on = on].aliases = output.aliases
           /\ [output EXCEPT !.on = on].available = output.available
           /\ "available" \in DOMAIN [output EXCEPT !.on = on]
<1>1. [output EXCEPT !.on = on].available = output.available
  BY DEF Output
<1>. QED BY <1>1, OutputSet

\* The cache after ActivateGroup and Toggle: other selections for the same outputs.
SameButSelection(after) ==
    /\ DOMAIN after = DOMAIN cached
    /\ \A i \in DOMAIN cached : after[i].aliases = cached[i].aliases
                                /\ after[i].available = cached[i].available

LEMMA ActivateEffect ==
    ASSUME List(cached), NEW group, ActivateGroup(group)
    PROVE  /\ List(cached') /\ SameButSelection(cached')
           /\ \A i \in DOMAIN cached :
                 cached'[i].on <=> cached[i].available
                                   /\ Ids(i, cached[i]) \cap group.members # {}
<1> DEFINE resolved == Resolve(group.members, Available(cached))
<1>1. cached' = [i \in DOMAIN cached |-> [cached[i] EXCEPT !.on = i \in resolved]]
  BY Zenon DEF ActivateGroup
<1>2. ASSUME NEW i \in DOMAIN cached
      PROVE  i \in resolved <=> cached[i].available /\ Ids(i, cached[i]) \cap group.members # {}
  BY DEF Resolve, Available
<1> HIDE DEF resolved
<1>3. DOMAIN cached' = DOMAIN cached
  BY <1>1
<1>4. ASSUME NEW i \in DOMAIN cached
      PROVE  /\ Output(cached'[i]) /\ "available" \in DOMAIN cached'[i]
             /\ cached'[i].aliases = cached[i].aliases
             /\ cached'[i].available = cached[i].available
             /\ cached'[i].on = (i \in resolved)
  <2>1. cached'[i] = [cached[i] EXCEPT !.on = i \in resolved]
    BY <1>1
  <2>2. Output(cached[i]) /\ "available" \in DOMAIN cached[i]
    BY DEF List, Outputs
  <2>. QED BY <2>1, <2>2, Switched
<1>5. List(cached')
  BY <1>3, <1>4 DEF List, Outputs, OneReceiver
<1>. QED BY <1>2, <1>3, <1>4, <1>5 DEF SameButSelection

LEMMA ToggleEffect ==
    ASSUME List(cached), NEW i \in DOMAIN cached, Toggle(i)
    PROVE  /\ List(cached') /\ SameButSelection(cached')
           /\ \A j \in DOMAIN cached : j # i => cached'[j] = cached[j]
<1>1. cached' = [cached EXCEPT ![i].on = ~@]
  BY Zenon DEF Toggle
<1>2. /\ DOMAIN cached' = DOMAIN cached
      /\ \A j \in DOMAIN cached : j # i => cached'[j] = cached[j]
      /\ cached'[i] = [cached[i] EXCEPT !.on = ~cached[i].on]
  BY <1>1
<1>3. Output(cached[i]) /\ "available" \in DOMAIN cached[i]
  BY DEF List, Outputs
<1>4. /\ Output(cached'[i]) /\ "available" \in DOMAIN cached'[i]
      /\ cached'[i].aliases = cached[i].aliases
      /\ cached'[i].available = cached[i].available
  BY <1>2, <1>3, Switched
<1>5. ASSUME NEW j \in DOMAIN cached
      PROVE  /\ Output(cached'[j]) /\ "available" \in DOMAIN cached'[j]
             /\ cached'[j].aliases = cached[j].aliases
             /\ cached'[j].available = cached[j].available
  <2>1. CASE j = i
    BY <1>4, <2>1
  <2>2. CASE j # i
    BY <1>2, <2>2 DEF List, Outputs
  <2>. QED BY <2>1, <2>2
<1>6. List(cached')
  BY <1>2, <1>5 DEF List, Outputs, OneReceiver
<1>. QED BY <1>2, <1>5, <1>6 DEF SameButSelection

\* A list of the refresh worker: an output has the selection of one of its records,
\* which is stored again unless it stands under the output's own id.
Adopted(outputs, again, enabled) ==
    \A i \in DOMAIN outputs :
        LET own == StoredIds \cap Ids(i, outputs[i])
        IN  IF own = {} THEN outputs[i].on <=> i \in enabled
            ELSE \E k \in own : outputs[i].on = stored[k].on /\ (k = i \/ i \in again)

\* Without a record, the registry may have it selected if its receiver has another.
LEMMA ListsEffect ==
    ASSUME NamesAgree, IdsTyped, InOrder(stored), RefreshLists
    PROVE  /\ List(listed') /\ storing' \subseteq DOMAIN listed'
           /\ \E enabled \in SUBSET ListedTwice(listed') :
                 /\ Adopted(listed', storing', enabled)
                 /\ applied' = Doubting(Named(enabled) \cup
                                        Doubtful(StoredIds \cup applied.ids, listed'))
<1>0. PICK enabled \in SUBSET ListedTwice(devices) :
          /\ listed' = Published(ListedFrom(devices, enabled))
          /\ storing' = Misfiled(stored, ListedFrom(devices, enabled))
          /\ applied' = Doubting(Named(enabled) \cup
                                 Doubtful(StoredIds \cup applied.ids, listed'))
  BY Zenon DEF RefreshLists
<1> DEFINE outputs == ListedFrom(devices, enabled)
<1>1. /\ listed' = [i \in DOMAIN outputs |-> Applied(stored, i, outputs[i])]
      /\ storing' = {i \in DOMAIN outputs : RecordOf(stored, i, outputs[i]) \ {i} # {}}
  BY <1>0, Zenon DEF Published, Misfiled
<1>2. DOMAIN outputs = DOMAIN devices
  BY DEF ListedFrom
<1>3. ASSUME NEW i \in DOMAIN devices
      PROVE  /\ Output(outputs[i]) /\ "available" \in DOMAIN outputs[i]
             /\ outputs[i].aliases = devices[i].aliases /\ outputs[i].on = (i \in enabled)
  <2>1. outputs[i] = [on |-> i \in enabled, aliases |-> devices[i].aliases,
                      modern |-> devices[i].modern,
                      available |-> devices[i].modern /\ HasEndpoint(devices[i])]
    BY DEF ListedFrom
  <2> HIDE DEF outputs
  <2>. QED BY <2>1 DEF Output
<1> HIDE DEF outputs
<1>4. DOMAIN listed' = DOMAIN devices
  BY <1>1, <1>2
<1>5. ASSUME NEW i \in DOMAIN devices
      PROVE  /\ Output(listed'[i]) /\ "available" \in DOMAIN listed'[i]
             /\ listed'[i].aliases = devices[i].aliases
             /\ StoredIds \cap Ids(i, listed'[i]) = {} => (listed'[i].on <=> i \in enabled)
             /\ StoredIds \cap Ids(i, listed'[i]) # {} =>
                    \E k \in StoredIds \cap Ids(i, listed'[i]) :
                        listed'[i].on = stored[k].on /\ (k = i \/ i \in storing')
  <2>1. listed'[i] = Applied(stored, i, outputs[i])
    BY <1>1, <1>2
  <2>2. CASE StoredIds \cap Ids(i, outputs[i]) = {}
    <3>1. listed'[i] = outputs[i]
      BY <2>1, <2>2, AppliedNothing DEF StoredIds
    <3>. QED BY <1>3, <2>2, <3>1
  <2>3. CASE StoredIds \cap Ids(i, outputs[i]) # {}
    <3>0. /\ Output(listed'[i]) /\ listed'[i].aliases = outputs[i].aliases
          /\ \E k \in RecordOf(stored, i, outputs[i]) :
                k \in StoredIds \cap Ids(i, outputs[i]) /\ listed'[i].on = stored[k].on
      <4>1. Output(outputs[i])
        BY <1>3
      <4>2. /\ Output(Applied(stored, i, outputs[i]))
            /\ Applied(stored, i, outputs[i]).aliases = outputs[i].aliases
            /\ \E k \in RecordOf(stored, i, outputs[i]) :
                  k \in StoredIds \cap Ids(i, outputs[i])
                  /\ Applied(stored, i, outputs[i]).on = stored[k].on
        BY <2>3, <4>1, AppliedRecord DEF StoredIds
      <4>. QED BY <2>1, <4>2
    <3>1. PICK k \in RecordOf(stored, i, outputs[i]) :
              k \in StoredIds \cap Ids(i, outputs[i]) /\ listed'[i].on = stored[k].on
      BY <3>0
    <3>2. "available" \in DOMAIN listed'[i]
      BY <1>3, <2>1 DEF Applied
    <3>3. k = i \/ i \in storing'
      BY <1>1, <1>2, <3>1
    <3>4. Ids(i, listed'[i]) = Ids(i, outputs[i])
      BY <3>0 DEF Ids
    <3>. QED BY <1>3, <2>3, <3>0, <3>1, <3>2, <3>3, <3>4
  <2>. QED BY <2>2, <2>3
<1>6. List(listed')
  BY <1>4, <1>5 DEF List, Outputs, OneReceiver, NamesAgree, IdsTyped
<1>7. Adopted(listed', storing', enabled)
  BY <1>4, <1>5 DEF Adopted
<1>8. enabled \in SUBSET ListedTwice(listed')
  BY <1>4 DEF ListedTwice, Listings
<1>. QED BY <1>0, <1>1, <1>2, <1>4, <1>6, <1>7, <1>8

-----------------------------------------------------------------------------
(* The editor.                                                             *)

\* Its rows name the receivers of the ids they are made from.
LEMMA RowsNamed ==
    ASSUME OneReceiver(cached), NEW ids
    PROVE  /\ DOMAIN Rows(ids) \subseteq DOMAIN cached \cup ids
           /\ Named({i \in DOMAIN Rows(ids) : Rows(ids)[i]}) = Named(ids)
<1> DEFINE absent == {i \in ids : OutputsWith(i, cached) = {}}
           checked == {i \in DOMAIN Rows(ids) : Rows(ids)[i]}
<1>1. /\ DOMAIN Rows(ids) = DOMAIN cached \cup absent
      /\ \A i \in DOMAIN cached \cup absent :
            Rows(ids)[i] <=> (i \in DOMAIN cached => Ids(i, cached[i]) \cap ids # {})
  BY DEF Rows
<1>2. ASSUME NEW i \in checked PROVE \E d \in ids : NameOf[d] = NameOf[i]
  <2>1. CASE i \in DOMAIN cached
    <3>1. PICK d \in ids : d \in Ids(i, cached[i])
      BY <1>1, <2>1
    <3>. QED BY <2>1, <3>1 DEF OneReceiver, Ids
  <2>2. CASE i \notin DOMAIN cached
    BY <1>1, <2>2
  <2>. QED BY <2>1, <2>2
<1>3. ASSUME NEW d \in ids PROVE \E i \in checked : NameOf[i] = NameOf[d]
  <2>1. CASE OutputsWith(d, cached) = {}
    <3>1. d \notin DOMAIN cached
      BY <2>1 DEF OutputsWith, Ids
    <3>. QED BY <1>1, <2>1, <3>1
  <2>2. ASSUME NEW i \in OutputsWith(d, cached) PROVE i \in checked /\ NameOf[i] = NameOf[d]
    <3>1. i \in DOMAIN cached /\ d \in Ids(i, cached[i])
      BY DEF OutputsWith
    <3>. QED BY <1>1, <3>1, WithName
  <2>. QED BY <2>1, <2>2
<1>4. Named(checked) = Named(ids)
  <2> HIDE DEF checked
  <2>. QED BY <1>2, <1>3 DEF Named
<1>. QED BY <1>1, <1>4

GroupType == [id : Nat, members : (SUBSET Id) \ {{}}]

\* A list that is loaded again shows some group, or none.
LEMMA ReloadsPopulates ==
    ASSUME groups' \in Seq(GroupType), NEW id, Reloads(id)
    PROVE  \E some \in Nat : \E ids \in SUBSET Id : Populates(some, ids)
<1> DEFINE all == groups'
           chosen == {k \in DOMAIN all : all[k].id = id}
           k == IF chosen = {} THEN 1 ELSE First(chosen)
<1>1. CASE all = <<>>
  <2>1. Populates(0, {})
    BY <1>1, Zenon DEF Reloads
  <2>. QED BY <2>1
<1>2. CASE all # <<>>
  <2>1. Populates(all[k].id, all[k].members)
    BY <1>2, Zenon DEF Reloads
  <2>2. DOMAIN all \subseteq Nat /\ 1 \in DOMAIN all
    BY <1>2
  <2>3. k \in DOMAIN all
    <3>1. chosen # {} => First(chosen) \in chosen
      BY <2>2, FirstExists DEF First, Firsts
    <3>. QED BY <2>2, <3>1
  <2> HIDE DEF k
  <2>4. all[k] \in GroupType
    BY <2>3
  <2>5. all[k].id \in Nat /\ all[k].members \in SUBSET Id
    BY <2>4 DEF GroupType
  <2>. QED BY <2>1, <2>5
<1>. QED BY <1>1, <1>2

LEMMA PopulatesNamed ==
    ASSUME OneReceiver(cached), NEW some, NEW ids, Populates(some, ids)
    PROVE  /\ editing' = some /\ DOMAIN rows' \subseteq DOMAIN cached \cup ids
           /\ Named(Checked)' = meant'
<1>1. editing' = some /\ rows' = Rows(ids) /\ meant' = Named(ids)
  BY DEF Populates
<1>2. Checked' = {i \in DOMAIN Rows(ids) : Rows(ids)[i]}
  BY <1>1 DEF Checked
<1>3. Named(Checked)' = Named(Checked')
  BY DEF Named
<1>. QED BY <1>1, <1>2, <1>3, RowsNamed

\* The editor and the file of groups: their types, and what the editor shows.
EditInv ==
    /\ groups \in Seq(GroupType)
    /\ editing \in Nat /\ created \in Nat
    /\ DOMAIN rows \subseteq Id
    /\ Named(Checked) = meant

LEMMA EditKeptStep ==
    ASSUME List(cached), EditInv, groups' \in Seq(GroupType), created' \in Nat,
           \/ \E id : Reloads(id)
           \/ \E some \in Nat : \E ids \in SUBSET Id : Populates(some, ids)
    PROVE  EditInv'
<1>1. PICK some \in Nat, ids \in SUBSET Id : Populates(some, ids)
  BY ReloadsPopulates
<1>. QED BY <1>1, PopulatesNamed DEF List, EditInv

LEMMA SaveGroups ==
    ASSUME List(cached), EditInv, SaveGroup
    PROVE  EditInv'
<1> DEFINE id == IF editing = 0 THEN created + 1 ELSE editing
           saved == [id |-> id, members |-> Checked]
<1>1. /\ Checked # {}
      /\ created' = IF editing = 0 THEN created + 1 ELSE created
      /\ groups' = IF \E k \in DOMAIN groups : groups[k].id = id
                   THEN [k \in DOMAIN groups |->
                            IF groups[k].id = id THEN saved ELSE groups[k]]
                   ELSE Append(groups, saved)
      /\ Reloads(id)
  BY Zenon DEF SaveGroup
<1>2. saved \in GroupType
  <2>1. Checked \subseteq Id
    BY DEF EditInv, Checked
  <2>2. id \in Nat
    BY DEF EditInv
  <2> HIDE DEF id
  <2>3. Checked # {}
    BY <1>1, Zenon
  <2>4. Checked \in (SUBSET Id) \ {{}}
    BY <2>1, <2>3, Zenon
  <2>. QED BY <2>2, <2>4, Zenon DEF GroupType
<1>3. groups \in Seq(GroupType) /\ created' \in Nat
  BY <1>1 DEF EditInv
<1> HIDE DEF saved, id
<1>4. groups' \in Seq(GroupType)
  BY <1>1, <1>2, <1>3, SMTT(30)
<1>5. \E some : Reloads(some)
  BY <1>1, Zenon
<1>. QED BY <1>3, <1>4, <1>5, EditKeptStep, Zenon

LEMMA DeleteGroups ==
    ASSUME List(cached), EditInv, DeleteGroup
    PROVE  EditInv'
<1>1. PICK k \in DOMAIN groups : groups' = RemoveAt(groups, k)
  BY Zenon DEF DeleteGroup
<1>2. created' = created /\ Reloads(0)
  BY Zenon DEF DeleteGroup
<1>3. groups' \in Seq(GroupType)
  <2>1. groups \in Seq(GroupType)
    BY DEF EditInv
  <2>2. k \in 1..Len(groups)
    BY <2>1
  <2>3. /\ SubSeq(groups, 1, k - 1) \in Seq(GroupType)
        /\ SubSeq(groups, k + 1, Len(groups)) \in Seq(GroupType)
    BY <2>1, <2>2, SubSeqProperties
  <2>. QED BY <1>1, <2>3 DEF RemoveAt
<1>. QED BY <1>2, <1>3, EditKeptStep DEF EditInv

LEMMA EditStep == List(cached) /\ EditInv /\ [Next]_vars => EditInv'
<1> SUFFICES ASSUME List(cached), EditInv, [Next]_vars PROVE EditInv'
  OBVIOUS
<1>1. ASSUME UNCHANGED groups, UNCHANGED editorVars, UNCHANGED created PROVE EditInv'
  <2>1. editing' = editing /\ rows' = rows /\ meant' = meant /\ groups' = groups
        /\ created' = created
    BY <1>1, Zenon DEF editorVars
  <2>. QED BY <2>1 DEF EditInv, Named, Checked
<1>2. CASE Refresh
  <2>1. UNCHANGED groups /\ UNCHANGED editorVars /\ UNCHANGED created
    BY <1>2, Zenon DEF Refresh, RefreshOutputs, RefreshBrowses, RefreshFails, RefreshMerges,
       RefreshLists, RefreshStores, RefreshPublishes, boundVars
  <2>. QED BY <1>1, <2>1
<1>3. CASE ChangeStores \/ ActivationEnds
  <2>1. UNCHANGED groups /\ UNCHANGED editorVars /\ UNCHANGED created
    BY <1>3, Zenon DEF ChangeStores, ActivationEnds, boundVars
  <2>. QED BY <1>1, <2>1
<1>4. CASE Restart \/ ClosePage
  <2>1. /\ editing' = Closed /\ rows' = NoRows /\ meant' = {}
        /\ groups' = groups /\ created' = created
    BY <1>4, Zenon DEF Restart, ClosePage, Closes, boundVars
  <2>2. Closed \in Nat
    BY GroupsAssumption DEF Closed
  <2>3. DOMAIN rows' = {}
    BY <2>1 DEF NoRows
  <2>4. Named(Checked)' = {}
    BY <2>3 DEF Named, Checked
  <2>. QED BY <2>1, <2>2, <2>3, <2>4 DEF EditInv
<1>5. CASE User
  <2>1. CASE \/ \E k \in DOMAIN groups : ActivateGroup(groups[k])
             \/ \E i \in DOMAIN cached : Toggle(i) \/ SetVolume(i)
    <3>1. UNCHANGED groups /\ UNCHANGED editorVars /\ UNCHANGED created
      BY <2>1, Zenon DEF ActivateGroup, Toggle, SetVolume, Follows, Changes
    <3>. QED BY <1>1, <3>1
  <2>2. ASSUME NEW k \in DOMAIN groups, LoadGroup(groups[k]) PROVE EditInv'
    <3>1. /\ Populates(groups[k].id, groups[k].members)
          /\ groups' = groups /\ created' = created
      BY <2>2, Zenon DEF LoadGroup, boundVars
    <3>2. groups[k] \in GroupType
      BY DEF EditInv
    <3>3. groups[k].id \in Nat /\ groups[k].members \in SUBSET Id
      BY <3>2 DEF GroupType
    <3>4. groups' \in Seq(GroupType) /\ created' \in Nat
      BY <3>1 DEF EditInv
    <3>. QED BY <3>1, <3>3, <3>4, EditKeptStep
  <2>3. ASSUME NEW i \in DOMAIN rows, Check(i) PROVE EditInv'
    <3>1. /\ rows' = [rows EXCEPT ![i] = ~@]
          /\ meant' = Named({j \in DOMAIN rows : rows'[j]})
          /\ groups' = groups /\ created' = created /\ editing' = editing
      BY <2>3, Zenon DEF Check
    <3>2. DOMAIN rows' = DOMAIN rows
      BY <3>1
    <3>3. Named(Checked)' = meant'
      BY <3>1, <3>2 DEF Named, Checked
    <3>. QED BY <3>1, <3>2, <3>3 DEF EditInv
  <2>4. CASE OpenPage \/ BeginNewGroup
    <3>1. /\ Reloads(0) \/ Populates(0, {})
          /\ groups' = groups /\ created' = created
      BY <2>4, Zenon DEF OpenPage, BeginNewGroup, boundVars
    <3>2. groups' \in Seq(GroupType) /\ created' \in Nat
      BY <3>1 DEF EditInv
    <3>3. \/ \E id : Reloads(id)
          \/ \E some \in Nat : \E ids \in SUBSET Id : Populates(some, ids)
      BY <3>1
    <3>. QED BY <3>2, <3>3, EditKeptStep
  <2>5. CASE RefreshMembers
    <3>1. /\ rows' = Rows(Checked) /\ meant' = meant
          /\ groups' = groups /\ created' = created /\ editing' = editing
      BY <2>5, Zenon DEF RefreshMembers, boundVars
    <3>2. Checked \subseteq Id
      BY DEF EditInv, Checked
    <3>3. /\ DOMAIN Rows(Checked) \subseteq DOMAIN cached \cup Checked
          /\ Named({i \in DOMAIN Rows(Checked) : Rows(Checked)[i]}) = Named(Checked)
      BY RowsNamed DEF List
    <3>4. Named(Checked)' = Named({i \in DOMAIN rows' : rows'[i]})
      BY DEF Named, Checked
    <3>. QED BY <3>1, <3>2, <3>3, <3>4 DEF EditInv, List
  <2>. QED BY <1>4, <1>5, <2>1, <2>2, <2>3, <2>4, <2>5, SaveGroups, DeleteGroups, Zenon DEF User
<1>6. CASE UNCHANGED vars
  <2>1. UNCHANGED groups /\ UNCHANGED editorVars /\ UNCHANGED created
    BY <1>6, Zenon DEF vars, boundVars
  <2>. QED BY <1>1, <2>1
<1>. QED BY <1>2, <1>3, <1>4, <1>5, <1>6, Zenon DEF Next

LEMMA EditInit == Init => EditInv
<1> SUFFICES ASSUME Init PROVE EditInv
  OBVIOUS
<1>1. /\ groups = SavedGroups /\ editing = Closed /\ rows = NoRows /\ meant = {}
      /\ created = Len(SavedGroups)
  BY Zenon DEF Init
<1>2. SavedGroups \in Seq([id : 1..MaxGroups, members : (SUBSET Id) \ {{}}])
  BY GroupsAssumption DEF GroupFiles
<1>3. SavedGroups \in Seq(GroupType) /\ Len(SavedGroups) \in Nat
  <2>1. [id : 1..MaxGroups, members : (SUBSET Id) \ {{}}] \subseteq GroupType
    BY GroupsAssumption DEF GroupType
  <2>. QED BY <1>2, <2>1, SeqMonotonic, LenProperties, Zenon
<1>4. Closed \in Nat
  BY GroupsAssumption DEF Closed
<1>5. DOMAIN rows = {}
  BY <1>1 DEF NoRows
<1>6. Named(Checked) = {}
  BY <1>5 DEF Named, Checked
<1>. QED BY <1>1, <1>3, <1>4, <1>5, <1>6 DEF EditInv

-----------------------------------------------------------------------------
(* Steps, by what they do to the selection.                                *)

\* The file of records, the lists and the change stay, and no list is read or published.
Quiet ==
    /\ stored' = stored /\ cached' = cached /\ listed' = listed /\ storing' = storing
    /\ activating' = activating /\ known' = known /\ writing' = writing
    /\ applied' = applied /\ late' = late /\ outdated' = outdated
    /\ refresh' = "apply" <=> refresh = "apply"

LEMMA SelectionStep ==
    [Next]_vars =>
        \/ Quiet
        \/ RefreshLists \/ RefreshStores \/ RefreshPublishes
        \/ ChangeStores \/ ActivationEnds
        \/ AtRest /\ \E k \in DOMAIN groups : ActivateGroup(groups[k])
        \/ AtRest /\ \E i \in DOMAIN cached : Toggle(i) \/ SetVolume(i)
        \/ Restart
<1>1. RefreshOutputs \/ RefreshBrowses \/ RefreshFails \/ RefreshMerges => Quiet
  <2>1. ASSUME RefreshOutputs \/ RefreshBrowses \/ RefreshFails \/ RefreshMerges
        PROVE  /\ stored' = stored /\ cached' = cached /\ listed' = listed /\ storing' = storing
               /\ activating' = activating /\ known' = known /\ writing' = writing
               /\ applied' = applied /\ late' = late /\ outdated' = outdated
    BY <2>1, Zenon DEF RefreshOutputs, RefreshBrowses, RefreshFails, RefreshMerges,
       refreshVars, changeVars, historyVars
  <2>2. ASSUME RefreshOutputs \/ RefreshBrowses \/ RefreshFails \/ RefreshMerges
        PROVE  \/ refresh' = refresh
               \/ refresh \in {"idle", "scan", "merge"} /\ refresh' \in {"idle", "scan", "merge"}
    BY <2>2, Zenon DEF RefreshOutputs, RefreshBrowses, RefreshFails, RefreshMerges, refreshVars
  <2>3. ASSUME RefreshOutputs \/ RefreshBrowses \/ RefreshFails \/ RefreshMerges
        PROVE  refresh' = "apply" <=> refresh = "apply"
    BY <2>2, <2>3
  <2>. QED BY <2>1, <2>3, Zenon DEF Quiet
<1>2. ASSUME NEW k \in DOMAIN groups, LoadGroup(groups[k]) PROVE Quiet
  BY <1>2, Zenon DEF LoadGroup, refreshVars, changeVars, historyVars, Quiet
<1>3. ASSUME NEW i \in DOMAIN rows, Check(i) PROVE Quiet
  BY <1>3, Zenon DEF Check, refreshVars, changeVars, historyVars, Quiet
<1>4. OpenPage \/ ClosePage \/ BeginNewGroup \/ RefreshMembers => Quiet
  BY Zenon DEF OpenPage, ClosePage, BeginNewGroup, RefreshMembers,
     refreshVars, changeVars, historyVars, Quiet
<1>5. SaveGroup \/ DeleteGroup => Quiet
  BY Zenon DEF SaveGroup, DeleteGroup, refreshVars, changeVars, historyVars, Quiet
<1>6. UNCHANGED vars => Quiet
  BY Zenon DEF vars, refreshVars, changeVars, historyVars, Quiet
<1>. QED BY <1>1, <1>2, <1>3, <1>4, <1>5, <1>6, Zenon DEF Next, Refresh, User

-----------------------------------------------------------------------------
(* The lists, the records and what is to be stored.                        *)

FormInv ==
    /\ Entries /\ NamesAgree /\ IdsTyped
    /\ List(cached) /\ List(listed) /\ List(known)
    /\ InOrder(stored)
    /\ storing \subseteq DOMAIN listed /\ writing \subseteq DOMAIN known

LEMMA DevicesStep == [Next]_vars => \/ Merge
                                    \/ Browse /\ devices' = devices
                                    \/ devices' = NoDevices /\ found' = found
                                    \/ devices' = devices /\ found' = found
<1>1. ASSUME Refresh
      PROVE  \/ Merge
             \/ Browse /\ devices' = devices
             \/ devices' = devices /\ found' = found
  <2>1. RefreshOutputs \/ RefreshFails \/ RefreshLists \/ RefreshStores \/ RefreshPublishes
            => devices' = devices /\ found' = found
    BY Zenon DEF scanVars, RefreshOutputs, RefreshFails, RefreshLists, RefreshStores,
       RefreshPublishes
  <2>2. RefreshBrowses => Browse /\ devices' = devices
    BY Zenon DEF RefreshBrowses
  <2>3. RefreshMerges => Merge
    BY Zenon DEF RefreshMerges
  <2>. QED BY <1>1, <2>1, <2>2, <2>3, Zenon DEF Refresh
<1>2. ASSUME User PROVE devices' = devices /\ found' = found
  BY <1>2, Zenon DEF User, scanVars, ActivateGroup, LoadGroup, Toggle, SetVolume, Follows, Check,
     OpenPage, ClosePage, BeginNewGroup, RefreshMembers, SaveGroup, DeleteGroup
<1>3. ASSUME ChangeStores \/ ActivationEnds PROVE devices' = devices /\ found' = found
  BY <1>3, Zenon DEF scanVars, ChangeStores, ActivationEnds
<1>4. ASSUME Restart PROVE devices' = NoDevices /\ found' = found
  BY <1>4, Zenon DEF Restart
<1>5. ASSUME UNCHANGED vars PROVE devices' = devices /\ found' = found
  BY <1>5, Zenon DEF vars, scanVars
<1>. QED BY <1>1, <1>2, <1>3, <1>4, <1>5, Zenon DEF Next

LEMMA DevicesForm ==
    FormInv /\ [Next]_vars => Entries' /\ NamesAgree' /\ IdsTyped'
<1> SUFFICES ASSUME FormInv, [Next]_vars PROVE Entries' /\ NamesAgree' /\ IdsTyped'
  OBVIOUS
<1>1. Entries /\ NamesAgree /\ IdsTyped
  BY DEF FormInv
<1>2. CASE Merge
  BY <1>1, <1>2, MergeEntries, MergeNames, MergeIds, Zenon
<1>3. CASE Browse /\ devices' = devices
  BY <1>1, <1>3, BrowseIds DEF Entries, NamesAgree, IdsTyped
<1>4. CASE devices' = NoDevices /\ found' = found
  <2>1. DOMAIN devices' = {}
    BY <1>4 DEF NoDevices
  <2>. QED BY <1>1, <1>4, <2>1 DEF Entries, NamesAgree, IdsTyped
<1>5. CASE devices' = devices /\ found' = found
  BY <1>1, <1>5 DEF Entries, NamesAgree, IdsTyped
<1>. QED BY <1>2, <1>3, <1>4, <1>5, DevicesStep

LEMMA NoOutputsList == DOMAIN NoOutputs = {} /\ List(NoOutputs)
BY DEF NoOutputs, List, Outputs, OneReceiver

\* What is left of FormInv when the lists and records are.
LEMMA FormMade ==
    ASSUME FormInv, [Next]_vars, List(cached'), List(listed'), List(known'), InOrder(stored'),
           storing' \subseteq DOMAIN listed', writing' \subseteq DOMAIN known'
    PROVE  FormInv'
<1>1. Entries' /\ NamesAgree' /\ IdsTyped'
  BY DevicesForm
<1>2. List(cached)' /\ List(listed)' /\ List(known)' /\ InOrder(stored)'
  BY DEF List, Outputs, Output, OneReceiver, InOrder, HasFirst, BeforeRecords
<1>. QED BY <1>1, <1>2 DEF FormInv

LEMMA FormStep == FormInv /\ [Next]_vars => FormInv'
<1> SUFFICES ASSUME FormInv, [Next]_vars PROVE FormInv'
  OBVIOUS
<1>0. /\ List(cached) /\ List(listed) /\ List(known) /\ InOrder(stored)
      /\ NamesAgree /\ IdsTyped
      /\ storing \subseteq DOMAIN listed /\ writing \subseteq DOMAIN known
  BY DEF FormInv
<1>1. CASE Quiet
  <2>1. /\ stored' = stored /\ cached' = cached /\ listed' = listed /\ known' = known
        /\ storing' = storing /\ writing' = writing
    BY <1>1, Zenon DEF Quiet
  <2>. QED BY <1>0, <2>1, FormMade
<1>2. CASE RefreshLists
  <2>1. stored' = stored /\ cached' = cached /\ known' = known /\ writing' = writing
    BY <1>2, Zenon DEF RefreshLists, changeVars
  <2>2. List(listed') /\ storing' \subseteq DOMAIN listed'
    BY <1>0, <1>2, ListsEffect
  <2>. QED BY <1>0, <2>1, <2>2, FormMade
<1>3. CASE RefreshStores
  <2>1. PICK i : stored' = WithRecord(stored, i, listed[i]) /\ storing' = storing \ {i}
    BY <1>3, Zenon DEF RefreshStores
  <2>2. cached' = cached /\ listed' = listed /\ known' = known /\ writing' = writing
    BY <1>3, Zenon DEF RefreshStores, changeVars
  <2>3. InOrder(stored')
    BY <1>0, <2>1, RecordsOrdered
  <2>4. storing' \subseteq DOMAIN listed'
    BY <1>0, <2>1, <2>2
  <2>. QED BY <1>0, <2>2, <2>3, <2>4, FormMade
<1>4. CASE RefreshPublishes
  <2>1. /\ cached' = listed /\ listed' = NoOutputs /\ stored' = stored
        /\ known' = known /\ writing' = writing /\ storing' = {}
    BY <1>4, Zenon DEF RefreshPublishes, changeVars
  <2>. QED BY <1>0, <2>1, NoOutputsList, FormMade
<1>5. CASE ChangeStores
  <2>1. PICK i : stored' = WithRecord(stored, i, known[i]) /\ writing' = writing \ {i}
    BY <1>5, Zenon DEF ChangeStores
  <2>2. /\ cached' = cached /\ listed' = listed /\ storing' = storing
        /\ known' = IF writing' = {} /\ activating = {} THEN NoOutputs ELSE known
    BY <1>5, Zenon DEF ChangeStores, refreshVars
  <2>3. InOrder(stored')
    BY <1>0, <2>1, RecordsOrdered
  <2>4. List(known') /\ writing' \subseteq DOMAIN known'
    BY <1>0, <2>1, <2>2, NoOutputsList
  <2>. QED BY <1>0, <2>2, <2>3, <2>4, FormMade
<1>6. CASE ActivationEnds
  <2>1. /\ cached' = cached /\ listed' = listed /\ storing' = storing
        /\ known' = NoOutputs /\ writing' = {}
        /\ stored' \in Replaced(stored, activating, known)
    BY <1>6, Zenon DEF ActivationEnds
  <2>2. InOrder(stored')
    BY <1>0, <2>1, ReplacedRecords
  <2>. QED BY <1>0, <2>1, <2>2, NoOutputsList, FormMade
<1>7. ASSUME AtRest, NEW k \in DOMAIN groups, ActivateGroup(groups[k]) PROVE FormInv'
  <2>1. /\ stored' = stored /\ listed' = listed /\ storing' = storing /\ known' = cached'
        /\ writing' \subseteq DOMAIN cached
    BY <1>7 DEF ActivateGroup, refreshVars
  <2>2. List(cached') /\ DOMAIN cached' = DOMAIN cached
    BY <1>0, <1>7, ActivateEffect DEF SameButSelection
  <2>. QED BY <1>0, <2>1, <2>2, FormMade
<1>8. ASSUME AtRest, NEW i \in DOMAIN cached, Toggle(i) \/ SetVolume(i) PROVE FormInv'
  <2>1. /\ stored' = stored /\ listed' = listed /\ storing' = storing /\ known' = cached'
        /\ writing' = {i}
    BY <1>8, Zenon DEF Toggle, SetVolume, Follows, refreshVars
  <2>2. List(cached') /\ DOMAIN cached' = DOMAIN cached
    <3>1. Toggle(i) => List(cached') /\ DOMAIN cached' = DOMAIN cached
      BY <1>0, ToggleEffect DEF SameButSelection
    <3>2. SetVolume(i) => cached' = cached
      BY Zenon DEF SetVolume
    <3>. QED BY <1>0, <1>8, <3>1, <3>2
  <2>. QED BY <1>0, <2>1, <2>2, FormMade
<1>9. CASE Restart
  <2>1. /\ stored' = stored /\ cached' = NoOutputs /\ listed' = listed /\ known' = known
        /\ storing' = storing /\ writing' = writing
    BY <1>9, Zenon DEF Restart, refreshVars, changeVars
  <2>. QED BY <1>0, <2>1, NoOutputsList, FormMade
<1>. QED BY <1>1, <1>2, <1>3, <1>4, <1>5, <1>6, <1>7, <1>8, <1>9, SelectionStep, Zenon

LEMMA FormInit == Init => FormInv
<1> SUFFICES ASSUME Init PROVE FormInv
  OBVIOUS
<1>1. /\ devices = NoDevices /\ found = Nothing /\ cached = NoOutputs /\ listed = NoOutputs
      /\ known = NoOutputs /\ stored = NoRecords /\ storing = {} /\ writing = {}
  BY Zenon DEF Init
<1>2. DOMAIN devices = {} /\ DOMAIN found = {}
  BY <1>1 DEF NoDevices, Nothing
<1>3. Entries /\ NamesAgree /\ IdsTyped
  BY <1>2 DEF Entries, NamesAgree, IdsTyped
<1>4. List(cached) /\ List(listed) /\ List(known)
  BY <1>1, NoOutputsList
<1>5. InOrder(stored)
  BY <1>1, NothingInOrder
<1>. QED BY <1>1, <1>3, <1>4, <1>5 DEF FormInv

-----------------------------------------------------------------------------
(* A change on its way to the records, and the list it may cross.          *)

\* The outputs as the change left them are those of the cache, or a list without the
\* change was published; and what the change selects is what is to be written.
ChangeInv ==
    /\ known = cached \/ Changing \subseteq outdated
    /\ refresh = "apply" => Changing \subseteq late
    /\ activating # {} =>
        \A i \in DOMAIN known :
            known[i].on <=> known[i].available /\ Ids(i, known[i]) \cap activating # {}

LEMMA ChangeStep == FormInv /\ ChangeInv /\ [Next]_vars => ChangeInv'
<1> SUFFICES ASSUME FormInv, ChangeInv, [Next]_vars PROVE ChangeInv'
  OBVIOUS
<1> DEFINE Selected(outputs, members) ==
        members # {} => \A i \in DOMAIN outputs :
            outputs[i].on <=> outputs[i].available /\ Ids(i, outputs[i]) \cap members # {}
<1>0. /\ known = cached \/ Changing \subseteq outdated
      /\ refresh = "apply" => Changing \subseteq late
      /\ Selected(known, activating)
  BY DEF ChangeInv
<1>a. ASSUME known' = cached' \/ Changing' \subseteq outdated',
              refresh' = "apply" => Changing' \subseteq late', Selected(known', activating')
       PROVE  ChangeInv'
  BY <1>a DEF ChangeInv, Ids
<1>b. activating' = activating /\ writing' = writing => Changing' = Changing
  BY DEF Changing, Named
<1> HIDE DEF Selected
<1>1. CASE Quiet
  <2>1. /\ cached' = cached /\ known' = known /\ activating' = activating /\ writing' = writing
        /\ late' = late /\ outdated' = outdated /\ (refresh' = "apply" <=> refresh = "apply")
    BY <1>1, Zenon DEF Quiet
  <2>. QED BY <1>0, <1>a, <1>b, <2>1
<1>2. CASE RefreshLists
  <2>1. /\ cached' = cached /\ known' = known /\ activating' = activating /\ writing' = writing
        /\ late' = Changing /\ outdated' = outdated
    BY <1>2, Zenon DEF RefreshLists, changeVars
  <2>. QED BY <1>0, <1>a, <1>b, <2>1
<1>3. CASE RefreshStores
  <2>1. /\ cached' = cached /\ known' = known /\ activating' = activating /\ writing' = writing
        /\ late' = late /\ refresh' = refresh
    BY <1>3, Zenon DEF RefreshStores, changeVars
  <2>2. outdated \subseteq outdated'
    BY <1>3 DEF RefreshStores
  <2>. QED BY <1>0, <1>a, <1>b, <2>1, <2>2
<1>4. CASE RefreshPublishes
  <2>1. /\ known' = known /\ activating' = activating /\ writing' = writing
        /\ outdated' = late /\ refresh = "apply" /\ refresh' = "idle"
    BY <1>4, Zenon DEF RefreshPublishes, changeVars
  <2>2. refresh' # "apply"
    BY <2>1
  <2>. QED BY <1>0, <1>a, <1>b, <2>1, <2>2
<1>5. CASE ChangeStores
  <2>1. PICK i \in writing : writing' = writing \ {i}
    BY <1>5 DEF ChangeStores, Firsts
  <2>2. /\ cached' = cached /\ activating' = activating /\ refresh' = refresh
        /\ late' = late /\ outdated' = outdated
        /\ known' = IF writing' = {} /\ activating = {} THEN NoOutputs ELSE known
    BY <1>5, Zenon DEF ChangeStores, refreshVars, historyVars
  <2>3. Changing' \subseteq Changing
    BY <2>1, <2>2 DEF Changing, Named
  <2>4. CASE writing' = {} /\ activating = {}
    <3>1. Changing' = {}
      BY <2>2, <2>4 DEF Changing, Named
    <3>2. Selected(known', activating')
      BY <2>2, <2>4 DEF Selected
    <3>. QED BY <1>a, <3>1, <3>2
  <2>5. CASE known' = known
    BY <1>0, <1>a, <2>2, <2>3, <2>5
  <2>. QED BY <2>2, <2>4, <2>5
<1>6. CASE ActivationEnds
  <2>1. activating' = {} /\ writing' = {}
    BY <1>6, Zenon DEF ActivationEnds
  <2>2. Changing' = {}
    BY <2>1 DEF Changing, Named
  <2>3. Selected(known', activating')
    BY <2>1 DEF Selected
  <2>. QED BY <1>a, <2>2, <2>3
<1>7. ASSUME NEW k \in DOMAIN groups, ActivateGroup(groups[k]) PROVE ChangeInv'
  <2>1. /\ activating' = groups[k].members /\ known' = cached' /\ refresh' = refresh
        /\ late' = IF refresh = "apply" THEN late \cup Name ELSE late
    BY <1>7, Zenon DEF ActivateGroup, Overtakes, refreshVars
  <2>2. /\ SameButSelection(cached')
        /\ \A i \in DOMAIN cached :
              cached'[i].on <=> cached[i].available
                                /\ Ids(i, cached[i]) \cap groups[k].members # {}
    BY <1>7, ActivateEffect DEF FormInv
  <2>3. Selected(known', activating')
    BY <2>1, <2>2 DEF Selected, SameButSelection, Ids
  <2>4. Changing' \subseteq Name
    <3>1. writing' \subseteq DOMAIN cached
      BY <1>7 DEF ActivateGroup
    <3>. QED BY <3>1, NameAssumption DEF Changing, Named, FormInv, List
  <2>. QED BY <1>a, <2>1, <2>3, <2>4
<1>8. ASSUME AtRest, NEW i \in DOMAIN cached, Toggle(i) \/ SetVolume(i) PROVE ChangeInv'
  <2>1. /\ activating' = activating /\ known' = cached' /\ refresh' = refresh /\ writing' = {i}
        /\ late' = IF refresh = "apply" THEN late \cup Named({i}) ELSE late
    BY <1>8, Zenon DEF Toggle, SetVolume, Follows, Overtakes, refreshVars
  <2>2. activating' = {}
    BY <1>8, <2>1 DEF AtRest
  <2>3. Changing' = Named({i})
    BY <2>1, <2>2 DEF Changing, Named
  <2>4. Selected(known', activating')
    BY <2>2 DEF Selected
  <2>. QED BY <1>a, <2>1, <2>3, <2>4
<1>9. CASE Restart
  <2>1. activating' = activating /\ writing' = writing /\ AtRest
    BY <1>9, Zenon DEF Restart, changeVars
  <2>2. activating' = {} /\ Changing' = {}
    BY <2>1 DEF AtRest, Changing, Named
  <2>3. Selected(known', activating')
    BY <2>2 DEF Selected
  <2>. QED BY <1>a, <2>2, <2>3
<1>. QED BY <1>1, <1>2, <1>3, <1>4, <1>5, <1>6, <1>7, <1>8, <1>9, SelectionStep, Zenon

-----------------------------------------------------------------------------
(* The group that was applied last.                                        *)

Member(n) == n \in Named(applied.ids)

\* The records of a receiver say whether it is a member, and a member has one.
RecordsAgree(n) ==
    /\ \A k \in StoredIds : NameOf[k] = n => (stored[k].on <=> Member(n))
    /\ Member(n) => \E k \in StoredIds : NameOf[k] = n

\* So does a list, as far as it can be selected there.
ListAgrees(n, outputs) ==
    \A i \in Listings(n, outputs) :
        /\ \A d \in applied.ids : NameOf[d] = n => d \in Ids(i, outputs[i])
        /\ outputs[i].on => Member(n)
        /\ outputs[i].available /\ Member(n) => outputs[i].on

\* A list that the records were applied to has every member selected.
AllSelected(n, outputs) == \A i \in Listings(n, outputs) : Member(n) => outputs[i].on

GroupInv ==
    /\ applied = [ids |-> applied.ids, doubt |-> applied.doubt]
    /\ activating # {} => Name \subseteq applied.doubt
    /\ \A n \in Name \ applied.doubt :
        /\ RecordsAgree(n)
        /\ n \notin outdated => ListAgrees(n, cached)
        /\ refresh = "apply" /\ n \notin late => ListAgrees(n, listed) /\ AllSelected(n, listed)
        /\ \A i \in writing : NameOf[i] = n => (known[i].on <=> Member(n))

\* What it says of one receiver, of which nothing changes.
GroupSame(n) ==
    /\ RecordsAgree(n) => RecordsAgree(n)'
    /\ ListAgrees(n, cached) /\ cached' = cached => ListAgrees(n, cached)'
    /\ ListAgrees(n, listed) /\ listed' = listed => ListAgrees(n, listed)'
    /\ AllSelected(n, listed) /\ listed' = listed => AllSelected(n, listed)'
    /\ Member(n)' <=> Member(n)

LEMMA SameGroup ==
    ASSUME stored' = stored, applied'.ids = applied.ids, NEW n
    PROVE  GroupSame(n)
BY DEF GroupSame, RecordsAgree, ListAgrees, AllSelected, Listings, Member, Named, StoredIds

LEMMA NotDoubtful ==
    ASSUME NEW ids, NEW outputs, NEW n \in Name, n \notin Doubtful(ids, outputs)
    PROVE  /\ \A i \in Listings(n, outputs), d \in ids :
                  NameOf[d] = n => d \in Ids(i, outputs[i])
           /\ Listings(n, outputs) = {} =>
                  \A d, e \in ids : NameOf[d] = n /\ NameOf[e] = n => d = e
<1> DEFINE own == {i \in ids : NameOf[i] = n}
<1>1. IF Listings(n, outputs) = {} THEN \A d, e \in own : d = e
      ELSE \A i \in Listings(n, outputs) :
              own \cup Listings(n, outputs) \subseteq Ids(i, outputs[i])
  BY DEF Doubtful
<1>. QED BY <1>1

\* What is written of an output concerns the records of its receiver.
LEMMA Written ==
    ASSUME NEW outputs, OneReceiver(outputs), NEW i \in DOMAIN outputs,
           stored' = WithRecord(stored, i, outputs[i])
    PROVE  /\ i \in StoredIds' /\ stored'[i].on = outputs[i].on
           /\ \A k \in StoredIds' : k = i \/ k \notin Ids(i, outputs[i])
           /\ \A k \in StoredIds' : k # i => k \in StoredIds /\ stored'[k].on = stored[k].on
           /\ \A k \in StoredIds : NameOf[k] # NameOf[i] => k \in StoredIds'
<1>1. \A j \in outputs[i].aliases : NameOf[j] = NameOf[i]
  BY DEF OneReceiver
<1>2. /\ DOMAIN stored' = (DOMAIN stored \ outputs[i].aliases) \cup {i}
      /\ stored'[i].on = outputs[i].on
      /\ \A k \in DOMAIN stored' : k # i => stored'[k].on = stored[k].on
  BY DEF WithRecord
<1>. QED BY <1>1, <1>2 DEF StoredIds, Ids

LEMMA DoubtingMore ==
    ASSUME GroupInv, NEW names, applied' = Doubting(names)
    PROVE  /\ applied' = [ids |-> applied'.ids, doubt |-> applied'.doubt]
           /\ applied'.ids = applied.ids /\ applied'.doubt = applied.doubt \cup names
<1>1. applied = [ids |-> applied.ids, doubt |-> applied.doubt]
  BY DEF GroupInv
<1>2. applied' = [ids |-> applied.ids, doubt |-> applied.doubt \cup names]
  BY <1>1 DEF Doubting
<1>. QED BY <1>2

\* Of no group nothing is expected.
LEMMA NoGroup ==
    ASSUME applied' = None
    PROVE  GroupInv'
<1>1. applied' = [ids |-> {}, doubt |-> Name]
  BY DEF None
<1>. QED BY <1>1 DEF GroupInv

\* The records of a receiver as a list takes them.
LEMMA ListsGroup ==
    ASSUME FormInv, GroupInv, RefreshLists
    PROVE  GroupInv'
<1>1. /\ stored' = stored /\ cached' = cached
      /\ activating' = activating /\ known' = known /\ writing' = writing /\ outdated' = outdated
  BY Zenon DEF RefreshLists, changeVars
<1>2. List(listed')
  BY ListsEffect, Zenon DEF FormInv
<1>3. PICK enabled \in SUBSET ListedTwice(listed') :
          /\ Adopted(listed', storing', enabled)
          /\ applied' = Doubting(Named(enabled) \cup Doubtful(StoredIds \cup applied.ids, listed'))
  BY ListsEffect, Zenon DEF FormInv
<1>4. /\ applied' = [ids |-> applied'.ids, doubt |-> applied'.doubt]
      /\ applied'.ids = applied.ids
      /\ applied'.doubt = applied.doubt \cup
            (Named(enabled) \cup Doubtful(StoredIds \cup applied.ids, listed'))
  BY <1>3, DoubtingMore, Zenon
<1>5. ASSUME NEW n \in Name \ applied'.doubt
      PROVE  /\ RecordsAgree(n)'
             /\ n \notin outdated' => ListAgrees(n, cached)'
             /\ ListAgrees(n, listed)' /\ AllSelected(n, listed)'
             /\ \A i \in writing' : NameOf[i] = n => (known'[i].on <=> Member(n)')
  <2>1. n \in Name /\ n \notin applied.doubt /\ n \notin Named(enabled)
        /\ n \notin Doubtful(StoredIds \cup applied.ids, listed')
    BY <1>4
  <2>2. /\ RecordsAgree(n) /\ (n \notin outdated => ListAgrees(n, cached))
        /\ \A i \in writing : NameOf[i] = n => (known[i].on <=> Member(n))
    BY <2>1, Zenon DEF GroupInv
  <2>3. /\ RecordsAgree(n)' /\ (n \notin outdated' => ListAgrees(n, cached)')
        /\ \A i \in writing' : NameOf[i] = n => (known'[i].on <=> Member(n)')
    <3>1. GroupSame(n)
      BY <1>1, <1>4, SameGroup
    <3>. QED BY <1>1, <2>2, <3>1 DEF GroupSame
  <2>4. \A i \in Listings(n, listed'), d \in StoredIds \cup applied.ids :
            NameOf[d] = n => d \in Ids(i, listed'[i])
    <3> DEFINE held == StoredIds \cup applied.ids
               outputs == listed'
    <3>1. n \notin Doubtful(held, outputs)
      BY <2>1, Zenon
    <3> HIDE DEF held, outputs
    <3>2. \A i \in Listings(n, outputs), d \in held : NameOf[d] = n => d \in Ids(i, outputs[i])
      BY <2>1, <3>1, NotDoubtful, Zenon
    <3>. QED BY <3>2, Zenon DEF held, outputs
  <2>5. ASSUME NEW i \in Listings(n, listed')
        PROVE  listed'[i].on <=> Member(n)
    <3>1. i \in DOMAIN listed' /\ NameOf[i] = n
      BY DEF Listings
    <3>2. CASE StoredIds \cap Ids(i, listed'[i]) = {}
      <4>0. i \notin enabled
        BY <2>1, <3>1 DEF Named
      <4>1. ~listed'[i].on
        BY <1>3, <3>1, <3>2, <4>0 DEF Adopted
      <4>2. ~Member(n)
        BY <2>2, <2>4, <3>2 DEF RecordsAgree
      <4>. QED BY <4>1, <4>2
    <3>3. CASE StoredIds \cap Ids(i, listed'[i]) # {}
      <4>1. PICK k \in StoredIds \cap Ids(i, listed'[i]) : listed'[i].on = stored[k].on
        BY <1>3, <3>1, <3>3 DEF Adopted
      <4>2. NameOf[k] = n
        BY <1>2, <3>1, <4>1 DEF List, OneReceiver, Ids
      <4>. QED BY <2>2, <4>1, <4>2 DEF RecordsAgree
    <3>. QED BY <3>2, <3>3
  <2>6. Member(n)' <=> Member(n)
    BY <1>4 DEF Member, Named
  <2>7. ListAgrees(n, listed)' /\ AllSelected(n, listed)'
    BY <1>4, <2>4, <2>5, <2>6 DEF ListAgrees, AllSelected, Listings
  <2>. QED BY <2>3, <2>7
<1>. QED BY <1>1, <1>4, <1>5 DEF GroupInv

\* A record that is written with the selection that the group expects of its receiver
\* leaves the records in agreement.
LEMMA WrittenAgrees ==
    ASSUME NEW n, NEW outputs, OneReceiver(outputs), NEW i \in DOMAIN outputs,
           stored' = WithRecord(stored, i, outputs[i]), applied'.ids = applied.ids,
           RecordsAgree(n), NameOf[i] = n => (outputs[i].on <=> Member(n))
    PROVE  RecordsAgree(n)'
<1>1. /\ i \in StoredIds' /\ stored'[i].on = outputs[i].on
      /\ \A k \in StoredIds' : k # i => k \in StoredIds /\ stored'[k].on = stored[k].on
      /\ \A k \in StoredIds : NameOf[k] # NameOf[i] => k \in StoredIds'
  BY Written
<1>2. Member(n)' <=> Member(n)
  BY DEF Member, Named
<1>3. \A k \in StoredIds' : NameOf[k] = n => (stored'[k].on <=> Member(n))
  BY <1>1 DEF RecordsAgree
<1>4. Member(n) => \E k \in StoredIds' : NameOf[k] = n
  BY <1>1 DEF RecordsAgree
<1>. QED BY <1>2, <1>3, <1>4 DEF RecordsAgree

LEMMA SameLists ==
    ASSUME cached' = cached, listed' = listed, applied'.ids = applied.ids, NEW n
    PROVE  /\ ListAgrees(n, cached) => ListAgrees(n, cached)'
           /\ ListAgrees(n, listed) /\ AllSelected(n, listed)
                  => ListAgrees(n, listed)' /\ AllSelected(n, listed)'
           /\ Member(n)' <=> Member(n)
BY DEF ListAgrees, AllSelected, Listings, Member, Named

\* A record that is stored again says of its receiver what the others say, unless the
\* list is older than a change.
LEMMA StoresGroup ==
    ASSUME FormInv, GroupInv, RefreshStores
    PROVE  GroupInv'
<1>1. PICK i \in Firsts(storing) :
          /\ stored' = WithRecord(stored, i, listed[i])
          /\ applied' = Doubting(Named({i}) \cap late)
          /\ outdated' = outdated \cup (Named({i}) \cap late)
  BY Zenon DEF RefreshStores
<1>2. /\ refresh = "apply" /\ refresh' = refresh /\ cached' = cached /\ listed' = listed
      /\ activating' = activating /\ known' = known /\ writing' = writing /\ late' = late
  BY Zenon DEF RefreshStores, changeVars
<1>3. i \in DOMAIN listed /\ OneReceiver(listed)
  BY <1>1 DEF Firsts, FormInv, List
<1>4. /\ applied' = [ids |-> applied'.ids, doubt |-> applied'.doubt]
      /\ applied'.ids = applied.ids
      /\ applied'.doubt = applied.doubt \cup (Named({i}) \cap late)
  BY <1>1, DoubtingMore, Zenon
<1>5. ASSUME NEW n \in Name \ applied'.doubt
      PROVE  /\ RecordsAgree(n)'
             /\ n \notin outdated' => ListAgrees(n, cached)'
             /\ n \notin late' => ListAgrees(n, listed)' /\ AllSelected(n, listed)'
             /\ \A j \in writing' : NameOf[j] = n => (known'[j].on <=> Member(n)')
  <2>1. n \in Name \ applied.doubt /\ (NameOf[i] = n => n \notin late)
    BY <1>4 DEF Named
  <2>2. /\ RecordsAgree(n) /\ (n \notin outdated => ListAgrees(n, cached))
        /\ n \notin late => ListAgrees(n, listed) /\ AllSelected(n, listed)
        /\ \A j \in writing : NameOf[j] = n => (known[j].on <=> Member(n))
    BY <1>2, <2>1 DEF GroupInv
  <2>3. NameOf[i] = n => (listed[i].on <=> Member(n))
    BY <1>3, <2>1, <2>2 DEF ListAgrees, AllSelected, Listings
  <2>4. RecordsAgree(n)'
    BY <1>1, <1>3, <1>4, <2>2, <2>3, WrittenAgrees
  <2>5. /\ ListAgrees(n, cached) => ListAgrees(n, cached)'
        /\ ListAgrees(n, listed) /\ AllSelected(n, listed)
               => ListAgrees(n, listed)' /\ AllSelected(n, listed)'
        /\ Member(n)' <=> Member(n)
    BY <1>2, <1>4, SameLists
  <2>6. n \notin outdated' => n \notin outdated
    BY <1>1
  <2>. QED BY <1>2, <2>2, <2>4, <2>5, <2>6
<1>. QED BY <1>2, <1>4, <1>5 DEF GroupInv

LEMMA PublishesGroup ==
    ASSUME FormInv, GroupInv, RefreshPublishes
    PROVE  GroupInv'
<1>1. /\ refresh = "apply" /\ refresh' = "idle" /\ cached' = listed /\ stored' = stored
      /\ applied' = applied /\ outdated' = late
      /\ activating' = activating /\ known' = known /\ writing' = writing
  BY Zenon DEF RefreshPublishes, changeVars
<1>2. refresh' # "apply"
  BY <1>1
<1>3. ASSUME NEW n \in Name \ applied.doubt
      PROVE  /\ RecordsAgree(n)'
             /\ n \notin outdated' => ListAgrees(n, cached)'
             /\ \A j \in writing' : NameOf[j] = n => (known'[j].on <=> Member(n)')
  <2>1. /\ RecordsAgree(n) /\ (n \notin late => ListAgrees(n, listed))
        /\ \A j \in writing : NameOf[j] = n => (known[j].on <=> Member(n))
    BY <1>1 DEF GroupInv
  <2>2. ListAgrees(n, listed) => ListAgrees(n, cached)'
    BY <1>1 DEF ListAgrees, Listings, Member, Named
  <2>3. RecordsAgree(n)' /\ (Member(n)' <=> Member(n))
    BY <1>1, <2>1 DEF RecordsAgree, Member, Named, StoredIds
  <2>. QED BY <1>1, <2>1, <2>2, <2>3
<1>. QED BY <1>1, <1>2, <1>3 DEF GroupInv

\* A record of the main thread says what the change left; until an activation ends
\* nothing is expected.
LEMMA ChangeStoresGroup ==
    ASSUME FormInv, GroupInv, ChangeStores
    PROVE  GroupInv'
<1>1. PICK i \in writing : stored' = WithRecord(stored, i, known[i]) /\ writing' = writing \ {i}
  BY DEF ChangeStores, Firsts
<1>2. /\ cached' = cached /\ listed' = listed /\ refresh' = refresh /\ activating' = activating
      /\ applied' = applied /\ late' = late /\ outdated' = outdated
      /\ known' = IF writing' = {} /\ activating = {} THEN NoOutputs ELSE known
  BY Zenon DEF ChangeStores, refreshVars, historyVars
<1>3. i \in DOMAIN known /\ OneReceiver(known)
  BY <1>1 DEF FormInv, List
<1>4. ASSUME NEW n \in Name \ applied.doubt
      PROVE  /\ RecordsAgree(n)'
             /\ n \notin outdated' => ListAgrees(n, cached)'
             /\ refresh' = "apply" /\ n \notin late'
                    => ListAgrees(n, listed)' /\ AllSelected(n, listed)'
             /\ \A j \in writing' : NameOf[j] = n => (known'[j].on <=> Member(n)')
  <2>1. /\ RecordsAgree(n) /\ (n \notin outdated => ListAgrees(n, cached))
        /\ refresh = "apply" /\ n \notin late
               => ListAgrees(n, listed) /\ AllSelected(n, listed)
        /\ \A j \in writing : NameOf[j] = n => (known[j].on <=> Member(n))
    BY DEF GroupInv
  <2>2. RecordsAgree(n)'
    <3>1. applied'.ids = applied.ids /\ (NameOf[i] = n => (known[i].on <=> Member(n)))
      BY <1>1, <1>2, <2>1
    <3>. QED BY <1>1, <1>3, <2>1, <3>1, WrittenAgrees
  <2>3. /\ ListAgrees(n, cached) => ListAgrees(n, cached)'
        /\ ListAgrees(n, listed) /\ AllSelected(n, listed)
               => ListAgrees(n, listed)' /\ AllSelected(n, listed)'
        /\ Member(n)' <=> Member(n)
    BY <1>2, SameLists
  <2>4. \A j \in writing' : j \in writing /\ known' = known
    BY <1>1, <1>2
  <2>. QED BY <1>2, <2>1, <2>2, <2>3, <2>4
<1>. QED BY <1>2, <1>4 DEF GroupInv

\* Then the records say of every linked receiver whether it is a member.
LEMMA EndsGroup ==
    ASSUME FormInv, ChangeInv, ActivationEnds
    PROVE  GroupInv'
<1>1. /\ stored' \in Replaced(stored, activating, known)
      /\ applied' = [ids |-> activating, doubt |-> Doubtful(StoredIds \cup activating, known)]
      /\ activating # {} /\ activating' = {} /\ writing' = {}
      /\ cached' = cached /\ late' = late /\ outdated' = outdated
  BY Zenon DEF ActivationEnds
<1>2. List(known) /\ InOrder(stored)
  BY DEF FormInv
<1>3. /\ known = cached \/ Name \subseteq outdated
      /\ refresh' = "apply" => Name \subseteq late
  <2>1. Changing = Name
    BY <1>1 DEF Changing
  <2>2. refresh' = "apply" => refresh = "apply"
    BY DEF ActivationEnds
  <2>. QED BY <2>1, <2>2 DEF ChangeInv
<1>4. PICK new \in SUBSET (activating \ StoredIds) :
          /\ StoredIds' = StoredIds \cup new
          /\ \A k \in StoredIds : stored'[k].on <=> ContainsPersisted(activating, k, known)
          /\ \A k \in new : stored'[k].on
          /\ \A d \in activating : \E k \in StoredIds' :
                  stored'[k].on /\ (k = d \/ SameOutput(k, d, known))
  <2>1. SelectsMembers(stored, activating, known, stored')
    BY <1>1, <1>2, ReplacedRecords, Zenon
  <2>. QED BY <2>1 DEF SelectsMembers, StoredIds
<1>5. applied'.ids = activating /\ applied'.doubt = Doubtful(StoredIds \cup activating, known)
      /\ applied' = [ids |-> applied'.ids, doubt |-> applied'.doubt]
  BY <1>1
<1>6. ASSUME NEW n \in Name \ applied'.doubt
      PROVE  RecordsAgree(n)' /\ (n \notin outdated' => ListAgrees(n, cached)')
  <2>1. /\ \A i \in Listings(n, known), d \in StoredIds \cup activating :
               NameOf[d] = n => d \in Ids(i, known[i])
        /\ Listings(n, known) = {} =>
               \A d, e \in StoredIds \cup activating : NameOf[d] = n /\ NameOf[e] = n => d = e
    <3>1. n \in Name /\ n \notin Doubtful(StoredIds \cup activating, known)
      BY <1>5
    <3>. QED BY <3>1, NotDoubtful, Zenon
  <2>2. Member(n)' <=> \E d \in activating : NameOf[d] = n
    BY <1>5 DEF Member, Named
  <2>3. ASSUME NEW k \in StoredIds, NameOf[k] = n
        PROVE  stored'[k].on <=> Member(n)'
    <3>1. ASSUME ContainsPersisted(activating, k, known) PROVE Member(n)'
      BY <1>2, <1>5, <2>3, <3>1, ContainedName DEF Member, List
    <3>2. ASSUME NEW d \in activating, NameOf[d] = n
          PROVE  ContainsPersisted(activating, k, known)
      <4>1. OutputsWith(k, known) \subseteq Listings(n, known)
        BY <1>2, <2>3, WithName DEF List, Listings
      <4>2. \A i \in OutputsWith(k, known) : d \in Ids(i, known[i])
        BY <2>1, <3>2, <4>1
      <4>3. OutputsWith(k, known) = {} => Listings(n, known) = {}
        BY <2>1, <2>3 DEF OutputsWith, Listings
      <4>4. OutputsWith(k, known) = {} => d = k
        BY <2>1, <2>3, <3>2, <4>3
      <4>. QED BY <1>2, <4>2, <4>4, LinkedContained
    <3>. QED BY <1>4, <2>2, <3>1, <3>2
  <2>4. ASSUME NEW k \in new, NameOf[k] = n
        PROVE  stored'[k].on <=> Member(n)'
    BY <1>4, <2>2, <2>4
  <2>5. ASSUME NEW d \in activating, NameOf[d] = n
        PROVE  \E k \in StoredIds' : NameOf[k] = n
    BY <1>2, <1>4, <2>5, SameName DEF List
  <2>6. RecordsAgree(n)'
    BY <1>4, <2>2, <2>3, <2>4, <2>5 DEF RecordsAgree
  <2>7. ASSUME NEW i \in Listings(n, known)
        PROVE  /\ \A d \in activating : NameOf[d] = n => d \in Ids(i, known[i])
               /\ known[i].on => Member(n)'
               /\ known[i].available /\ Member(n)' => known[i].on
    <3>1. i \in DOMAIN known /\ NameOf[i] = n
      BY DEF Listings
    <3>2. known[i].on <=> known[i].available /\ Ids(i, known[i]) \cap activating # {}
      BY <1>1, <3>1 DEF ChangeInv
    <3>3. \A d \in Ids(i, known[i]) : NameOf[d] = n
      BY <1>2, <3>1 DEF List, OneReceiver, Ids
    <3>. QED BY <2>1, <2>2, <3>2, <3>3
  <2>8. known = cached => ListAgrees(n, cached)'
    BY <1>1, <1>5, <2>7 DEF ListAgrees, Listings
  <2>. QED BY <1>1, <1>3, <2>6, <2>8
<1>. QED BY <1>1, <1>3, <1>5, <1>6 DEF GroupInv

\* A record that is to be written with the selection the group expects changes nothing.
LEMMA VolumeGroup ==
    ASSUME FormInv, GroupInv, AtRest, NEW i \in DOMAIN cached, SetVolume(i)
    PROVE  GroupInv'
<1>1. /\ stored' = stored /\ cached' = cached /\ listed' = listed /\ refresh' = refresh
      /\ activating' = activating /\ known' = cached /\ writing' = {i} /\ outdated' = outdated
      /\ late \subseteq late'
      /\ applied' = IF cached[i].on = (Ids(i, cached[i]) \cap applied.ids # {})
                    THEN Doubting(Named({i}) \cap outdated) ELSE None
  <2>1. /\ stored' = stored /\ cached' = cached /\ listed' = listed /\ refresh' = refresh
        /\ activating' = activating /\ known' = cached' /\ writing' = {i} /\ outdated' = outdated
        /\ late' = IF refresh = "apply" THEN late \cup Named({i}) ELSE late
        /\ applied' = IF cached[i].on = (Ids(i, cached[i]) \cap applied.ids # {})
                      THEN Doubting(Named({i}) \cap outdated) ELSE None
    BY Zenon DEF SetVolume, Follows, Overtakes, refreshVars
  <2>2. late \subseteq late'
    BY <2>1
  <2>. QED BY <2>1, <2>2, Zenon
<1>2. CASE applied' = None
  BY <1>2, NoGroup
<1>3. CASE /\ applied' = Doubting(Named({i}) \cap outdated)
           /\ cached[i].on = (Ids(i, cached[i]) \cap applied.ids # {})
  <2>1. activating' = {}
    BY <1>1 DEF AtRest
  <2>2. /\ applied' = [ids |-> applied'.ids, doubt |-> applied'.doubt]
        /\ applied'.ids = applied.ids
        /\ applied'.doubt = applied.doubt \cup (Named({i}) \cap outdated)
    BY <1>3, DoubtingMore, Zenon
  <2>3. ASSUME NEW n \in Name \ applied'.doubt
        PROVE  /\ RecordsAgree(n)'
               /\ n \notin outdated' => ListAgrees(n, cached)'
               /\ refresh' = "apply" /\ n \notin late'
                      => ListAgrees(n, listed)' /\ AllSelected(n, listed)'
               /\ \A j \in writing' : NameOf[j] = n => (known'[j].on <=> Member(n)')
    <3>1. n \in Name \ applied.doubt /\ (NameOf[i] = n => n \notin outdated)
      BY <2>2 DEF Named
    <3>2. /\ RecordsAgree(n) /\ (n \notin outdated => ListAgrees(n, cached))
          /\ refresh = "apply" /\ n \notin late
                 => ListAgrees(n, listed) /\ AllSelected(n, listed)
      BY <3>1 DEF GroupInv
    <3>3. GroupSame(n)
      BY <1>1, <2>2, SameGroup
    <3>4. ASSUME NameOf[i] = n PROVE cached[i].on <=> Member(n)
      <4>0. ListAgrees(n, cached)
        BY <3>1, <3>2, <3>4
      <4>1. \A d \in Ids(i, cached[i]) : NameOf[d] = n
        BY <3>4 DEF FormInv, List, OneReceiver, Ids
      <4>2. \A d \in applied.ids : NameOf[d] = n => d \in Ids(i, cached[i])
        BY <3>4, <4>0 DEF ListAgrees, Listings
      <4>. QED BY <1>3, <4>1, <4>2 DEF Member, Named
    <3>. QED BY <1>1, <3>2, <3>3, <3>4 DEF GroupSame
  <2>. QED BY <2>1, <2>2, <2>3 DEF GroupInv
<1>. QED BY <1>1, <1>2, <1>3

\* A restart finds no list, and the records as they were.
LEMMA RestartGroup ==
    ASSUME FormInv, GroupInv, Restart
    PROVE  GroupInv'
<1>1. /\ applied' = Doubting(Doubtful(StoredIds \cup applied.ids, NoOutputs))
      /\ stored' = stored /\ cached' = NoOutputs
      /\ activating' = activating /\ writing' = writing
      /\ refresh' = refresh /\ refresh = "idle" /\ AtRest
  BY Zenon DEF Restart, refreshVars, changeVars
<1>2. /\ applied' = [ids |-> applied'.ids, doubt |-> applied'.doubt]
      /\ applied'.ids = applied.ids /\ applied.doubt \subseteq applied'.doubt
  <2>1. /\ applied' = [ids |-> applied'.ids, doubt |-> applied'.doubt]
        /\ applied'.ids = applied.ids
        /\ applied'.doubt = applied.doubt \cup Doubtful(StoredIds \cup applied.ids, NoOutputs)
    BY <1>1, DoubtingMore, Zenon
  <2>. QED BY <2>1
<1>3. activating' = {} /\ writing' = {} /\ refresh' # "apply"
  BY <1>1 DEF AtRest
<1>4. ASSUME NEW n \in Name \ applied'.doubt
      PROVE  RecordsAgree(n)' /\ ListAgrees(n, cached)'
  <2>1. RecordsAgree(n)
    BY <1>2 DEF GroupInv
  <2>2. RecordsAgree(n)'
    BY <1>1, <1>2, <2>1 DEF RecordsAgree, Member, Named, StoredIds
  <2>3. DOMAIN cached' = {}
    BY <1>1, NoOutputsList
  <2>. QED BY <2>2, <2>3 DEF ListAgrees, Listings
<1>. QED BY <1>2, <1>3, <1>4 DEF GroupInv

LEMMA QuietGroup ==
    ASSUME GroupInv, Quiet
    PROVE  GroupInv'
<1>1. /\ stored' = stored /\ cached' = cached /\ listed' = listed
      /\ activating' = activating /\ known' = known /\ writing' = writing
      /\ applied' = applied /\ late' = late /\ outdated' = outdated
      /\ refresh' = "apply" <=> refresh = "apply"
  BY Zenon DEF Quiet
<1>2. ASSUME NEW n \in Name PROVE GroupSame(n)
  BY <1>1, SameGroup
<1>. QED BY <1>1, <1>2 DEF GroupInv, GroupSame

LEMMA GroupStep == FormInv /\ ChangeInv /\ GroupInv /\ [Next]_vars => GroupInv'
<1> SUFFICES ASSUME FormInv, ChangeInv, GroupInv, [Next]_vars PROVE GroupInv'
  OBVIOUS
<1>1. ASSUME NEW k \in DOMAIN groups, ActivateGroup(groups[k]) PROVE GroupInv'
  BY <1>1, NoGroup, Zenon DEF ActivateGroup
<1>2. ASSUME NEW i \in DOMAIN cached, Toggle(i) PROVE GroupInv'
  BY <1>2, NoGroup, Zenon DEF Toggle
<1>. QED BY <1>1, <1>2, QuietGroup, ListsGroup, StoresGroup, PublishesGroup,
            ChangeStoresGroup, EndsGroup, VolumeGroup, RestartGroup, SelectionStep, Zenon

LEMMA GroupInit == Init => ChangeInv /\ GroupInv
<1> SUFFICES ASSUME Init PROVE ChangeInv /\ GroupInv
  OBVIOUS
<1>1. /\ activating = {} /\ writing = {} /\ known = cached /\ refresh # "apply"
      /\ applied = [ids |-> {}, doubt |-> Name]
  BY DEF Init, None
<1>. QED BY <1>1 DEF ChangeInv, GroupInv

-----------------------------------------------------------------------------
(* What is selected in the lists and in the records.                       *)

Only(i, ids) == \A j \in ids : NameOf[j] = NameOf[i] => j = i

\* The receiver of an output has no other, and no record but one of its ids.
Clear(i, outputs) ==
    /\ Only(i, DOMAIN outputs)
    /\ \A j, k \in StoredIds : NameOf[j] = NameOf[i] /\ NameOf[k] = NameOf[i] => j = k
    /\ \A k \in StoredIds : NameOf[k] = NameOf[i] => k \in Ids(i, outputs[i])

\* The records select what a list has selected.
Stored(i, outputs) ==
    /\ outputs[i].on => \E k \in StoredIds : NameOf[k] = NameOf[i] /\ stored[k].on
    /\ outputs[i].available =>
          \A k \in StoredIds : NameOf[k] = NameOf[i] /\ stored[k].on => outputs[i].on

CacheStored ==
    \A i \in DOMAIN cached :
        NameOf[i] \notin outdated \cup Changing /\ Clear(i, cached) => Stored(i, cached)

\* An output of a list on its way has its own record, is yet to get it, or has none.
ListStored ==
    \A i \in DOMAIN listed : NameOf[i] \notin late /\ Only(i, DOMAIN listed) =>
        \/ i \in storing
        \/ i \in StoredIds /\ stored[i].on = listed[i].on
        \/ StoredIds \cap Ids(i, listed[i]) = {} /\ ~listed[i].on

TruthInv ==
    /\ refresh # "apply" => CacheStored
    /\ refresh = "apply" => ListStored

LEMMA ListsTruth ==
    ASSUME FormInv, RefreshLists
    PROVE  TruthInv'
<1>1. refresh' = "apply" /\ stored' = stored
  BY Zenon DEF RefreshLists
<1>2. PICK enabled \in SUBSET ListedTwice(listed') : Adopted(listed', storing', enabled)
  BY ListsEffect, Zenon DEF FormInv
<1>3. ListStored'
  <2> SUFFICES ASSUME NEW i \in DOMAIN listed', Only(i, DOMAIN listed')
               PROVE  \/ i \in storing'
                      \/ i \in StoredIds /\ stored[i].on = listed'[i].on
                      \/ StoredIds \cap Ids(i, listed'[i]) = {} /\ ~listed'[i].on
    BY <1>1 DEF ListStored, StoredIds, Only
  <2>1. i \notin enabled
    BY <1>2 DEF ListedTwice, Listings, Only
  <2>. QED BY <1>2, <2>1 DEF Adopted
<1>. QED BY <1>1, <1>3 DEF TruthInv

\* A record that is written of another receiver leaves the output as it was.
LEMMA StoresTruth ==
    ASSUME FormInv, TruthInv, RefreshStores
    PROVE  TruthInv'
<1>1. PICK i \in Firsts(storing) :
          stored' = WithRecord(stored, i, listed[i]) /\ storing' = storing \ {i}
  BY Zenon DEF RefreshStores
<1>2. refresh = "apply" /\ refresh' = refresh /\ listed' = listed /\ late' = late
  BY Zenon DEF RefreshStores
<1>3. i \in DOMAIN listed
  BY <1>1 DEF Firsts, FormInv
<1>4. /\ i \in StoredIds' /\ stored'[i].on = listed[i].on
      /\ \A k \in StoredIds' : k # i => k \in StoredIds /\ stored'[k].on = stored[k].on
      /\ \A k \in StoredIds : NameOf[k] # NameOf[i] => k \in StoredIds'
  BY <1>1, <1>3, Written DEF FormInv, List
<1>5. ASSUME NEW j \in DOMAIN listed, NameOf[j] \notin late, Only(j, DOMAIN listed)
      PROVE  \/ j \in storing'
             \/ j \in StoredIds' /\ stored'[j].on = listed[j].on
             \/ StoredIds' \cap Ids(j, listed[j]) = {} /\ ~listed[j].on
  <2>1. CASE j = i
    BY <1>4, <2>1
  <2>2. CASE j # i
    <3>1. NameOf[i] # NameOf[j]
      BY <1>3, <1>5, <2>2 DEF Only
    <3>2. \/ j \in storing
          \/ j \in StoredIds /\ stored[j].on = listed[j].on
          \/ StoredIds \cap Ids(j, listed[j]) = {} /\ ~listed[j].on
      BY <1>2, <1>5 DEF TruthInv, ListStored
    <3>3. \A k \in Ids(j, listed[j]) : k \in StoredIds' <=> k \in StoredIds
      BY <1>4, <3>1 DEF FormInv, List, OneReceiver, Ids
    <3>. QED BY <1>1, <1>4, <2>2, <3>1, <3>2, <3>3 DEF Ids
  <2>. QED BY <2>1, <2>2
<1>6. ListStored'
  BY <1>2, <1>5 DEF ListStored, Only
<1>. QED BY <1>2, <1>6 DEF TruthInv

LEMMA PublishesTruth ==
    ASSUME TruthInv, RefreshPublishes
    PROVE  TruthInv'
<1>1. /\ refresh = "apply" /\ refresh' = "idle" /\ storing = {}
      /\ cached' = listed /\ stored' = stored /\ outdated' = late
  BY Zenon DEF RefreshPublishes
<1>2. refresh' # "apply"
  BY <1>1
<1>3. ASSUME NEW i \in DOMAIN listed, NameOf[i] \notin late, Clear(i, listed)
      PROVE  Stored(i, listed)
  <2>1. \/ i \in StoredIds /\ stored[i].on = listed[i].on
        \/ StoredIds \cap Ids(i, listed[i]) = {} /\ ~listed[i].on
    BY <1>1, <1>3 DEF TruthInv, ListStored, Clear
  <2>. QED BY <1>3, <2>1 DEF Clear, Stored
<1>4. CacheStored'
  BY <1>1, <1>3 DEF CacheStored, Clear, Only, Stored, StoredIds
<1>. QED BY <1>2, <1>4 DEF TruthInv

\* The outputs of the other receivers keep their records when one output's is written.
LEMMA OthersStored ==
    ASSUME NEW outputs, OneReceiver(outputs), NEW i \in DOMAIN outputs,
           stored' = WithRecord(stored, i, outputs[i]), cached' = cached,
           NEW j \in DOMAIN cached, NameOf[j] # NameOf[i], Clear(j, cached)',
           Clear(j, cached) => Stored(j, cached)
    PROVE  Stored(j, cached)'
<1>1. /\ \A k \in StoredIds' : k # i => k \in StoredIds /\ stored'[k].on = stored[k].on
      /\ \A k \in StoredIds : NameOf[k] # NameOf[i] => k \in StoredIds'
  BY Written
<1>2. \A k : NameOf[k] = NameOf[j] =>
          (k \in StoredIds' <=> k \in StoredIds) /\ (k \in StoredIds' => stored'[k].on = stored[k].on)
  BY <1>1
<1>3. Clear(j, cached)
  BY <1>2 DEF Clear, Only
<1>. QED BY <1>2, <1>3 DEF Stored

\* A record of the main thread makes the records of its receiver what the cache is,
\* unless a list without the change was published.
LEMMA ChangeStoresTruth ==
    ASSUME FormInv, ChangeInv, TruthInv, ChangeStores
    PROVE  TruthInv'
<1>1. PICK i \in writing : stored' = WithRecord(stored, i, known[i]) /\ writing' = writing \ {i}
  BY DEF ChangeStores, Firsts
<1>2. /\ cached' = cached /\ listed' = listed /\ storing' = storing
      /\ refresh' = refresh /\ activating' = activating /\ late' = late /\ outdated' = outdated
  BY Zenon DEF ChangeStores, refreshVars, historyVars
<1>3. i \in DOMAIN known /\ OneReceiver(known) /\ OneReceiver(cached) /\ OneReceiver(listed)
  BY <1>1 DEF FormInv, List
<1>4. /\ i \in StoredIds' /\ stored'[i].on = known[i].on
      /\ \A k \in StoredIds' : k # i => k \in StoredIds /\ stored'[k].on = stored[k].on
      /\ \A k \in StoredIds : NameOf[k] # NameOf[i] => k \in StoredIds'
  BY <1>1, <1>3, Written
<1>5. NameOf[i] \in Changing
  <2>1. NameOf[i] \in Name
    BY <1>3, NameAssumption DEF FormInv, List
  <2>. QED BY <1>1, <2>1 DEF Changing, Named
<1>6. CASE refresh # "apply"
  <2>1. ASSUME NEW j \in DOMAIN cached, NameOf[j] \notin outdated \cup Changing', Clear(j, cached)'
        PROVE  Stored(j, cached)'
    <3>1. activating = {}
      <4>1. NameOf[j] \in Name
        BY NameAssumption DEF FormInv, List
      <4>. QED BY <1>2, <2>1, <4>1 DEF Changing
    <3>2. CASE NameOf[j] = NameOf[i]
      <4>1. cached = known
        BY <1>5, <2>1, <3>2 DEF ChangeInv
      <4>2. j = i
        BY <1>2, <1>3, <2>1, <3>2, <4>1 DEF Clear, Only
      <4>3. \A k \in StoredIds' : NameOf[k] = NameOf[j] => k = i
        BY <1>4, <2>1, <3>2 DEF Clear
      <4>. QED BY <1>2, <1>4, <4>1, <4>2, <4>3 DEF Stored
    <3>3. CASE NameOf[j] # NameOf[i]
      <4>1. NameOf[j] \notin outdated \cup Changing
        BY <1>1, <1>2, <2>1, <3>1, <3>3 DEF Changing, Named
      <4>2. Clear(j, cached) => Stored(j, cached)
        BY <1>6, <4>1 DEF TruthInv, CacheStored
      <4>. QED BY <1>1, <1>2, <1>3, <2>1, <3>3, <4>2, OthersStored
    <3>. QED BY <3>2, <3>3
  <2>2. CacheStored'
    BY <1>2, <2>1 DEF CacheStored
  <2>. QED BY <1>2, <1>6, <2>2 DEF TruthInv
<1>7. CASE refresh = "apply"
  <2>1. ASSUME NEW j \in DOMAIN listed, NameOf[j] \notin late, Only(j, DOMAIN listed)
        PROVE  \/ j \in storing
               \/ j \in StoredIds' /\ stored'[j].on = listed[j].on
               \/ StoredIds' \cap Ids(j, listed[j]) = {} /\ ~listed[j].on
    <3>1. NameOf[j] # NameOf[i]
      BY <1>5, <1>7, <2>1 DEF ChangeInv
    <3>2. \/ j \in storing
          \/ j \in StoredIds /\ stored[j].on = listed[j].on
          \/ StoredIds \cap Ids(j, listed[j]) = {} /\ ~listed[j].on
      BY <1>7, <2>1 DEF TruthInv, ListStored
    <3>3. \A k \in Ids(j, listed[j]) : k \in StoredIds' <=> k \in StoredIds
      BY <1>3, <1>4, <3>1 DEF OneReceiver, Ids
    <3>. QED BY <1>4, <3>1, <3>2, <3>3 DEF Ids
  <2>2. ListStored'
    BY <1>2, <2>1 DEF ListStored, Only
  <2>. QED BY <1>2, <1>7, <2>2 DEF TruthInv
<1>. QED BY <1>6, <1>7

\* When the activation ends, the records select what the cache does.
LEMMA EndsTruth ==
    ASSUME FormInv, ChangeInv, ActivationEnds
    PROVE  TruthInv'
<1>1. /\ stored' \in Replaced(stored, activating, known)
      /\ activating # {} /\ cached' = cached /\ listed' = listed
      /\ late' = late /\ outdated' = outdated
  BY Zenon DEF ActivationEnds
<1>2. List(known) /\ InOrder(stored) /\ DOMAIN cached \subseteq Id /\ DOMAIN listed \subseteq Id
  BY DEF FormInv, List
<1>3. /\ known = cached \/ Name \subseteq outdated
      /\ refresh' = "apply" => Name \subseteq late
  <2>1. Changing = Name
    BY <1>1 DEF Changing
  <2>2. refresh' = "apply" => refresh = "apply"
    BY DEF ActivationEnds
  <2>. QED BY <2>1, <2>2 DEF ChangeInv
<1>4. PICK new \in SUBSET (activating \ StoredIds) :
          /\ StoredIds' = StoredIds \cup new
          /\ \A k \in StoredIds : stored'[k].on <=> ContainsPersisted(activating, k, known)
          /\ \A d \in activating : \E k \in StoredIds' :
                  stored'[k].on /\ (k = d \/ SameOutput(k, d, known))
  <2>1. SelectsMembers(stored, activating, known, stored')
    BY <1>1, <1>2, ReplacedRecords, Zenon
  <2>. QED BY <2>1 DEF SelectsMembers, StoredIds
<1>5. ASSUME known = cached, NEW i \in DOMAIN known, Clear(i, cached)'
      PROVE  Stored(i, cached)'
  <2>1. known[i].on <=> known[i].available /\ Ids(i, known[i]) \cap activating # {}
    BY <1>1 DEF ChangeInv
  <2>2. \A d \in Ids(i, known[i]) : NameOf[d] = NameOf[i]
    BY <1>2 DEF List, OneReceiver, Ids
  <2>3. ASSUME NEW d \in Ids(i, known[i]) \cap activating
        PROVE  \E k \in StoredIds' : NameOf[k] = NameOf[i] /\ stored'[k].on
    BY <1>2, <1>4, <2>2, SameName DEF List
  <2>4. /\ Only(i, DOMAIN known)
        /\ \A k \in StoredIds' : NameOf[k] = NameOf[i] => k \in Ids(i, known[i])
    BY <1>1, <1>5 DEF Clear, Only
  <2>5. ASSUME NEW k \in StoredIds', NameOf[k] = NameOf[i], stored'[k].on
        PROVE  Ids(i, known[i]) \cap activating # {}
    <3>1. k \in Ids(i, known[i])
      BY <2>4, <2>5
    <3>2. CASE k \in activating
      BY <3>1, <3>2
    <3>3. CASE k \notin activating
      <4>1. ContainsPersisted(activating, k, known)
        BY <1>4, <2>5, <3>3
      <4>2. PICK j \in Firsts(OutputsWith(k, known)) : Ids(j, known[j]) \cap activating # {}
        BY <3>3, <4>1 DEF ContainsPersisted
      <4>3. j \in OutputsWith(k, known)
        BY <4>2 DEF Firsts
      <4>4. j \in DOMAIN known /\ NameOf[j] = NameOf[i]
        BY <1>2, <2>5, <4>3, WithName DEF List
      <4>5. j = i
        BY <2>4, <4>4 DEF Only
      <4>. QED BY <4>2, <4>5
    <3>. QED BY <3>2, <3>3
  <2>. QED BY <1>1, <1>5, <2>1, <2>3, <2>5 DEF Stored
<1>6. CacheStored'
  <2>1. ASSUME NEW i \in DOMAIN cached, NameOf[i] \notin outdated, Clear(i, cached)'
        PROVE  Stored(i, cached)'
    <3>1. NameOf[i] \in Name
      BY <1>2, NameAssumption
    <3>2. known = cached
      BY <1>3, <2>1, <3>1
    <3>. QED BY <1>5, <2>1, <3>2
  <2>. QED BY <1>1, <2>1 DEF CacheStored
<1>7. refresh' = "apply" => ListStored'
  <2>1. \A i \in DOMAIN listed : NameOf[i] \in Name
    BY <1>2, NameAssumption
  <2>. QED BY <1>1, <1>3, <2>1 DEF ListStored
<1>. QED BY <1>6, <1>7 DEF TruthInv

\* What is changed in the cache waits for its records.
LEMMA UserTruth ==
    ASSUME FormInv, TruthInv, AtRest, NEW i \in DOMAIN cached, Toggle(i) \/ SetVolume(i)
    PROVE  TruthInv'
<1>1. /\ stored' = stored /\ listed' = listed /\ storing' = storing /\ refresh' = refresh
      /\ activating' = activating /\ writing' = {i} /\ outdated' = outdated
      /\ late \subseteq late'
  <2>1. /\ stored' = stored /\ listed' = listed /\ storing' = storing /\ refresh' = refresh
        /\ activating' = activating /\ writing' = {i} /\ outdated' = outdated
        /\ late' = IF refresh = "apply" THEN late \cup Named({i}) ELSE late
    BY Zenon DEF Toggle, SetVolume, Follows, Overtakes, refreshVars
  <2>2. late \subseteq late'
    BY <2>1
  <2>. QED BY <2>1, <2>2, Zenon
<1>2. DOMAIN cached' = DOMAIN cached /\ \A j \in DOMAIN cached : j # i => cached'[j] = cached[j]
  <2>1. Toggle(i) => DOMAIN cached' = DOMAIN cached
                     /\ \A j \in DOMAIN cached : j # i => cached'[j] = cached[j]
    BY ToggleEffect DEF FormInv, SameButSelection
  <2>2. SetVolume(i) => cached' = cached
    BY Zenon DEF SetVolume
  <2>. QED BY <2>1, <2>2
<1>3. Changing = {} /\ Changing' = Named({i})
  BY <1>1 DEF AtRest, Changing, Named
<1>4. CacheStored => CacheStored'
  <2> SUFFICES ASSUME CacheStored, NEW j \in DOMAIN cached,
                      NameOf[j] \notin outdated \cup Named({i}), Clear(j, cached)'
               PROVE  Stored(j, cached)'
    BY <1>1, <1>2, <1>3 DEF CacheStored
  <2>1. cached'[j] = cached[j]
    BY <1>2 DEF Named
  <2>2. Clear(j, cached)
    BY <1>1, <1>2, <2>1 DEF Clear, Only, StoredIds
  <2>3. Stored(j, cached)
    BY <1>3, <2>2 DEF CacheStored
  <2>. QED BY <1>1, <2>1, <2>3 DEF Stored, StoredIds
<1>5. ListStored => ListStored'
  BY <1>1 DEF ListStored, Only, StoredIds
<1>. QED BY <1>1, <1>4, <1>5 DEF TruthInv

LEMMA ActivateTruth ==
    ASSUME FormInv, EditInv, TruthInv, NEW k \in DOMAIN groups, ActivateGroup(groups[k])
    PROVE  TruthInv'
<1>1. /\ activating' = groups[k].members /\ refresh' = refresh /\ stored' = stored
      /\ listed' = listed /\ storing' = storing
      /\ late' = IF refresh = "apply" THEN late \cup Name ELSE late
  BY Zenon DEF ActivateGroup, Overtakes, refreshVars
<1>2. groups[k] \in GroupType
  BY DEF EditInv
<1>3. Changing' = Name
  BY <1>1, <1>2 DEF GroupType, Changing
<1>4. DOMAIN cached' \subseteq Id
  BY ActivateEffect DEF FormInv, List
<1>5. CacheStored'
  <2>1. \A i \in DOMAIN cached' : NameOf[i] \in Name
    BY <1>4, NameAssumption
  <2>. QED BY <1>3, <2>1 DEF CacheStored
<1>6. ListStored => ListStored'
  BY <1>1 DEF ListStored, Only, StoredIds
<1>. QED BY <1>1, <1>5, <1>6 DEF TruthInv

LEMMA TruthStep ==
    FormInv /\ EditInv /\ ChangeInv /\ TruthInv /\ [Next]_vars => TruthInv'
<1> SUFFICES ASSUME FormInv, EditInv, ChangeInv, TruthInv, [Next]_vars PROVE TruthInv'
  OBVIOUS
<1>1. CASE Quiet
  <2>1. /\ stored' = stored /\ cached' = cached /\ listed' = listed /\ storing' = storing
        /\ activating' = activating /\ writing' = writing /\ late' = late /\ outdated' = outdated
        /\ refresh' = "apply" <=> refresh = "apply"
    BY <1>1, Zenon DEF Quiet
  <2>2. CacheStored => CacheStored'
    BY <2>1 DEF CacheStored, Clear, Only, Stored, StoredIds, Changing, Named
  <2>3. ListStored => ListStored'
    BY <2>1 DEF ListStored, Only, StoredIds
  <2>. QED BY <2>1, <2>2, <2>3 DEF TruthInv
<1>2. CASE Restart
  <2>1. cached' = NoOutputs /\ refresh' = refresh /\ refresh = "idle"
    BY <1>2, Zenon DEF Restart, refreshVars
  <2>2. DOMAIN cached' = {} /\ refresh' # "apply"
    BY <2>1, NoOutputsList
  <2>. QED BY <2>2 DEF TruthInv, CacheStored
<1>. QED BY <1>1, <1>2, ListsTruth, StoresTruth, PublishesTruth, ChangeStoresTruth, EndsTruth,
            UserTruth, ActivateTruth, SelectionStep, Zenon

LEMMA TruthInit == Init => TruthInv
<1> SUFFICES ASSUME Init PROVE TruthInv
  OBVIOUS
<1>1. cached = NoOutputs /\ refresh = "idle"
  BY Zenon DEF Init
<1>2. DOMAIN cached = {}
  BY <1>1, NoOutputsList
<1>. QED BY <1>1, <1>2 DEF TruthInv, CacheStored

-----------------------------------------------------------------------------
(* The invariant and what follows from it.                                 *)

SelectionInv == FormInv /\ EditInv /\ ChangeInv /\ GroupInv /\ TruthInv

\* Lists, records and editor agree on every receiver whose ids are linked.
THEOREM SelectionInvariance == Spec => []SelectionInv
<1>1. Init => SelectionInv
  BY FormInit, EditInit, GroupInit, TruthInit, Zenon DEF SelectionInv
<1>2. SelectionInv /\ [Next]_vars => SelectionInv'
  <2>1. FormInv => List(cached)
    BY DEF FormInv
  <2>. QED BY <2>1, FormStep, EditStep, ChangeStep, GroupStep, TruthStep, Zenon
           DEF SelectionInv
<1>. QED BY <1>1, <1>2, PTL DEF Spec

\* After a group was applied, and until the user selects otherwise, its members and
\* nothing else are selected as soon as they are available: activate_speaker_group()
\* writes a record for each, and apply_stored_output_state() finds it under whatever
\* id the receiver has then (multiroom_component_state.cpp:1055, 185).  Excepted are a
\* receiver whose ids were not linked, or which the registry had selected without a
\* record, and, until the next refresh, those with which a list was published that was
\* read before the group was applied; if their records are written from that list, or
\* from a cache that has it, they stay excepted.
THEOREM AppliedCorrect == Spec => []AppliedGroupSelected
<1>1. SelectionInv => AppliedGroupSelected
  <2> SUFFICES ASSUME SelectionInv, NEW i \in DOMAIN cached,
                      NameOf[i] \notin applied.doubt \cup outdated
               PROVE  /\ cached[i].on => NameOf[i] \in Named(applied.ids)
                      /\ cached[i].available /\ Ids(i, cached[i]) \cap applied.ids # {}
                            => cached[i].on
    BY DEF AppliedGroupSelected, Selects
  <2>1. List(cached)
    BY DEF SelectionInv, FormInv
  <2>2. NameOf[i] \in Name
    BY <2>1, NameAssumption DEF List
  <2>3. ListAgrees(NameOf[i], cached)
    BY <2>2 DEF SelectionInv, GroupInv
  <2>4. i \in Listings(NameOf[i], cached)
    BY DEF Listings
  <2>5. /\ cached[i].on => Member(NameOf[i])
        /\ cached[i].available /\ Member(NameOf[i]) => cached[i].on
    BY <2>3, <2>4, Zenon DEF ListAgrees
  <2>6. Ids(i, cached[i]) \cap applied.ids # {} => Member(NameOf[i])
    BY <2>1 DEF List, OneReceiver, Ids, Member, Named
  <2>. QED BY <2>5, <2>6 DEF Member
<1>. QED BY <1>1, SelectionInvariance, PTL

\* The group that is shown as the current one tells what is selected:
\* active_speaker_group_id() compares the records with the groups, and the records
\* select what the cache does (multiroom_component_state.cpp:1103).  It does while the
\* main thread is in no change and no list is between its reading and publication, for
\* each receiver that is listed and stored once, whose ids are linked, and with which no
\* list was published that lacks a change.
THEOREM ActiveCorrect == Spec => []ActiveGroupTruthful
<1>1. SelectionInv => ActiveGroupTruthful
  <2> SUFFICES ASSUME SelectionInv, AtRest, refresh # "apply",
                      NEW k \in ActiveGroup, NEW i \in DOMAIN cached,
                      NameOf[i] \notin outdated,
                      NameOf[i] \notin Several(StoredIds), NameOf[i] \notin Several(DOMAIN cached),
                      NameOf[i] \notin Doubtful(StoredIds \cup groups[k].members, cached)
               PROVE  /\ cached[i].on => NameOf[i] \in Named(groups[k].members)
                      /\ cached[i].available /\ NameOf[i] \in Named(groups[k].members)
                            => cached[i].on
    BY DEF ActiveGroupTruthful
  <2>1. List(cached)
    BY DEF SelectionInv, FormInv
  <2>2. NameOf[i] \in Name /\ i \in Listings(NameOf[i], cached)
    BY <2>1, NameAssumption DEF List, Listings
  <2>3. Clear(i, cached)
    <3>1. Only(i, DOMAIN cached)
      BY <2>2 DEF Only, Several
    <3>2. \A j, l \in StoredIds : NameOf[j] = NameOf[i] /\ NameOf[l] = NameOf[i] => j = l
      BY <2>2 DEF Several
    <3>3. \A l \in StoredIds : NameOf[l] = NameOf[i] => l \in Ids(i, cached[i])
      <4>1. \A d \in StoredIds \cup groups[k].members :
                NameOf[d] = NameOf[i] => d \in Ids(i, cached[i])
        BY <2>2, NotDoubtful
      <4>. QED BY <4>1
    <3>. QED BY <3>1, <3>2, <3>3 DEF Clear
  <2>4. Stored(i, cached)
    <3>1. Changing = {}
      BY DEF AtRest, Changing, Named
    <3>2. CacheStored
      BY DEF SelectionInv, TruthInv
    <3>. QED BY <2>3, <3>1, <3>2 DEF CacheStored
  <2>5. Named(groups[k].members) = Named(SelectedRecords)
    <3>1. MatchesSelection(groups[k].members, SelectedRecords, cached)
      BY DEF ActiveGroup, Firsts
    <3>. QED BY <2>1, <3>1, MatchNames DEF List
  <2>6. NameOf[i] \in Named(SelectedRecords)
            <=> \E l \in StoredIds : NameOf[l] = NameOf[i] /\ stored[l].on
    BY DEF Named, SelectedRecords, StoredIds
  <2>. QED BY <2>4, <2>5, <2>6 DEF Stored
<1>. QED BY <1>1, SelectionInvariance, PTL

\* Saving keeps the receivers that the user left checked: the editor's rows are made
\* again from the checked ids whenever the outputs change (preferences.cpp:390, 439).
THEOREM EditCorrect == Spec => []EditKept
<1>1. SelectionInv => EditKept
  BY DEF SelectionInv, EditInv, EditKept
<1>. QED BY <1>1, SelectionInvariance, PTL

\* Groups and records are compared through the links of the outputs alone.
LEMMA SameLinks ==
    ASSUME NEW ids, NEW selected, NEW before, NEW after, Links(before) = Links(after)
    PROVE  MatchesSelection(ids, selected, before) <=> MatchesSelection(ids, selected, after)
<1>1. DOMAIN before = DOMAIN after
      /\ \A i \in DOMAIN before : Ids(i, before[i]) = Ids(i, after[i])
  <2>1. DOMAIN Links(before) = DOMAIN before /\ DOMAIN Links(after) = DOMAIN after
    BY DEF Links
  <2>2. ASSUME NEW i \in DOMAIN before PROVE Ids(i, before[i]) = Ids(i, after[i])
    <3>1. Links(before)[i] = before[i].aliases /\ Links(after)[i] = after[i].aliases
      BY <2>1, <2>2 DEF Links
    <3>. QED BY <3>1 DEF Ids
  <2>. QED BY <2>1, <2>2
<1>2. \A k : OutputsWith(k, before) = OutputsWith(k, after)
  BY <1>1 DEF OutputsWith
<1>3. \A d, e : SameOutput(d, e, before) <=> SameOutput(d, e, after)
  BY <1>1 DEF SameOutput
<1>4. ASSUME NEW k PROVE ContainsPersisted(ids, k, before) <=> ContainsPersisted(ids, k, after)
  <2>1. \A i \in Firsts(OutputsWith(k, before)) : i \in DOMAIN before
    BY DEF Firsts, OutputsWith
  <2>. QED BY <1>1, <1>2, <2>1 DEF ContainsPersisted
<1>. QED BY <1>3, <1>4 DEF MatchesSelection

\* A group that was applied is shown as the current one, or an earlier one of the file
\* with the same members (multiroom_component_state.cpp:211, 1103), unless a list that
\* was published since the change of the cache links the ids otherwise.
THEOREM ShownCorrect == Spec => AppliedGroupShown
<1>1. SelectionInv /\ [Next]_vars => [GroupShown]_vars
  <2> SUFFICES ASSUME FormInv, EditInv, ActivationEnds, Links(known) = Links(cached),
                      NEW k \in DOMAIN groups, groups[k].members = activating
               PROVE  /\ ActiveGroup' # {}
                      /\ \A j \in ActiveGroup' : Named(groups[j].members) = Named(activating)
    BY DEF SelectionInv, GroupShown
  <2>1. /\ stored' \in Replaced(stored, activating, known)
        /\ activating # {} /\ cached' = cached /\ groups' = groups
    BY Zenon DEF ActivationEnds
  <2>2. List(known) /\ List(cached) /\ InOrder(stored)
    BY DEF FormInv
  <2>3. SelectsMembers(stored, activating, known, stored')
    BY <2>1, <2>2, ReplacedRecords, Zenon
  <2>4. PICK new \in SUBSET (activating \ DOMAIN stored) :
            /\ DOMAIN stored' = DOMAIN stored \cup new
            /\ \A l \in DOMAIN stored : stored'[l].on <=> ContainsPersisted(activating, l, known)
            /\ \A d \in activating : \E l \in DOMAIN stored' :
                    stored'[l].on /\ (l = d \/ SameOutput(l, d, known))
    BY <2>3 DEF SelectsMembers
  <2>5. SelectedRecords' = {l \in DOMAIN stored' : stored'[l].on}
    BY DEF SelectedRecords
  <2>6. \A l \in SelectedRecords' : ContainsPersisted(activating, l, known)
    BY <2>4, <2>5 DEF ContainsPersisted
  <2>7. MatchesSelection(activating, SelectedRecords', cached)
    <3>1. MatchesSelection(activating, SelectedRecords', known)
      BY <2>1, <2>4, <2>5, <2>6 DEF MatchesSelection
    <3>. QED BY <3>1, SameLinks
  <2> DEFINE shownIn == {j \in DOMAIN groups :
                            MatchesSelection(groups[j].members, SelectedRecords', cached)}
  <2>8. ActiveGroup' = Firsts(shownIn)
    BY <2>1 DEF ActiveGroup
  <2>9. shownIn \in SUBSET Nat /\ k \in shownIn
    BY <2>7 DEF EditInv
  <2>10. ActiveGroup' # {}
    BY <2>8, <2>9, FirstExists
  <2>11. ASSUME NEW j \in ActiveGroup' PROVE Named(groups[j].members) = Named(activating)
    <3>1. MatchesSelection(groups[j].members, SelectedRecords', cached)
      BY <2>8 DEF Firsts
    <3>. QED BY <2>2, <2>7, <3>1, MatchNames DEF List
  <2>. QED BY <2>10, <2>11
<1>. QED BY <1>1, SelectionInvariance, PTL DEF Spec, AppliedGroupShown
=============================================================================
