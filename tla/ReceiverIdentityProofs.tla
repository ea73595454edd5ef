----------------------- MODULE ReceiverIdentityProofs -----------------------
(***************************************************************************)
(* Lemmas about the records of OutputRecords and about the merge of        *)
(* identities in AirPlayDiscovery, for any list of receivers: what is      *)
(* written to the file is found again; one step of the merge leaves no     *)
(* receiver listed twice at one host, and loses no id.                     *)
(***************************************************************************)
EXTENDS ReceiverIdentity, WellFoundedInduction, TLAPS

-----------------------------------------------------------------------------
(* Lists of outputs and the file of records.                               *)

\* Of any ids one is the first.
LEMMA FirstExists == ASSUME NEW ids \in SUBSET Nat, ids # {} PROVE Firsts(ids) # {}
<1> DEFINE less == OpToRel(<, Nat)
<1>1. \A i, j \in Nat : i < j => <<i, j>> \in less
  BY DEF OpToRel
<1>2. IsWellFoundedOn(less, Nat)
  BY NatLessThanWellFounded
<1> HIDE DEF less
<1>3. PICK i \in ids : \A j \in ids : ~(<<j, i>> \in less)
  BY <1>2, WFMin, Zenon
<1>4. \A j \in ids : ~(j < i)
  BY <1>1, <1>3
<1>. QED BY <1>4 DEF Firsts

\* An output of a list: a setting, aliases, and whatever else the list says of it.
Output(e) == e = [field \in DOMAIN e |-> e[field]] /\ {"on", "aliases"} \subseteq DOMAIN e
Outputs(list) == \A i \in DOMAIN list : Output(list[i])
OneReceiver(list) == \A i \in DOMAIN list : \A j \in list[i].aliases : NameOf[j] = NameOf[i]

LEMMA OutputSet ==
    ASSUME NEW output, Output(output), NEW on
    PROVE  /\ Output([output EXCEPT !.on = on])
           /\ [output EXCEPT !.on = on].on = on
           /\ [output EXCEPT !.on = on].aliases = output.aliases
BY DEF Output

\* The file is in some order: of any records one is the first.
HasFirst(records) ==
    \A ids \in SUBSET DOMAIN records :
        ids # {} => \E k \in ids : records[k].before \cap ids = {}
BeforeRecords(records) == \A k \in DOMAIN records : records[k].before \subseteq DOMAIN records
InOrder(records) == HasFirst(records) /\ BeforeRecords(records)

LEMMA NothingInOrder == InOrder(NoRecords)
BY DEF InOrder, HasFirst, BeforeRecords, NoRecords

\* A new record of an output leaves the others in their order.
LEMMA RecordsOrdered ==
    ASSUME NEW records, InOrder(records), NEW i, NEW output
    PROVE  InOrder(WithRecord(records, i, output))
<1> DEFINE gone == output.aliases
           kept == DOMAIN records \ gone
           after == WithRecord(records, i, output)
<1>1. /\ DOMAIN after = kept \cup {i}
      /\ \A k \in kept : after[k].before = records[k].before \ gone
      /\ i \notin kept => after[i].before = kept
  <2>1. /\ DOMAIN after = kept \cup {i}
        /\ \A k \in kept \ {i} :
              after[k] = [on |-> records[k].on, before |-> records[k].before \ gone]
        /\ after[i] = [on |-> output.on,
                       before |-> IF i \in kept THEN records[i].before \ gone ELSE kept]
    BY DEF WithRecord
  <2> HIDE DEF after
  <2>2. ASSUME NEW k \in kept \ {i} PROVE after[k].before = records[k].before \ gone
    <3>1. after[k] = [on |-> records[k].on, before |-> records[k].before \ gone]
      BY <2>1, Zenon
    <3>. QED BY <3>1
  <2>3. after[i].before = IF i \in kept THEN records[i].before \ gone ELSE kept
    BY <2>1
  <2>. QED BY <2>1, <2>2, <2>3
<1> HIDE DEF gone, after
<1>2. BeforeRecords(after)
  BY <1>1 DEF InOrder, BeforeRecords
<1>3. ASSUME NEW ids \in SUBSET DOMAIN after, ids # {}
      PROVE  \E k \in ids : after[k].before \cap ids = {}
  <2>1. CASE ids \subseteq kept
    <3>1. PICK k \in ids : records[k].before \cap ids = {}
      BY <1>3, <2>1 DEF InOrder, HasFirst
    <3>. QED BY <1>1, <2>1, <3>1
  <2>2. CASE i \in ids /\ i \notin kept /\ ids \ {i} = {}
    BY <1>1, <2>2
  <2>3. CASE i \in ids /\ i \notin kept /\ ids \ {i} # {}
    <3>1. ids \ {i} \subseteq kept
      BY <1>1
    <3>2. PICK k \in ids \ {i} : records[k].before \cap (ids \ {i}) = {}
      BY <2>3, <3>1 DEF InOrder, HasFirst
    <3>3. i \notin after[k].before
      BY <1>1, <2>3, <3>1, <3>2 DEF InOrder, BeforeRecords
    <3>4. after[k].before \subseteq records[k].before
      BY <1>1, <3>1, <3>2
    <3>. QED BY <3>2, <3>3, <3>4
  <2>. QED BY <1>1, <2>1, <2>2, <2>3
<1>4. HasFirst(after)
  BY <1>3 DEF HasFirst
<1>. QED BY <1>2, <1>4 DEF InOrder, after

\* An output that has a record gets the setting of the first of its own.
LEMMA AppliedRecord ==
    ASSUME NEW records, InOrder(records), NEW i, NEW output, Output(output),
           DOMAIN records \cap Ids(i, output) # {}
    PROVE  /\ Output(Applied(records, i, output))
           /\ Applied(records, i, output).aliases = output.aliases
           /\ \E k \in RecordOf(records, i, output) :
                 /\ k \in DOMAIN records \cap Ids(i, output)
                 /\ Applied(records, i, output).on = records[k].on
<1>1. PICK k \in RecordOf(records, i, output) : k = CHOOSE j \in RecordOf(records, i, output) : TRUE
  <2>1. RecordOf(records, i, output) # {}
    BY DEF InOrder, HasFirst, RecordOf
  <2>. QED BY <2>1, Zenon
<1>2. k \in DOMAIN records \cap Ids(i, output)
  BY <1>1 DEF RecordOf
<1>3. Applied(records, i, output) = [output EXCEPT !.on = records[k].on]
  BY <1>1, Zenon DEF Applied
<1>. QED BY <1>2, <1>3, OutputSet

\* An output without one stays as it is.
LEMMA AppliedNothing ==
    ASSUME NEW records, NEW i, NEW output, DOMAIN records \cap Ids(i, output) = {}
    PROVE  Applied(records, i, output) = output
BY DEF Applied, RecordOf

-----------------------------------------------------------------------------
(* The entries of discovery.                                               *)

\* An entry of devices_.
Entry(e) == \E h, m, a : e = [host |-> h, modern |-> m, aliases |-> a]
Entries == \A i \in DOMAIN devices : Entry(devices[i])

\* An alias is another id of the same receiver.
NamesAgree == \A i \in DOMAIN devices : \A j \in devices[i].aliases : NameOf[j] = NameOf[i]

\* The ids by which something is still found.
KnownIds == UNION {Ids(i, devices[i]) : i \in DOMAIN devices}

-----------------------------------------------------------------------------
(* What upsert_discovered_identity() does to the list.                     *)

\* The device is entered under its id, and its weaker twin left out.
EntryMade(i, d, twin) ==
    /\ DOMAIN devices' = (DOMAIN devices \ twin) \cup {i}
    /\ \A j \in DOMAIN devices' : j # i => devices'[j] = devices[j]
    /\ devices'[i] = [host |-> HostOf(devices, i, d.host), modern |-> d.modern,
                      aliases |-> AliasesOf(devices, i) \cup Inherited(devices, i, twin)]

\* Its id becomes an alias of the stronger twin.
AliasMade(i, twin) ==
    devices' = [j \in DOMAIN devices |->
                   IF j \notin twin THEN devices[j]
                   ELSE [devices[j] EXCEPT !.aliases = @ \cup {i}]]

\* Where no receiver is listed twice, the first twin is the only one.
LEMMA OnlyTwin ==
    ASSUME NoTwins, NEW i, NEW d
    PROVE  Firsts(Twins(devices, i, d)) = Twins(devices, i, d)
<1>1. ASSUME NEW e \in Twins(devices, i, d), NEW f \in Twins(devices, i, d) PROVE e = f
  BY DEF NoTwins, Twins, SameReceiver, HasEndpoint
<1>. QED BY <1>1 DEF Firsts

\* A merge does one or the other.
LEMMA MergeCases ==
    ASSUME Merge
    PROVE  \E i, d, twin : /\ twin = Firsts(Twins(devices, i, d))
                           /\ EntryMade(i, d, twin) \/ AliasMade(i, twin)
<1>1. PICK i \in DOMAIN found : devices' = Upserted(devices, i, found[i])
  BY DEF Merge
<1> DEFINE d == found[i]
           twin == Firsts(Twins(devices, i, d))
<1>2. \/ devices' = Entered(devices, i, d, twin)
      \/ AliasMade(i, twin)
  BY <1>1, Zenon DEF Upserted, AliasMade
<1>3. devices' = Entered(devices, i, d, twin) => EntryMade(i, d, twin)
  <2> HIDE DEF d, twin
  <2>. QED BY DEF Entered, EntryMade
<1>. QED BY <1>2, <1>3, Zenon

\* Entries stay entries.
LEMMA MergeEntries == Entries /\ Merge => Entries'
<1> SUFFICES ASSUME Entries, Merge PROVE Entries'
  OBVIOUS
<1>1. PICK i, d, twin : EntryMade(i, d, twin) \/ AliasMade(i, twin)
  BY MergeCases, Zenon
<1>2. CASE EntryMade(i, d, twin)
  <2>1. Entry(devices'[i])
    BY <1>2, Zenon DEF EntryMade, Entry
  <2>2. \A j \in DOMAIN devices' : j # i => j \in DOMAIN devices /\ devices'[j] = devices[j]
    BY <1>2 DEF EntryMade
  <2>. QED BY <2>1, <2>2, Zenon DEF Entries
<1>3. CASE AliasMade(i, twin)
  <2> SUFFICES ASSUME NEW j \in DOMAIN devices PROVE Entry(devices'[j])
    BY <1>3 DEF Entries, AliasMade
  <2>1. PICK h, m, a : devices[j] = [host |-> h, modern |-> m, aliases |-> a]
    BY DEF Entries, Entry
  <2>2. [devices[j] EXCEPT !.aliases = @ \cup {i}]
            = [host |-> h, modern |-> m, aliases |-> a \cup {i}]
    BY <2>1
  <2>. QED BY <1>3, <2>1, <2>2 DEF Entry, AliasMade
<1>. QED BY <1>1, <1>2, <1>3

\* What a new alias changes of the list.
LEMMA AliasChanges ==
    ASSUME Entries, NEW i, NEW twin, AliasMade(i, twin)
    PROVE  /\ DOMAIN devices' = DOMAIN devices
           /\ \A j \in DOMAIN devices :
                 /\ devices'[j].host = devices[j].host
                 /\ devices'[j].aliases = devices[j].aliases \cup (IF j \in twin THEN {i} ELSE {})
<1>1. DOMAIN devices' = DOMAIN devices
  BY DEF AliasMade
<1>2. ASSUME NEW j \in DOMAIN devices
      PROVE  /\ devices'[j].host = devices[j].host
             /\ devices'[j].aliases = devices[j].aliases \cup (IF j \in twin THEN {i} ELSE {})
  <2>1. PICK h, m, a : devices[j] = [host |-> h, modern |-> m, aliases |-> a]
    BY DEF Entries, Entry
  <2>2. [devices[j] EXCEPT !.aliases = @ \cup {i}]
            = [host |-> h, modern |-> m, aliases |-> a \cup {i}]
    BY <2>1
  <2>. QED BY <2>1, <2>2 DEF AliasMade
<1>. QED BY <1>1, <1>2

-----------------------------------------------------------------------------
(* One step of the merge.                                                  *)

\* A receiver that was not listed twice at a host is not afterwards.
LEMMA MergeNoTwins == Entries /\ NoTwins /\ Merge => NoTwins'
<1> SUFFICES ASSUME Entries, NoTwins, Merge PROVE NoTwins'
  OBVIOUS
<1>1. PICK i, d, twin : /\ twin = Firsts(Twins(devices, i, d))
                        /\ EntryMade(i, d, twin) \/ AliasMade(i, twin)
  BY MergeCases, Zenon
<1>2. CASE EntryMade(i, d, twin)
  <2>1. twin = {e \in DOMAIN devices \ {i} :
                   d.host # "none" /\ NameOf[e] = NameOf[i] /\ devices[e].host = d.host}
    BY <1>1, OnlyTwin DEF Twins, SameReceiver, HasEndpoint
  <2>2. /\ DOMAIN devices' = (DOMAIN devices \ twin) \cup {i}
        /\ \A j \in DOMAIN devices' : j # i => devices'[j] = devices[j]
        /\ devices'[i].host = HostOf(devices, i, d.host)
    BY <1>2 DEF EntryMade
  <2>3. \/ devices'[i].host = d.host
        \/ i \in DOMAIN devices /\ devices'[i].host = devices[i].host
    BY <2>2, Zenon DEF HostOf
  <2>4. ASSUME NEW e \in DOMAIN devices', e # i, NameOf[e] = NameOf[i],
               devices[e].host = devices'[i].host
        PROVE  devices[e].host = "none"
    <3>1. e \in DOMAIN devices \ twin
      BY <2>2, <2>4
    <3>2. CASE devices'[i].host = d.host
      BY <2>1, <2>4, <3>1, <3>2
    <3>3. CASE i \in DOMAIN devices /\ devices'[i].host = devices[i].host
      BY <2>4, <3>1, <3>3 DEF NoTwins
    <3>. QED BY <2>3, <3>2, <3>3
  <2> SUFFICES ASSUME NEW e \in DOMAIN devices', NEW f \in DOMAIN devices', e # f,
                      NameOf[e] = NameOf[f], devices'[e].host = devices'[f].host
               PROVE  devices'[e].host = "none"
    BY DEF NoTwins
  <2>5. CASE e # i /\ f # i
    BY <2>2, <2>5 DEF NoTwins
  <2>6. CASE e = i
    BY <2>2, <2>4, <2>6
  <2>7. CASE f = i
    BY <2>2, <2>4, <2>7
  <2>. QED BY <2>5, <2>6, <2>7
<1>3. CASE AliasMade(i, twin)
  BY <1>3, AliasChanges DEF NoTwins
<1>. QED BY <1>1, <1>2, <1>3

\* A twin has the name of the receiver.
LEMMA TwinName ==
    ASSUME NEW i, NEW d, NEW e \in Firsts(Twins(devices, i, d))
    PROVE  e \in DOMAIN devices /\ e # i /\ NameOf[e] = NameOf[i]
BY DEF Firsts, Twins, SameReceiver

\* Aliases stay those of one receiver.
LEMMA MergeNames == Entries /\ NamesAgree /\ Merge => NamesAgree'
<1> SUFFICES ASSUME Entries, NamesAgree, Merge PROVE NamesAgree'
  OBVIOUS
<1>1. PICK i, d, twin : /\ twin = Firsts(Twins(devices, i, d))
                        /\ EntryMade(i, d, twin) \/ AliasMade(i, twin)
  BY MergeCases, Zenon
<1>2. \A e \in twin : e \in DOMAIN devices /\ e # i /\ NameOf[e] = NameOf[i]
  BY <1>1, TwinName
<1>3. CASE EntryMade(i, d, twin)
  <2>1. /\ DOMAIN devices' = (DOMAIN devices \ twin) \cup {i}
        /\ \A j \in DOMAIN devices' : j # i => devices'[j] = devices[j]
        /\ devices'[i].aliases = AliasesOf(devices, i) \cup Inherited(devices, i, twin)
    BY <1>3 DEF EntryMade
  <2>2. \A k \in AliasesOf(devices, i) : NameOf[k] = NameOf[i]
    BY DEF AliasesOf, NamesAgree
  <2>3. \A k \in Inherited(devices, i, twin) : NameOf[k] = NameOf[i]
    BY <1>2 DEF Inherited, NamesAgree
  <2> SUFFICES ASSUME NEW j \in DOMAIN devices', NEW k \in devices'[j].aliases
               PROVE  NameOf[k] = NameOf[j]
    BY DEF NamesAgree
  <2>4. CASE j = i
    BY <2>1, <2>2, <2>3, <2>4
  <2>5. CASE j # i
    BY <2>1, <2>5 DEF NamesAgree
  <2>. QED BY <2>4, <2>5
<1>4. CASE AliasMade(i, twin)
  BY <1>2, <1>4, AliasChanges DEF NamesAgree
<1>. QED BY <1>1, <1>3, <1>4

\* Under an id that was known something is still found.
LEMMA MergeKeepsIds == Entries /\ Merge => KnownIds \subseteq KnownIds'
<1> SUFFICES ASSUME Entries, Merge, NEW k \in KnownIds PROVE k \in KnownIds'
  OBVIOUS
<1>1. PICK i, d, twin : /\ twin = Firsts(Twins(devices, i, d))
                        /\ EntryMade(i, d, twin) \/ AliasMade(i, twin)
  BY MergeCases, Zenon
<1>2. PICK e \in DOMAIN devices : k \in {e} \cup devices[e].aliases
  BY DEF KnownIds, Ids
<1> SUFFICES \E f \in DOMAIN devices' : k \in {f} \cup devices'[f].aliases
  BY DEF KnownIds, Ids
<1>3. CASE EntryMade(i, d, twin)
  <2>1. /\ DOMAIN devices' = (DOMAIN devices \ twin) \cup {i}
        /\ \A j \in DOMAIN devices' : j # i => devices'[j] = devices[j]
        /\ devices'[i].aliases = AliasesOf(devices, i) \cup Inherited(devices, i, twin)
    BY <1>3 DEF EntryMade
  <2>2. CASE e = i
    BY <1>2, <2>1, <2>2 DEF AliasesOf
  <2>3. CASE e # i /\ e \in twin
    <3>1. k \in UNION {{f} \cup devices[f].aliases : f \in twin}
      BY <1>2, <2>3
    <3>2. k = i \/ k \in Inherited(devices, i, twin)
      BY <3>1, Zenon DEF Inherited
    <3>. QED BY <2>1, <3>2
  <2>4. CASE e # i /\ e \notin twin
    BY <1>2, <2>1, <2>4
  <2>. QED BY <2>2, <2>3, <2>4
<1>4. CASE AliasMade(i, twin)
  BY <1>2, <1>4, AliasChanges
<1>. QED BY <1>1, <1>3, <1>4

\* A scan finds ids, and so there are ids in the list.
IdsTyped == DOMAIN devices \subseteq Id /\ DOMAIN found \subseteq Id

LEMMA BrowsedIds ==
    ASSUME NEW list, NEW heard, DOMAIN list \subseteq Id
    PROVE  DOMAIN Browsed(list, heard) \subseteq Id
<1>1. DOMAIN Browsed(list, heard)
          = DOMAIN list \cup {Identity(s, heard[s]) : s \in {t \in Service : heard[t] # Silent}}
  BY DEF Browsed
<1>2. \A s \in Service : Identity(s, heard[s]) \in Id
  BY NameAssumption DEF Identity
<1>. QED BY <1>1, <1>2

LEMMA BrowseIds == Browse => DOMAIN found' \subseteq Id
<1> SUFFICES ASSUME NEW resolved, NEW answers
             PROVE  DOMAIN Browsed(Browsed(Nothing, resolved), answers) \subseteq Id
  BY DEF Browse, Scans
<1>1. DOMAIN Nothing \subseteq Id
  BY DEF Nothing
<1>. QED BY <1>1, BrowsedIds

LEMMA MergeIds == IdsTyped /\ Merge => IdsTyped'
<1> SUFFICES ASSUME IdsTyped, Merge PROVE IdsTyped'
  OBVIOUS
<1>1. PICK i \in DOMAIN found : devices' = Upserted(devices, i, found[i]) /\ found' = Remaining(i)
  BY Zenon DEF Merge
<1>2. DOMAIN found' \subseteq DOMAIN found
  BY <1>1 DEF Remaining
<1>3. DOMAIN Upserted(devices, i, found[i]) \subseteq DOMAIN devices \cup {i}
  BY DEF Upserted, Entered
<1>. QED BY <1>1, <1>2, <1>3 DEF IdsTyped

\* A known id leads to an output of its receiver.
LEMMA KnownIsLinked ==
    ASSUME NamesAgree, NEW i \in KnownIds
    PROVE  Linked(i)
BY DEF KnownIds, NamesAgree, Ids, Linked, Matches, OutputsWith
=============================================================================
