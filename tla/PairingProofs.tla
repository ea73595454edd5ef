---------------------------- MODULE PairingProofs ----------------------------
(***************************************************************************)
(* The credentials of a receiver's last pairing are found under every id   *)
(* it was paired or played under with them, and under the ids linked to    *)
(* these: for any receivers, any ids that scans give them, and any number  *)
(* of pairings, resets, streams and restarts.                              *)
(***************************************************************************)
EXTENDS Pairing, ReceiverIdentityProofs

\* What the map has, the file has too: a restart forgets no credentials.
MemoryStored == DOMAIN memory \subseteq DOMAIN store

\* Each id that a receiver was used under has the credentials of its last pairing
\* in the file.
UsedStored ==
    \A i \in used :
        /\ i \in DOMAIN store
        /\ NameOf[i] \in DOMAIN last
        /\ store[i] = last[NameOf[i]]

Inv == Entries /\ NamesAgree /\ MemoryStored /\ UsedStored

recordVars == <<store, memory, last, used>>

-----------------------------------------------------------------------------
(* Records.                                                                *)

\* Credentials that are found come from the file, and are there under the
\* output's own id from then on.
LEMMA FoundIsStored ==
    ASSUME MemoryStored, NEW i, NEW k \in Loaded(i), k # NoKey
    PROVE  /\ DOMAIN SavedAgain(i, k) = DOMAIN store \cup {i}
           /\ SavedAgain(i, k)[i] = k
           /\ \A j \in DOMAIN store : SavedAgain(i, k)[j] = store[j]
<1>1. Recorded(store, i) # {}
  <2>1. Recorded(memory, i) # {} => Recorded(store, i) # {}
    BY DEF Recorded, MemoryStored
  <2>. QED BY <2>1 DEF Loaded
<1>2. k \in Recorded(store, i)
  BY <1>1 DEF Loaded
<1>3. CASE i \in DOMAIN store
  BY <1>2, <1>3 DEF Recorded, SavedAgain
<1>4. CASE i \notin DOMAIN store
  <2>1. SavedAgain(i, k) = Saved(store, i, k)
    BY <1>1, <1>4 DEF SavedAgain
  <2>. QED BY <1>4, <2>1 DEF Saved
<1>. QED BY <1>3, <1>4

-----------------------------------------------------------------------------
(* The steps that change records.                                          *)

LEMMA SavesInv ==
    ASSUME Inv, NEW i \in target, Saves(i)
    PROVE  (MemoryStored /\ UsedStored)'
<1> DEFINE n == NameOf[i]
<1>1. /\ store' = Saved(store, i, key)
      /\ memory' = Saved(memory, i, key)
      /\ last' = Saved(last, n, key)
      /\ used' = {j \in used : NameOf[j] # n} \cup {i}
  BY Zenon DEF Saves
<1>2. MemoryStored'
  BY <1>1 DEF Inv, MemoryStored, Saved
<1>3. ASSUME NEW j \in used'
      PROVE  j \in DOMAIN store' /\ NameOf[j] \in DOMAIN last' /\ store'[j] = last'[NameOf[j]]
  <2>1. CASE j = i
    BY <1>1, <2>1 DEF Saved
  <2>2. CASE j # i
    <3>1. j \in used /\ NameOf[j] # n
      BY <1>1, <1>3, <2>2
    <3>2. /\ j \in DOMAIN store /\ store'[j] = store[j]
          /\ NameOf[j] \in DOMAIN last /\ last'[NameOf[j]] = last[NameOf[j]]
      BY <1>1, <2>2, <3>1 DEF Inv, UsedStored, Saved
    <3>. QED BY <1>1, <3>1, <3>2 DEF Inv, UsedStored, Saved
  <2>. QED BY <2>1, <2>2
<1>. QED BY <1>2, <1>3, Zenon DEF UsedStored

LEMMA OpensInv ==
    ASSUME Inv, Opens
    PROVE  (MemoryStored /\ UsedStored)'
<1>1. PICK i, ready, k :
          /\ k \in Loaded(i)
          /\ store' = SavedAgain(i, k)
          /\ memory' = IF k = NoKey THEN memory ELSE Saved(memory, i, k)
          /\ used' = IF ready /\ k # NoKey /\ NameOf[i] \in DOMAIN last /\ k = last[NameOf[i]]
                     THEN used \cup {i} ELSE used
          /\ last' = last
  BY Zenon DEF Opens
<1>2. /\ DOMAIN store \subseteq DOMAIN store'
      /\ \A j \in DOMAIN store : store'[j] = store[j]
  BY <1>1 DEF SavedAgain, Saved
<1>3. ASSUME k # NoKey
      PROVE  i \in DOMAIN store' /\ store'[i] = k
  <2>1. k \in Loaded(i) /\ MemoryStored
    BY <1>1, Zenon DEF Inv
  <2>2. DOMAIN SavedAgain(i, k) = DOMAIN store \cup {i} /\ SavedAgain(i, k)[i] = k
    BY <1>3, <2>1, FoundIsStored, Zenon
  <2>. QED BY <1>1, <2>2
<1>4. MemoryStored'
  <2>1. CASE k = NoKey
    BY <1>1, <1>2, <2>1 DEF Inv, MemoryStored
  <2>2. CASE k # NoKey
    BY <1>1, <1>2, <1>3, <2>2 DEF Inv, MemoryStored, Saved
  <2>. QED BY <2>1, <2>2
<1>5. ASSUME NEW j \in used'
      PROVE  j \in DOMAIN store' /\ NameOf[j] \in DOMAIN last' /\ store'[j] = last'[NameOf[j]]
  <2>1. CASE j \in used
    BY <1>1, <1>2, <2>1 DEF Inv, UsedStored
  <2>2. CASE j \notin used
    <3>1. j = i /\ k # NoKey /\ NameOf[i] \in DOMAIN last /\ k = last[NameOf[i]]
      BY <1>1, <1>5, <2>2
    <3>. QED BY <1>1, <1>3, <3>1
  <2>. QED BY <2>1, <2>2
<1>. QED BY <1>4, <1>5, Zenon DEF UsedStored

\* A scan's merge and a restart are the only steps that change the list of
\* receivers.
LEMMA DevicesKept ==
    ASSUME Entries, NamesAgree, UNCHANGED devices
    PROVE  (Entries /\ NamesAgree)'
BY DEF Entries, Entry, NamesAgree

LEMMA RecordsKept ==
    ASSUME MemoryStored, UsedStored, UNCHANGED recordVars
    PROVE  (MemoryStored /\ UsedStored)'
BY DEF recordVars, MemoryStored, UsedStored

LEMMA RestartInv ==
    ASSUME Inv, Restart
    PROVE  Inv'
<1>1. /\ devices' = NoDevices
      /\ memory' = [i \in {} |-> NoKey]
      /\ store' = store /\ last' = last /\ used' = used
  BY Zenon DEF Restart, credentialVars
<1>2. (Entries /\ NamesAgree)'
  BY <1>1 DEF NoDevices, Entries, NamesAgree
<1>3. (MemoryStored /\ UsedStored)'
  BY <1>1 DEF Inv, MemoryStored, UsedStored
<1>. QED BY <1>2, <1>3 DEF Inv

-----------------------------------------------------------------------------
(* The invariant.                                                          *)

\* The steps of pair_output() and of the pairing worker but the save.
CallSteps ==
    \/ PairRefused \/ (\E id \in Offered : PairCalled(id)) \/ PairStarts \/ PairThrows
    \/ Resolves \/ Handshakes \/ HandshakeFails \/ Reports \/ Schedules
    \/ (\E arrives \in BOOLEAN : Exchanges(arrives))

\* The steps of the streams but the opening of an output, the ends of a scan, and
\* the resets.
OtherSteps ==
    \/ StreamStarts \/ Stream \/ StreamStops \/ Update
    \/ ScanBegins \/ ScanEnds \/ (\E n \in Name : Reset(n))

LEMMA NextCases ==
    ASSUME Next
    PROVE  \/ CallSteps
           \/ OtherSteps
           \/ ScanMerges
           \/ \E i \in target : Saves(i)
           \/ Opens
           \/ Restart
BY Zenon DEF Next, Worker, Scan, CallSteps, OtherSteps

LEMMA CallStepsKeep == CallSteps => UNCHANGED devices /\ UNCHANGED recordVars
BY Zenon DEF CallSteps, PairRefused, PairCalled, PairStarts, PairThrows, Resolves, Handshakes,
       HandshakeFails, Reports, Schedules, Exchanges, credentialVars, recordVars

LEMMA OtherStepsKeep == OtherSteps => UNCHANGED devices /\ UNCHANGED recordVars
BY Zenon DEF OtherSteps, StreamStarts, Stream, StreamConnects, StreamConnected, StreamOpens,
       StreamStops, Update, UpdateBegins, UpdateConnects, UpdateConnected, UpdateLeaves,
       ScanBegins, ScanEnds, Reset, credentialVars, recordVars

\* Every step keeps the invariant.
LEMMA NextInv == Inv /\ [Next]_vars => Inv'
<1> SUFFICES ASSUME Inv, [Next]_vars PROVE Inv'
  OBVIOUS
<1>1. ASSUME UNCHANGED devices, UNCHANGED recordVars PROVE Inv'
  BY <1>1, DevicesKept, RecordsKept, Zenon DEF Inv
<1>2. CASE CallSteps
  BY <1>1, <1>2, CallStepsKeep, Zenon
<1>3. CASE OtherSteps
  BY <1>1, <1>3, OtherStepsKeep, Zenon
<1>4. CASE ScanMerges
  <2>1. Merge /\ UNCHANGED recordVars
    BY <1>4, Zenon DEF ScanMerges, credentialVars, recordVars
  <2>. QED BY <2>1, MergeEntries, MergeNames, RecordsKept, Zenon DEF Inv
<1>5. CASE \E i \in target : Saves(i)
  <2>1. UNCHANGED devices
    BY <1>5, Zenon DEF Saves
  <2>2. (MemoryStored /\ UsedStored)'
    BY <1>5, SavesInv, Zenon
  <2>. QED BY <2>1, <2>2, DevicesKept, Zenon DEF Inv
<1>6. CASE Opens
  <2>1. UNCHANGED devices
    BY <1>6, Zenon DEF Opens
  <2>. QED BY <1>6, <2>1, OpensInv, DevicesKept, Zenon DEF Inv
<1>7. CASE Restart
  BY <1>7, RestartInv
<1>8. CASE UNCHANGED vars
  BY <1>1, <1>8, Zenon DEF vars, credentialVars, recordVars
<1>. QED BY <1>2, <1>3, <1>4, <1>5, <1>6, <1>7, <1>8, NextCases, Zenon

LEMMA InitInv == Init => Inv
BY DEF Init, Inv, NoDevices, Entries, NamesAgree, MemoryStored, UsedStored

\* The invariant holds in every state.
THEOREM Invariance == Spec => []Inv
BY InitInv, NextInv, PTL DEF Spec

-----------------------------------------------------------------------------
(* What the invariant shows.                                               *)

LEMMA InvReconnects == Inv => PairedReconnects
<1> SUFFICES ASSUME Inv, NEW i \in DOMAIN devices,
                    \/ i \in used
                    \/ /\ Ids(i, devices[i]) \cap used # {}
                       /\ Ids(i, devices[i]) \cap Outdated(NameOf[i]) = {}
             PROVE  Loaded(i) = {last[NameOf[i]]}
  BY Zenon DEF PairedReconnects
<1>1. ASSUME Recorded(store, i) = {last[NameOf[i]]} PROVE Loaded(i) = {last[NameOf[i]]}
  BY <1>1 DEF Loaded
<1>2. CASE i \in used
  BY <1>1, <1>2 DEF Inv, UsedStored, Recorded
<1>3. CASE /\ Ids(i, devices[i]) \cap used # {}
           /\ Ids(i, devices[i]) \cap Outdated(NameOf[i]) = {}
  <2>1. PICK j \in Ids(i, devices[i]) : j \in used
    BY <1>3
  <2>2. \A a \in Ids(i, devices[i]) \cap DOMAIN store : store[a] = last[NameOf[i]]
    BY <1>3 DEF Inv, NamesAgree, Ids, Outdated
  <2>3. j \in DOMAIN store
    BY <2>1 DEF Inv, UsedStored
  <2>. QED BY <1>1, <2>1, <2>2, <2>3 DEF Ids, Recorded
<1>. QED BY <1>2, <1>3

\* A receiver that was paired is opened with the credentials of its last pairing,
\* whatever ids scans gave it since and however often foobar2000 was restarted.
THEOREM ReconnectCorrect == Spec => []PairedReconnects
BY Invariance, InvReconnects, PTL
=============================================================================
