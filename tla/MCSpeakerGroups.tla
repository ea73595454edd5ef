-------------------------- MODULE MCSpeakerGroups --------------------------
(* SpeakerGroups for TLC: receiver "a" announces a RAOP service under id 1   *)
(* and an AirPlay service under id 2, or id 3 when its TXT record is lost;   *)
(* receiver "b" has id 4.  Two groups are left from earlier sessions.        *)
EXTENDS SpeakerGroups, TLC
MCService == {1, 2, 3}
MCName == {"a", "b"}
MCServiceName == 1 :> "a" @@ 2 :> "a" @@ 3 :> "b"
MCTextId == 1 :> 1 @@ 2 :> 2 @@ 3 :> 4
MCBareId == 1 :> 1 @@ 2 :> 3 @@ 3 :> 4
MCAirPlay2 == [s \in MCService |-> TRUE]
MCNameOf == 1 :> "a" @@ 2 :> "a" @@ 3 :> "a" @@ 4 :> "b"
MCRank == 1 :> 1 @@ 2 :> 2 @@ 3 :> 0 @@ 4 :> 2
MCSavedGroups == <<[id |-> 1, members |-> {1, 4}], [id |-> 2, members |-> {2}]>>

\* Neither thread reads or writes what the other does while the worker scans and merges:
\* the main thread acts before that or after it, and does not begin a scan in the
\* middle of a change.  The editor is used while the worker is idle, before the first
\* change of the selection.
Scanning == refresh = "scan" \/ (refresh = "merge" /\ DOMAIN found # {})

Coarse ==
    /\ Scanning => UNCHANGED <<stored, cached, changeVars>>
    /\ refresh # "idle" => UNCHANGED <<groups, editorVars>>
    /\ ~AtRest => scans' = scans
    /\ changes' # changes => editing = Closed
    /\ changes > 0 => editing' = Closed
    /\ changes' + edits' + restarts' <= 3
=============================================================================
