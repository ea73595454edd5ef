----------------------------- MODULE MCPairing -----------------------------
(* Pairing for TLC: one receiver that streams only when it is paired, with a *)
(* RAOP service (id 1)   and an AirPlay service (id 2 with its TXT record,   *)
(* id 3 without).                                                            *)
EXTENDS Pairing, TLC
MCService == {1, 2}
MCName == {"a"}
MCServiceName == 1 :> "a" @@ 2 :> "a"
MCTextId == 1 :> 1 @@ 2 :> 2
MCBareId == 1 :> 1 @@ 2 :> 3
MCAirPlay2 == [s \in MCService |-> TRUE]
MCNameOf == 1 :> "a" @@ 2 :> "a" @@ 3 :> "a"
MCRank == 1 :> 1 @@ 2 :> 2 @@ 3 :> 0
=============================================================================
