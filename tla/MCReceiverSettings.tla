------------------------- MODULE MCReceiverSettings -------------------------
(* ReceiverSettings for TLC: a receiver announces a RAOP service under id    *)
(* 1 and an AirPlay service under id 2, or id 3 when its TXT record is lost. *)
EXTENDS ReceiverSettings, TLC
MCService == {1, 2}
MCName == {"a"}
MCServiceName == 1 :> "a" @@ 2 :> "a"
MCTextId == 1 :> 1 @@ 2 :> 2
MCBareId == 1 :> 1 @@ 2 :> 3
MCAirPlay2 == [s \in MCService |-> TRUE]
MCNameOf == 1 :> "a" @@ 2 :> "a" @@ 3 :> "a"
MCRank == 1 :> 1 @@ 2 :> 2 @@ 3 :> 0
=============================================================================
