------------------------ MODULE MCAddressSelection -------------------------
(***************************************************************************)
(* Instances of AddressSelection for TLC.  NS name 1 has two addresses,   *)
(* name 2 shares one of them and adds a third, as happens when two NS      *)
(* names resolve to overlapping hosts; two addresses start with equal     *)
(* SRTTs so the sorts meet ties.                                           *)
(***************************************************************************)
EXTENDS AddressSelection, TLC

MCNames == {1, 2}
MCAddrs == {1, 2, 3}
MCAddrsOf == (1 :> <<2, 1>>) @@ (2 :> <<3, 2>>)
MCSrttInit == (1 :> 400000) @@ (2 :> 400000) @@ (3 :> 1200000)
\* a fast reply, and one slower than the 30 s ceiling doubled
MCRttSamples == {300000, 16000000}
MCZoneCuts == {{1}, {1, 2}}
MCNSInit == {1, 2}
MCNSSingle == {1}
MCZoneCutsSingle == {{1}}
MCKnownInit == {1}
MCNoForwarders == <<>>
MCForwarders == <<3>>
=============================================================================
