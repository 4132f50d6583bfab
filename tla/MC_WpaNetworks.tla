--------------------------- MODULE MC_WpaNetworks ---------------------------
(* One name is part of the other, and one id is a prefix of another.       *)
EXTENDS WpaNetworks

MCSSIDs  == {"home", "homestead"}
MCWithin == {<<s, s>> : s \in MCSSIDs} \cup {<<"home", "homestead">>}
=============================================================================
