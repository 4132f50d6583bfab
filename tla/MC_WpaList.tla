----------------------------- MODULE MC_WpaList -----------------------------
(* Two networks and two of the three parameters: enough for an answer to be
   taken for another's, between parameters and between networks. *)
EXTENDS WpaList

MCSuppParamNames == <<"priority", "key_mgmt">>
=============================================================================
