---------------------------- MODULE MC_NetConfig ----------------------------
(* Two interfaces, the name of one of which begins with that of the other. *)
EXTENDS NetConfig

MCIfs    == {"em1", "em10"}
MCWithin == {<<"em1", "em1">>, <<"em1", "em10">>, <<"em10", "em10">>}
MCVia    == [g \in {"gw1", "gw10"} |-> IF g = "gw1" THEN "em1" ELSE "em10"]

=============================================================================
