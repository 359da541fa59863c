---------------------------- MODULE MCSimReducer ----------------------------
(* Two shards with two flows each, the generator's default interval, and  *)
(* every kind of --dimensions file.                                        *)
EXTENDS SimReducer

CONSTANTS g1, g2

MCShards == {g1, g2}

MCDimensionFiles == {"absent", "lists", "not_a_list"}
=============================================================================
