----------------------------- MODULE MCSelection ----------------------------
(* perf's django, 2to3 and spitfire by default, the last of which has no   *)
(* function, and pickle in a group of its own; runner does not offer 2to3, *)
(* and pickle only by name.                                                *)
EXTENDS Selection

MCBenchmarks == {"django", "2to3", "pickle", "ai"}
MCGroups == [default |-> {"django", "2to3", "spitfire"}, cpickle |-> {"pickle"}]
MCFull == {"django", "ai", "pickle"}
MCDefaultList == {"django", "ai"}
=============================================================================
