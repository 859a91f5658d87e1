---------------------------- MODULE MCLoadFallback ----------------------------
(* Instance values for the load ladder: a 9 GB model on a 12 GB card. *)
EXTENDS LoadFallback

AllModes    == {"legacy", "fit", "pooling", "vllm"}
OnlyVllm    == {"vllm"}
OnlyLegacy  == {"legacy"}
SomeBlocks  == {None, 8}
SomeContexts == {None}
SomeFloors  == {None, 12000}
SomeNgls    == {None, 999}
TwoPorts    == {1, 2}
OnePort     == {1}
SomeVram    == {8000}
SomeSymptoms == {{"oom"}, {"in use"}, {"unhealthy"}}

=============================================================================
