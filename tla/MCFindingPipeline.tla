------------------------- MODULE MCFindingPipeline --------------------------
(* Two traces of one project, windows of one and two ticks. *)
EXTENDS FindingPipeline, TLC

SomeTraces == Permutations(Trace)
=============================================================================
