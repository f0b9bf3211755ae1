----------------------- MODULE MCOrchestrationEngine -----------------------
(* Instances of OrchestrationEngine for TLC.                               *)
EXTENDS OrchestrationEngine, TLC

Symmetry == Permutations(CommandIds) \cup Permutations(Aggregates) \cup Permutations(Callers)

=============================================================================
