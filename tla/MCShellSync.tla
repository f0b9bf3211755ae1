---------------------------- MODULE MCShellSync ----------------------------
(* Instances of ShellSync for TLC.                                         *)
EXTENDS ShellSync, TLC

Symmetry == Permutations(Aggregates)

=============================================================================
