---------------------------- MODULE MCCheckpoints ----------------------------
(* An instance of Checkpoints for TLC: two turns, one revert, one fault.      *)
EXTENDS Checkpoints

=============================================================================
