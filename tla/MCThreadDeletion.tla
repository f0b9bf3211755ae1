-------------------------- MODULE MCThreadDeletion --------------------------
(* A thread id that is created twice.                                       *)
EXTENDS ThreadDeletion
=============================================================================
