--------------------------- MODULE MCThreadStream ---------------------------
(* One client of a thread with two tool calls.                              *)
EXTENDS ThreadStream
=============================================================================
