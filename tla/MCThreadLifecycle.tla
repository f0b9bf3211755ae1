------------------------- MODULE MCThreadLifecycle -------------------------
(* Model checking of ThreadLifecycle: the sets of request ids are given in  *)
(* the configurations.                                                      *)
EXTENDS ThreadLifecycle

=============================================================================
