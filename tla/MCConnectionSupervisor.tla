----------------------- MODULE MCConnectionSupervisor -----------------------
(* An instance of ConnectionSupervisor for TLC.                            *)
EXTENDS ConnectionSupervisor, TLC
=============================================================================
