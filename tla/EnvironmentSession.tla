------------------------- MODULE EnvironmentSession -------------------------
(***************************************************************************)
(* What the connection supervisor promises to the state modules of the     *)
(* client (ShellSync is one of them): one value, the session, that is      *)
(* either absent or a connection with a generation number.  A session is   *)
(* published only while the user wants the environment and the network is  *)
(* up, each one has the next generation, and no session comes back.  A     *)
(* wanted environment gets a session unless its connection is blocked, and *)
(* an unwanted one loses it.                                               *)
(***************************************************************************)
EXTENDS Naturals

VARIABLES session,   \* generation of the published session, 0 when absent
          last,      \* generation of the last session published
          wanted,    \* the environment is desired and the network is up
          blocked    \* the last attempt failed for good: the user must act

vars == <<session, last, wanted, blocked>>

Init == /\ session = 0
        /\ last = 0
        /\ wanted \in BOOLEAN
        /\ blocked = FALSE

Publish == /\ wanted
           /\ session' = last + 1
           /\ last' = last + 1
           /\ UNCHANGED <<wanted, blocked>>

Drop == /\ session # 0
        /\ session' = 0
        /\ UNCHANGED <<last, wanted, blocked>>

\* The user, the network, the application's life cycle and the server.
Surroundings == /\ wanted' \in BOOLEAN
                /\ blocked' \in BOOLEAN
                /\ UNCHANGED <<session, last>>

Next == Publish \/ Drop \/ Surroundings

Spec == /\ Init /\ [][Next]_vars
        /\ WF_vars(session = 0 /\ ~blocked /\ Publish)
        /\ WF_vars(~wanted /\ Drop)
=============================================================================
