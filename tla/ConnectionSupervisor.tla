------------------------ MODULE ConnectionSupervisor ------------------------
(***************************************************************************)
(* The supervisor of one environment's connection:                         *)
(* packages/client-runtime/src/connection/supervisor.ts.                   *)
(*                                                                         *)
(* Callers change the intent and then queue a signal.  One loop reads the  *)
(* intent, makes an attempt in a scope of its own, publishes the session,  *)
(* races it against signals, the transport and the refresh of its          *)
(* authorization, and climbs a ladder of retry delays.  The intent is the  *)
(* truth and a signal only a nudge to read it: what can go wrong is a      *)
(* nudge eaten by a wait that does not act on it, a session left published *)
(* when its scope is closed, and a scope nobody closes.                    *)
(***************************************************************************)
EXTENDS Naturals, Sequences, FiniteSets

CONSTANTS
    Leases,      \* names for connection scopes; a closed one is used again
    NoLease,
    Relay,       \* the target is a managed relay: credential changes count
    Ladder,      \* the length of RETRY_DELAYS_MS
    MaxCalls,    \* bound: calls, network changes and wakeups
    MaxLosses,   \* bound: sessions whose transport dies
    MaxRefreshes \* bound: sessions whose authorization comes up for renewal

ASSUME SupervisorAssumption ==
    /\ NoLease \notin Leases /\ Cardinality(Leases) >= 3
    /\ Relay \in BOOLEAN /\ Ladder \in Nat \ {0}
    /\ MaxCalls \in Nat /\ MaxLosses \in Nat /\ MaxRefreshes \in Nat

VARIABLES
    intent,          \* what the user wants and what the network is
    calling,         \* signals whose caller has written and not yet queued
    signals,
    resetRetryState,
    wakeProbeFailed,
    pc,              \* where the loop is
    phase,           \* published connection phase
    session,         \* published session, as the lease it belongs to
    prepared,        \* published prepared connection
    open,            \* leases whose scope is open
    active,          \* lease of the attempt in progress once connected
    candidate,       \* lease being established, first or replacement
    previous,        \* replaced lease, until its scope is closed
    refresh,         \* the fiber that renews the authorization
    probe,           \* a health check is running
    dead,            \* the transport of the active lease is gone
    generation,      \* of the loop
    activeGeneration,
    rung,            \* failureCount, as far as retryDelayMs tells it apart
    outcome,         \* how the attempt ended, until the loop looks at it
    calls, losses, refreshes

callVars == <<intent, calling, resetRetryState, calls>>
publishedVars == <<phase, session, prepared>>
leaseVars == <<open, active, candidate, previous>>
fiberVars == <<refresh, probe, dead>>
loopVars == <<generation, rung, outcome>>
budgetVars == <<losses, refreshes>>
vars == <<callVars, signals, wakeProbeFailed, pc, publishedVars, leaseVars, fiberVars,
          loopVars, activeGeneration, budgetVars>>

Wakeups == {"active", "reconnect", "credentials"}
Signals == {"connect", "disconnect", "retry", "online", "offline"} \cup Wakeups
Errors == {"transient", "blocked"}

Interrupted(established, resetRetry) ==
    [tag |-> "interrupted", established |-> established, resetRetry |-> resetRetry]
Failure(established, error) ==
    [tag |-> "failure", established |-> established, error |-> error]
NoOutcome == [tag |-> "none"]

Wanted == intent.desired /\ intent.network = "online"

Init ==
    /\ intent \in [desired: BOOLEAN, network: {"online", "offline"}]
    /\ calling = {} /\ signals = <<>> /\ calls = 0
    /\ resetRetryState = FALSE /\ wakeProbeFailed = FALSE
    /\ pc = "top"
    /\ phase = IF ~intent.desired THEN "available"
               ELSE IF intent.network = "offline" THEN "offline" ELSE "connecting"
    /\ session = NoLease /\ prepared = NoLease
    /\ open = {} /\ active = NoLease /\ candidate = NoLease /\ previous = NoLease
    /\ refresh = "none" /\ probe = FALSE /\ dead = FALSE
    /\ generation = 0 /\ activeGeneration = 0 /\ rung = 0
    /\ outcome = NoOutcome
    /\ losses = 0 /\ refreshes = 0

-----------------------------------------------------------------------------
(* The callers.  Each writes first and queues its signal in a later step.   *)

SupervisorUnchanged == UNCHANGED <<wakeProbeFailed, pc, publishedVars, leaseVars, fiberVars,
                                   loopVars, activeGeneration, budgetVars>>

Call(signal, rivals) ==
    /\ calls < MaxCalls
    /\ calling \cap rivals = {}
    /\ calls' = calls + 1
    /\ calling' = calling \cup {signal}
    /\ UNCHANGED signals
    /\ SupervisorUnchanged

Connect ==
    /\ intent' = [intent EXCEPT !.desired = TRUE]
    /\ UNCHANGED resetRetryState
    /\ Call("connect", {"connect"})

Disconnect ==
    /\ intent' = [intent EXCEPT !.desired = FALSE]
    /\ UNCHANGED resetRetryState
    /\ Call("disconnect", {"disconnect"})

RetryNow ==
    /\ resetRetryState' = TRUE
    /\ UNCHANGED intent
    /\ Call("retry", {"retry"})

\* connectivity.changes is one stream: a change waits for the one before it.
NetworkChanges ==
    LET network == IF intent.network = "online" THEN "offline" ELSE "online"
    IN  /\ intent' = [intent EXCEPT !.network = network]
        /\ UNCHANGED resetRetryState
        /\ Call(network, {"online", "offline"})

QueueSignal(signal) ==
    /\ calling' = calling \ {signal}
    /\ signals' = Append(signals, signal)
    /\ UNCHANGED <<intent, resetRetryState, calls>>
    /\ SupervisorUnchanged

Wakeup ==
    /\ calls < MaxCalls
    /\ calls' = calls + 1
    /\ \E reason \in Wakeups : signals' = Append(signals, reason)
    /\ UNCHANGED <<intent, calling, resetRetryState>>
    /\ SupervisorUnchanged

-----------------------------------------------------------------------------
(* The loop: between attempts.                                              *)

IsApplicationActive(signal) == signal \in {"active", "reconnect"}

OpenScope == /\ candidate' = CHOOSE l \in Leases : l \notin open
             /\ open' = open \cup {candidate'}

ClearLease == session' = NoLease /\ prepared' = NoLease

\* The top of the loop reads the intent and waits or begins an attempt.  The
\* driver's first act is to report that it prepares.
TopOfLoop ==
    /\ pc = "top"
    /\ resetRetryState' = FALSE
    /\ LET ladder == IF resetRetryState THEN 0 ELSE rung
       IN  \/ /\ ~intent.desired
              /\ rung' = 0 /\ phase' = "available" /\ pc' = "idle"
              /\ ClearLease
              /\ UNCHANGED <<open, candidate, activeGeneration>>
           \/ /\ intent.desired /\ intent.network = "offline"
              /\ rung' = ladder /\ phase' = "offline" /\ pc' = "idle"
              /\ ClearLease
              /\ UNCHANGED <<open, candidate, activeGeneration>>
           \/ /\ Wanted
              /\ rung' = ladder /\ phase' = "connecting" /\ pc' = "establishing"
              /\ activeGeneration' = generation + 1
              /\ prepared' = NoLease /\ UNCHANGED session
              /\ OpenScope
    /\ UNCHANGED <<intent, calling, calls, signals, wakeProbeFailed, active, previous,
                   fiberVars, generation, outcome, budgetVars>>

\* Available, offline, blocked and in backoff: any signal ends the wait.
TakeWhileIdle ==
    /\ pc = "idle" /\ signals # <<>>
    /\ signals' = Tail(signals)
    /\ pc' = "top"
    /\ rung' = IF IsApplicationActive(Head(signals)) THEN 0 ELSE rung
    /\ UNCHANGED <<callVars, wakeProbeFailed, publishedVars, leaseVars, fiberVars, generation,
                   outcome, activeGeneration, budgetVars>>

RetryDelayPasses ==
    /\ pc = "idle" /\ phase = "backoff"
    /\ pc' = "top"
    /\ UNCHANGED <<callVars, signals, wakeProbeFailed, publishedVars, leaseVars, fiberVars,
                   loopVars, activeGeneration, budgetVars>>

-----------------------------------------------------------------------------
(* The end of an attempt.  Effect.ensuring(clearLease) takes the session    *)
(* away, then Effect.scoped closes every scope of the attempt, then the     *)
(* loop looks at the outcome.                                               *)

EndAttempt(result) ==
    /\ pc' = "closing"
    /\ outcome' = result
    /\ ClearLease
    /\ active' = NoLease /\ candidate' = NoLease /\ previous' = NoLease
    /\ refresh' = "none" /\ probe' = FALSE /\ dead' = FALSE
    /\ UNCHANGED open

\* Faulty variant: the failure is not counted.
NextRungUncounted(count) == count

\* failureCount grows without bound.  Only retryDelayMs reads it, with a clamped index,
\* so all counts from the length of RETRY_DELAYS_MS on stand for the last rung.
NextRung(count) == IF count < Ladder THEN count + 1 ELSE Ladder

\* The scopes are closed and the loop decides what comes next.
Conclude ==
    /\ pc = "closing"
    /\ open' = {} /\ UNCHANGED <<session, prepared, active, candidate, previous>>
    /\ outcome' = NoOutcome
    /\ wakeProbeFailed' = FALSE
    /\ generation' = IF outcome.established THEN activeGeneration ELSE generation
    /\ \E stable \in BOOLEAN :
        LET ladder == IF outcome.established /\ stable THEN 0 ELSE rung
        IN  \/ /\ outcome.tag = "interrupted"
               /\ rung' = IF outcome.resetRetry THEN 0 ELSE ladder
               /\ pc' = "top" /\ UNCHANGED phase
            \/ /\ outcome.tag = "failure" /\ outcome.error = "blocked"
               /\ rung' = ladder /\ phase' = "blocked" /\ pc' = "idle"
            \/ /\ outcome.tag = "failure" /\ outcome.error = "transient"
               /\ wakeProbeFailed
               /\ rung' = 0 /\ phase' = "connecting" /\ pc' = "top"
            \/ /\ outcome.tag = "failure" /\ outcome.error = "transient"
               /\ ~wakeProbeFailed
               /\ rung' = NextRung(ladder)
               /\ phase' = "backoff" /\ pc' = "idle"
    /\ UNCHANGED <<callVars, signals, fiberVars, activeGeneration, budgetVars>>

-----------------------------------------------------------------------------
(* Establishing the first connection of an attempt.                         *)

\* The signals that end an attempt or a session, and whether they reset the
\* ladder.
Ends(signal) ==
    \/ signal \in {"disconnect", "retry", "offline", "reconnect"}
    \/ signal = "credentials" /\ Relay

Progress ==
    /\ pc = "establishing"
    /\ prepared' = candidate /\ phase' = "connecting"
    /\ UNCHANGED <<callVars, signals, wakeProbeFailed, pc, session, leaseVars, fiberVars,
                   loopVars, activeGeneration, budgetVars>>

TakeWhileEstablishing ==
    /\ pc = "establishing" /\ signals # <<>>
    /\ signals' = Tail(signals)
    /\ IF Ends(Head(signals))
       THEN EndAttempt(Interrupted(FALSE, Head(signals) = "reconnect"))
       ELSE UNCHANGED <<pc, outcome, session, prepared, leaseVars, fiberVars>>
    /\ UNCHANGED <<callVars, wakeProbeFailed, phase, generation, rung,
                   activeGeneration, budgetVars>>

\* The driver fails, or 15 seconds pass.
EstablishmentFails ==
    /\ pc = "establishing"
    /\ \E error \in Errors : EndAttempt(Failure(FALSE, error))
    /\ UNCHANGED <<callVars, signals, wakeProbeFailed, phase, generation, rung,
                   activeGeneration, budgetVars>>

\* Whether the new lease's authorization will come up for renewal.
Authorization == \/ refresh' = "none" /\ UNCHANGED refreshes
                 \/ /\ refreshes < MaxRefreshes
                    /\ refresh' = "waiting" /\ refreshes' = refreshes + 1

\* Faulty variant: the intent is not read again.
EstablishedUnasked ==
    /\ pc = "establishing"
    /\ active' = candidate /\ candidate' = NoLease /\ UNCHANGED <<open, previous>>
    /\ session' = candidate /\ prepared' = candidate
    /\ phase' = "connected" /\ pc' = "connected"
    /\ Authorization
    /\ UNCHANGED <<probe, dead, outcome, callVars, signals, wakeProbeFailed, generation,
                   rung, activeGeneration, losses>>

\* The intent is read again: its signal may still be on the way.
Established ==
    /\ pc = "establishing"
    /\ \/ /\ ~Wanted
          /\ EndAttempt(Interrupted(FALSE, FALSE))
          /\ UNCHANGED <<phase, refreshes>>
       \/ /\ Wanted
          /\ active' = candidate /\ candidate' = NoLease /\ UNCHANGED <<open, previous>>
          /\ session' = candidate /\ prepared' = candidate
          /\ phase' = "connected" /\ pc' = "connected"
          /\ Authorization /\ UNCHANGED <<probe, dead, outcome>>
    /\ UNCHANGED <<callVars, signals, wakeProbeFailed, generation, rung,
                   activeGeneration, losses>>

-----------------------------------------------------------------------------
(* Connected: the monitor, the transport and the refresh race.              *)

ConnectedUnchanged == UNCHANGED <<callVars, phase, generation, rung, activeGeneration>>

\* Faulty variant: a signal that arrives during a health check waits for the
\* check and is then forgotten.
TakeWhileConnectedAfterProbe ==
    /\ pc = "connected" /\ signals # <<>>
    /\ signals' = Tail(signals)
    /\ IF Ends(Head(signals)) /\ ~probe
       THEN EndAttempt(Interrupted(TRUE, Head(signals) = "reconnect"))
       ELSE /\ probe' = (probe \/ Head(signals) = "active")
            /\ UNCHANGED <<pc, outcome, session, prepared, leaseVars, refresh, dead>>
    /\ UNCHANGED <<wakeProbeFailed, budgetVars>>
    /\ ConnectedUnchanged

\* An active application has its connection checked; a check goes on unless a
\* signal ends the session.
TakeWhileConnected ==
    /\ pc = "connected" /\ signals # <<>>
    /\ signals' = Tail(signals)
    /\ IF Ends(Head(signals))
       THEN EndAttempt(Interrupted(TRUE, Head(signals) = "reconnect"))
       ELSE /\ probe' = (probe \/ Head(signals) = "active")
            /\ UNCHANGED <<pc, outcome, session, prepared, leaseVars, refresh, dead>>
    /\ UNCHANGED <<wakeProbeFailed, budgetVars>>
    /\ ConnectedUnchanged

ProbeSucceeds ==
    /\ pc = "connected" /\ probe /\ ~dead
    /\ probe' = FALSE
    /\ UNCHANGED <<signals, wakeProbeFailed, pc, outcome, session, prepared, leaseVars,
                   refresh, dead, budgetVars>>
    /\ ConnectedUnchanged

\* Faulty variant: the exit of the failed check is not propagated.
ProbeFailsQuietly ==
    /\ pc = "connected" /\ probe
    /\ probe' = FALSE
    /\ UNCHANGED <<signals, wakeProbeFailed, pc, outcome, session, prepared, leaseVars,
                   refresh, dead, budgetVars>>
    /\ ConnectedUnchanged

\* The check is answered with an error, or not in time.
ProbeFails ==
    /\ pc = "connected" /\ probe
    /\ wakeProbeFailed' = TRUE
    /\ \E error \in Errors : EndAttempt(Failure(TRUE, error))
    /\ UNCHANGED <<signals, budgetVars>>
    /\ ConnectedUnchanged

\* The transport is gone.  A suspended phone may never be told.
TransportDies ==
    /\ pc = "connected" /\ ~dead /\ losses < MaxLosses
    /\ dead' = TRUE /\ losses' = losses + 1
    /\ UNCHANGED <<signals, wakeProbeFailed, pc, outcome, session, prepared, leaseVars,
                   refresh, probe, refreshes>>
    /\ ConnectedUnchanged

\* session.closed: the close event arrives.
SessionClosed ==
    /\ pc = "connected" /\ dead
    /\ \E error \in Errors : EndAttempt(Failure(TRUE, error))
    /\ UNCHANGED <<signals, wakeProbeFailed, budgetVars>>
    /\ ConnectedUnchanged

-----------------------------------------------------------------------------
(* prepareReplacement: a second connection before the authorization ends.   *)

\* The deadline minus the skew has come, or a retry is due.
PrepareReplacement ==
    /\ pc = "connected" /\ refresh \in {"waiting", "delaying"}
    /\ refresh' = "preparing"
    /\ OpenScope
    /\ UNCHANGED <<signals, wakeProbeFailed, pc, outcome, session, prepared, active, previous,
                   probe, dead, budgetVars>>
    /\ ConnectedUnchanged

\* Faulty variant: the scope of a candidate that failed is left open.
ReplacementFailsLeaking ==
    /\ pc = "connected" /\ refresh = "preparing"
    /\ refresh' = "delaying" /\ candidate' = NoLease /\ UNCHANGED open
    /\ UNCHANGED <<signals, wakeProbeFailed, pc, outcome, session, prepared, active, previous,
                   probe, dead, budgetVars>>
    /\ ConnectedUnchanged

\* A transient failure or 15 seconds: keep the active connection and try again.
ReplacementFails ==
    /\ pc = "connected" /\ refresh = "preparing"
    /\ refresh' = "delaying" /\ candidate' = NoLease /\ open' = open \ {candidate}
    /\ UNCHANGED <<signals, wakeProbeFailed, pc, outcome, session, prepared, active, previous,
                   probe, dead, budgetVars>>
    /\ ConnectedUnchanged

\* A blocked replacement ends the session; so does the end of the authorization.
ReplacementGivesUp ==
    /\ pc = "connected"
    /\ \/ refresh = "preparing" /\ EndAttempt(Failure(TRUE, "blocked"))
       \/ refresh \in {"preparing", "delaying"} /\ EndAttempt(Interrupted(TRUE, TRUE))
    /\ UNCHANGED <<signals, wakeProbeFailed, budgetVars>>
    /\ ConnectedUnchanged

\* The candidate is ready.  It is installed without interruption, and then the
\* scope of the one before is closed.
ReplacementReady ==
    /\ pc = "connected" /\ refresh = "preparing"
    /\ \/ /\ ~Wanted
          /\ EndAttempt(Interrupted(TRUE, FALSE))
          /\ UNCHANGED <<phase, activeGeneration, refreshes>>
       \/ /\ Wanted
          /\ previous' = active /\ active' = candidate /\ candidate' = NoLease
          /\ activeGeneration' = activeGeneration + 1
          /\ session' = candidate /\ prepared' = candidate
          /\ phase' = "connected" /\ pc' = "swapping"
          /\ probe' = FALSE /\ dead' = FALSE /\ Authorization
          /\ UNCHANGED <<open, outcome>>
    /\ UNCHANGED <<callVars, signals, wakeProbeFailed, generation, rung, losses>>

ClosePrevious ==
    /\ pc = "swapping"
    /\ open' = open \ {previous} /\ previous' = NoLease
    /\ pc' = "connected"
    /\ UNCHANGED <<signals, wakeProbeFailed, outcome, session, prepared, active, candidate,
                   fiberVars, budgetVars>>
    /\ ConnectedUnchanged

-----------------------------------------------------------------------------
Callers == Connect \/ Disconnect \/ RetryNow \/ NetworkChanges \/ Wakeup
TakeSignal == TakeWhileIdle \/ TakeWhileEstablishing \/ TakeWhileConnected
EndProbe == ProbeSucceeds \/ ProbeFails
EndEstablishment == Established \/ EstablishmentFails

Next ==
    \/ Callers \/ TransportDies
    \/ \E signal \in calling : QueueSignal(signal)
    \/ TopOfLoop \/ RetryDelayPasses \/ TakeSignal
    \/ Progress \/ EndEstablishment \/ EndProbe \/ SessionClosed
    \/ PrepareReplacement \/ ReplacementFails \/ ReplacementGivesUp \/ ReplacementReady
    \/ ClosePrevious \/ Conclude

\* A caller that has written goes on to queue its signal, the loop goes on, a
\* delay passes, and attempts and health checks end at their timeouts.  A
\* driver that is asked again and again is not always refused.
Fairness ==
    /\ WF_vars(\E signal \in calling : QueueSignal(signal))
    /\ WF_vars(TopOfLoop) /\ WF_vars(Conclude) /\ WF_vars(ClosePrevious)
    /\ WF_vars(TakeSignal) /\ WF_vars(RetryDelayPasses)
    /\ WF_vars(EndEstablishment) /\ SF_vars(Established) /\ WF_vars(EndProbe)

Spec == Init /\ [][Next]_vars /\ Fairness

-----------------------------------------------------------------------------
(* Properties                                                               *)

\* Every variable keeps its type, and a wait for the retry delay follows a failure that
\* was counted: the index it gives retryDelayMs is not negative.
TypeOK ==
    /\ intent \in [desired: BOOLEAN, network: {"online", "offline"}]
    /\ calling \subseteq Signals \ Wakeups /\ signals \in Seq(Signals)
    /\ resetRetryState \in BOOLEAN /\ wakeProbeFailed \in BOOLEAN
    /\ pc \in {"top", "idle", "establishing", "connected", "swapping", "closing"}
    /\ phase \in {"available", "offline", "connecting", "connected", "blocked", "backoff"}
    /\ {session, prepared, active, candidate, previous} \subseteq Leases \cup {NoLease}
    /\ open \subseteq Leases
    /\ refresh \in {"none", "waiting", "preparing", "delaying"}
    /\ probe \in BOOLEAN /\ dead \in BOOLEAN
    /\ generation \in Nat /\ activeGeneration \in Nat /\ rung \in 0..Ladder
    /\ pc = "idle" /\ phase = "backoff" => rung # 0
    /\ outcome \in {NoOutcome} \cup {Interrupted(e, r) : e \in BOOLEAN, r \in BOOLEAN}
                   \cup {Failure(e, k) : e \in BOOLEAN, k \in Errors}
    /\ calls \in 0..MaxCalls /\ losses \in 0..MaxLosses /\ refreshes \in 0..MaxRefreshes

\* No change of the intent is forgotten: whenever the loop waits on, or works
\* for, an intent that no longer holds, a signal that will end the wait or the
\* session is queued or about to be.  The waits eat signals, and an attempt
\* that completes goes past the ones still queued.
Queued == {signals[i] : i \in DOMAIN signals}
Coming(these) == (calling \cup Queued) \cap these # {}
NoSignalLost ==
    /\ pc = "idle" /\ phase = "available" /\ intent.desired => Coming(Signals)
    /\ pc = "idle" /\ phase = "offline" /\ (Wanted \/ ~intent.desired) => Coming(Signals)
    /\ pc = "idle" /\ phase \in {"blocked", "backoff"} /\ ~Wanted => Coming(Signals)
    /\ pc \in {"establishing", "connected", "swapping"} /\ ~Wanted
          => Coming({s \in Signals : Ends(s)})

\* A published session is the active lease, in an open scope, and the prepared
\* connection beside it is its own; nothing stays open that the loop could not
\* close, and the mark of a failed probe is not left for a later failure.
LeasesOwned ==
    /\ session # NoLease => session = active /\ session \in open /\ prepared = session
    /\ pc # "closing" => open = {active, candidate, previous} \ {NoLease}
    /\ pc \in {"top", "idle"} => session = NoLease
    /\ wakeProbeFailed => pc = "closing"

\* A health check of a dead connection ends it: the user who comes back to the
\* application is not left with a session that looks alive.
DeadSessionFound == (probe /\ dead) ~> ~dead

SessionPublished == pc \in {"connected", "swapping"} \/ (pc = "closing" /\ outcome.established)

Promise == INSTANCE EnvironmentSession WITH
    session <- IF session = NoLease THEN 0 ELSE activeGeneration,
    last    <- IF SessionPublished THEN activeGeneration ELSE generation,
    wanted  <- Wanted,
    blocked <- (phase = "blocked")

\* The sessions the supervisor publishes are those EnvironmentSession promises:
\* only while wanted, each of the next generation, none of them twice; and one
\* appears, and disappears, when it has to.
ImplementsEnvironmentSession == Promise!Spec

-----------------------------------------------------------------------------
(* The inductive invariant behind these properties.                         *)

\* Which lease plays which part at each place of the loop.  A scope is opened
\* for the candidate of the attempt or of a refresh, and the session is always
\* that of the active lease.
LeaseRoles ==
    /\ pc \in {"top", "idle", "closing"}
          => session = NoLease /\ {active, candidate, previous} = {NoLease}
    /\ pc = "establishing"
          => session = NoLease /\ candidate \in Leases /\ {active, previous} = {NoLease}
    /\ pc \in {"connected", "swapping"}
          => active \in Leases \ {candidate, previous} /\ {session, prepared} = {active}
    /\ pc = "connected"
          => previous = NoLease /\ (candidate # NoLease <=> refresh = "preparing")
    /\ pc = "swapping"
          => previous \in Leases /\ candidate = NoLease /\ refresh # "preparing"

\* An attempt works under the generation after the loop's, which replacements
\* raise further, and shows the phase that goes with its place.
Generations ==
    /\ pc = "establishing" => activeGeneration = generation + 1 /\ phase = "connecting"
    /\ pc \in {"connected", "swapping"} => activeGeneration > generation /\ phase = "connected"

\* An attempt that failed on its own is not followed by a fresh look at the
\* intent, so that the signal of a change is still to come.
FailureLeavesSignals ==
    pc = "closing" /\ outcome.tag = "failure" /\ ~Wanted => Coming({s \in Signals : Ends(s)})

IInv == /\ TypeOK /\ LeasesOwned /\ LeaseRoles /\ Generations
        /\ NoSignalLost /\ FailureLeavesSignals
=============================================================================
