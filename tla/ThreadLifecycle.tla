--------------------------- MODULE ThreadLifecycle ---------------------------
(***************************************************************************)
(* The lifecycle of one thread: archived, settled, snoozed, pinned.        *)
(* Clients, the provider and two server reactors send commands; the        *)
(* decider (apps/server/src/orchestration/decider.ts) accepts or rejects   *)
(* each against the command read model, and the projector applies it.  The *)
(* engine decides commands one at a time (see OrchestrationEngine), so a   *)
(* command is one step here.                                               *)
(*                                                                         *)
(* The point is what the decider can see.  Requests that wait for the user *)
(* are counted durably by the projection pipeline, but the decider looks   *)
(* for them in the activities it keeps in memory: a window of the recent   *)
(* ones, empty after a restart.  Two reactors act late on what they saw:   *)
(* the settlement sweep settles from an earlier snapshot, and the provider *)
(* reactor stops the session of a thread that was settled some time ago.   *)
(***************************************************************************)
EXTENDS Integers, Sequences, FiniteSets

CONSTANTS
    Approvals,       \* ids of approvals and questions that block a running turn
    Questions,       \* ids of questions answered by a message, whenever the user likes
    Offers,          \* ids of offers to continue on a fallback provider
    ActivityWindow,  \* activities the projector keeps (500 in the code)
    MaxVersion, MaxRestarts  \* bounds: commands committed, restarts

ASSUME LifecycleAssumption ==
    /\ Approvals \cap Questions = {} /\ Approvals \cap Offers = {} /\ Questions \cap Offers = {}
    /\ ActivityWindow \in Nat \ {0}
    /\ MaxVersion \in Nat /\ MaxRestarts \in Nat

VARIABLES
    version,        \* sequence of the thread's last event
    archived,       \* archivedAt is set
    override,       \* settledOverride
    settledVersion, \* sequence of the last thread.settled
    pinned,         \* pinnedAt is set
    snoozed,        \* snoozedUntil is set
    session,        \* session.status
    queuedMessage,  \* a recent user message that no turn has adopted
    openRequests,   \* requests still open in the durable projections
    asked,          \* requests opened so far
    activities,     \* the activities in the command read model, in the order of "at"
    seesMessage,    \* the command read model holds the latest user message
    sweep,          \* the snapshot the settlement sweep is acting on
    inbox,          \* events the provider command reactor has still to process
    liveTurn,       \* sequence of the turn the provider works on; 0 for none
    attempt,        \* pendingTurnAttempts has an entry: the reactor watches a turn
    restarts

status == <<archived, override, settledVersion, pinned, snoozed>>
requests == <<openRequests, asked, activities>>
message == <<queuedMessage, seesMessage>>
reactors == <<sweep, inbox, liveTurn, attempt>>
vars == <<version, archived, override, settledVersion, pinned, snoozed, session,
          queuedMessage, openRequests, asked, activities, seesMessage, sweep, inbox,
          liveTurn, attempt, restarts>>

-----------------------------------------------------------------------------

Requests == Approvals \cup Questions \cup Offers
Overrides == {"none", "settled", "active"}
Statuses == {"none", "starting", "running", "ready", "stopped", "error"}
Alive == {"starting", "running"}
Activity == [at: 1..version, kind: {"opened", "closed"}, request: Requests]
                \cup [at: 1..version, kind: {"other"}]
Intent == [kind: {"settled", "turn"}, at: 0..version] \cup
          [kind: {"stop"}, at: 0..version, settlement: -1..version]
NoSweep == -1
ByUser == -1   \* the settlement of a stop that a user asked for

\* A new thread, or one that has talked to the provider before.
Init ==
    /\ version = 0
    /\ archived = FALSE /\ override = "none" /\ settledVersion = 0
    /\ pinned = FALSE /\ snoozed = FALSE
    /\ session \in {"none", "ready"}
    /\ queuedMessage = FALSE /\ seesMessage = FALSE
    /\ openRequests = {} /\ asked = {} /\ activities = {}
    /\ sweep = NoSweep /\ inbox = <<>> /\ liveTurn = 0 /\ attempt = FALSE
    /\ restarts = 0

-----------------------------------------------------------------------------
(* What the decider can see                                                *)

\* Still open at the end of the activities.
OpenAtEnd(acts, a) ==
    /\ a.kind = "opened"
    /\ \A b \in acts : (b.at > a.at /\ b.kind = "closed") => b.request # a.request

HasOpenBlockingRequest == \E a \in activities : OpenAtEnd(activities, a)

HasQueuedTurnStart == queuedMessage /\ seesMessage /\ session # "error"

Recent(acts, a) == Cardinality({b \in acts : b.at > a.at}) < ActivityWindow

\* Faulty variant: open questions expire with the window.
RetainRecent(acts) == {a \in acts : Recent(acts, a)}

\* retainThreadActivities: the recent window, and the questions still open.
Retain(acts) ==
    {a \in acts : Recent(acts, a) \/ (OpenAtEnd(acts, a) /\ a.request \in Questions)}

\* A committed command takes the next sequence.
Commit ==
    /\ version < MaxVersion
    /\ version' = version + 1

\* thread.unsettled with reason "activity": real activity resets any override.
WakeIf(condition) == override' = IF condition THEN "none" ELSE override

Tell(intents) == inbox' = inbox \o intents

-----------------------------------------------------------------------------
(* Commands of clients                                                     *)

Archive ==
    /\ Commit
    /\ ~archived
    /\ archived' = TRUE
    /\ UNCHANGED <<override, settledVersion, pinned, snoozed, session, requests, message,
                   reactors, restarts>>

Unarchive ==
    /\ Commit
    /\ archived
    /\ archived' = FALSE
    /\ UNCHANGED <<override, settledVersion, pinned, snoozed, session, requests, message,
                   reactors, restarts>>

\* What a settlement is refused for.
SettleBlocked ==
    \/ session \in Alive
    \/ HasOpenBlockingRequest
    \/ HasQueuedTurnStart

\* The thread.settled event and its companions, which unpin and unsnooze.
BecomeSettled ==
    /\ override' = "settled"
    /\ settledVersion' = version'
    /\ pinned' = FALSE
    /\ snoozed' = FALSE
    /\ Tell(<<[kind |-> "settled", at |-> version']>>)
    /\ UNCHANGED archived

Settle ==
    /\ Commit
    /\ ~archived
    /\ ~SettleBlocked
    /\ BecomeSettled
    /\ UNCHANGED <<session, requests, message, sweep, liveTurn, attempt, restarts>>

\* Faulty variant: the reason is stored instead of the override it stands for.
UnsettleStoringReason ==
    /\ Commit
    /\ ~archived
    /\ \E reason \in {"user", "activity"} : override' = reason
    /\ UNCHANGED <<archived, settledVersion, pinned, snoozed, session, requests, message,
                   reactors, restarts>>

Unsettle ==
    /\ Commit
    /\ ~archived
    /\ \E reason \in {"active", "none"} : override' = reason
    /\ UNCHANGED <<archived, settledVersion, pinned, snoozed, session, requests, message,
                   reactors, restarts>>

Snooze ==
    /\ Commit
    /\ ~archived
    /\ ~HasOpenBlockingRequest
    /\ ~HasQueuedTurnStart
    /\ snoozed' = TRUE
    /\ UNCHANGED <<archived, override, settledVersion, pinned, session, requests, message,
                   reactors, restarts>>

Unsnooze ==
    /\ Commit
    /\ ~archived
    /\ snoozed' = FALSE
    /\ UNCHANGED <<archived, override, settledVersion, pinned, session, requests, message,
                   reactors, restarts>>

\* Faulty variant: pinning only outranks the settled state.
PinOverSettled ==
    /\ Commit
    /\ ~archived
    /\ pinned' = TRUE
    /\ snoozed' = FALSE
    /\ UNCHANGED <<archived, override, settledVersion, session, requests, message, reactors,
                   restarts>>

\* Pinning clears the parked states.
Pin ==
    /\ Commit
    /\ ~archived
    /\ pinned' = TRUE
    /\ override' = IF override = "settled" THEN "active" ELSE override
    /\ snoozed' = FALSE
    /\ UNCHANGED <<archived, settledVersion, session, requests, message, reactors, restarts>>

Unpin ==
    /\ Commit
    /\ ~archived
    /\ pinned' = FALSE
    /\ UNCHANGED <<archived, override, settledVersion, snoozed, session, requests, message,
                   reactors, restarts>>

\* A user message: resets the lifecycle and asks for a turn, even of an
\* archived thread.
ReEngage ==
    /\ WakeIf(TRUE)
    /\ snoozed' = FALSE
    /\ queuedMessage' = TRUE
    /\ seesMessage' = TRUE
    /\ Tell(<<[kind |-> "turn", at |-> version']>>)
    /\ UNCHANGED <<archived, settledVersion, pinned>>

StartTurn ==
    /\ Commit
    /\ ReEngage
    /\ UNCHANGED <<session, requests, sweep, liveTurn, attempt, restarts>>

\* thread.session.stop from a client
StopSession ==
    /\ Commit
    /\ Tell(<<[kind |-> "stop", at |-> version', settlement |-> ByUser]>>)
    /\ UNCHANGED <<status, session, requests, message, sweep, liveTurn, attempt, restarts>>

-----------------------------------------------------------------------------
(* Activities                                                              *)

Opened(r) == [at |-> version', kind |-> "opened", request |-> r]
Closed(r) == [at |-> version', kind |-> "closed", request |-> r]
Other == [at |-> version', kind |-> "other"]

AppendActivity(activity) == activities' = Retain(activities \cup {activity})

\* thread.activity.append of a new request: an approval or a question wakes the
\* thread, an offer does not.
Open(r) ==
    /\ Commit
    /\ r \notin asked
    /\ asked' = asked \cup {r}
    /\ openRequests' = openRequests \cup {r}
    /\ AppendActivity(Opened(r))
    /\ WakeIf(r \notin Offers)
    /\ UNCHANGED <<archived, settledVersion, pinned, snoozed>>

\* The provider asks.
Ask(r) ==
    /\ Open(r)
    /\ UNCHANGED <<session, message, reactors, restarts>>

Close(r) ==
    /\ r \in openRequests
    /\ openRequests' = openRequests \ {r}
    /\ AppendActivity(Closed(r))
    /\ UNCHANGED asked

\* The request is resolved, declined or expired, or an answer to it failed
\* because the provider no longer knows it.
CloseRequest(r) ==
    /\ Commit
    /\ Close(r)
    /\ UNCHANGED <<status, session, message, reactors, restarts>>

\* thread.user-input.respond to a question answered by a message: the answer
\* and its message are one command.  The engine reads the question from the
\* database, so a second answer finds it resolved and is rejected.
AnswerQuestion(q) ==
    /\ Commit
    /\ Close(q)
    /\ ReEngage
    /\ UNCHANGED <<session, sweep, liveTurn, attempt, restarts>>

OtherActivity ==
    /\ Commit
    /\ AppendActivity(Other)
    /\ UNCHANGED <<status, session, openRequests, asked, message, reactors, restarts>>

-----------------------------------------------------------------------------
(* The provider                                                            *)

\* Faulty variant: a starting session does not wake the thread.
BecomeSessionWakingLate(s) ==
    /\ session' = s
    /\ WakeIf(s = "running")
    /\ UNCHANGED <<archived, settledVersion, pinned, snoozed>>

\* A session coming alive wakes the thread, any other status does not.
BecomeSession(s) ==
    /\ session' = s
    /\ WakeIf(s \in Alive)
    /\ UNCHANGED <<archived, settledVersion, pinned, snoozed>>

\* A turn that starts, or ends, may adopt the queued message.
SetSession(s) ==
    /\ Commit
    /\ session # "none"
    /\ BecomeSession(s)
    /\ \/ UNCHANGED queuedMessage
       \/ /\ s = "running" \/ session = "running"
          /\ queuedMessage' = FALSE
    /\ liveTurn' = IF s \in {"error", "stopped"} \/ (s = "ready" /\ session = "running")
                   THEN 0 ELSE liveTurn
    /\ UNCHANGED <<requests, seesMessage, sweep, inbox, attempt, restarts>>

\* The grace period of the queued message runs out.
MessageAgesOut ==
    /\ queuedMessage
    /\ queuedMessage' = FALSE
    /\ UNCHANGED <<version, status, session, requests, seesMessage, reactors, restarts>>

-----------------------------------------------------------------------------
(* ThreadSettlementReactor                                                 *)

\* Faulty variant: the counts of waiting requests are left to the decider.
CandidateWhateverPends ==
    /\ ~archived
    /\ override = "none"
    /\ session \notin Alive
    /\ ~(queuedMessage /\ session # "error")

\* Checked on the shell snapshot, which carries the durable counts.  Age, pull
\* request and snooze are left open, and so is background work.
IsAutoSettlementCandidate ==
    /\ ~archived
    /\ override = "none"
    /\ openRequests = {}
    /\ session \notin Alive
    /\ ~(queuedMessage /\ session # "error")

TakeSnapshot ==
    /\ sweep = NoSweep
    /\ IsAutoSettlementCandidate
    /\ sweep' = version
    /\ UNCHANGED <<version, status, session, requests, message, inbox, liveTurn, attempt, restarts>>

\* The engine refuses thread.auto-settle when the thread has a later event.
ChangedSinceSnapshot == version # sweep

AutoSettle ==
    /\ sweep # NoSweep
    /\ sweep' = NoSweep
    /\ Commit
    /\ ~ChangedSinceSnapshot
    /\ ~archived
    /\ override = "none"
    /\ ~SettleBlocked
    /\ BecomeSettled
    /\ UNCHANGED <<session, requests, message, liveTurn, attempt, restarts>>

\* The command is rejected, or the pull request lookup failed.
SweepEnds ==
    /\ sweep # NoSweep
    /\ sweep' = NoSweep
    /\ UNCHANGED <<version, status, session, requests, message, inbox, liveTurn, attempt, restarts>>

-----------------------------------------------------------------------------
(* ProviderCommandReactor, one event at a time in the order of the log     *)

Process(kind) ==
    /\ inbox # <<>>
    /\ Head(inbox).kind = kind

\* Faulty variant: a stop only looks at what the session is doing now.
SessionIsQuiet ==
    /\ session \notin Alive
    /\ ~HasQueuedTurnStart

\* The decider's check of a stop with onlyIfSettled.
StillSettled ==
    /\ override = "settled"
    /\ session \notin Alive
    /\ ~HasQueuedTurnStart

\* The session is looked up first, and may have been stopped by the time the
\* stop command is decided.
ProcessSettled ==
    /\ Process("settled")
    /\ \/ /\ session # "none"
          /\ StillSettled
          /\ Commit
          /\ inbox' = Append(Tail(inbox),
                [kind |-> "stop", at |-> version', settlement |-> settledVersion])
       \/ /\ session \in {"none", "stopped"} \/ ~StillSettled
          /\ inbox' = Tail(inbox)
          /\ UNCHANGED version
    /\ UNCHANGED <<status, session, requests, message, sweep, liveTurn, attempt, restarts>>

\* The provider's session is stopped, if there is one; then it is recorded.
ProcessStop ==
    /\ Process("stop")
    /\ Commit
    /\ inbox' = Tail(inbox)
    /\ BecomeSession("stopped")
    /\ liveTurn' = 0
    /\ queuedMessage' \in IF session = "running" THEN {FALSE, queuedMessage} ELSE {queuedMessage}
    /\ UNCHANGED <<requests, seesMessage, sweep, attempt, restarts>>

\* Stopping fails: an activity says so.
StopFails ==
    /\ Process("stop")
    /\ Commit
    /\ session \notin {"none", "stopped"}
    /\ inbox' = Tail(inbox)
    /\ AppendActivity(Other)
    /\ UNCHANGED <<status, session, openRequests, asked, message, sweep, liveTurn, attempt, restarts>>

\* The session is started, unless one is running already and is steered.
ProcessTurn ==
    /\ Process("turn")
    /\ inbox' = Tail(inbox)
    /\ liveTurn' = Head(inbox).at
    /\ attempt' = TRUE
    /\ \/ /\ session = "running"
          /\ UNCHANGED <<version, status, session>>
       \/ /\ session # "running"
          /\ Commit
          /\ BecomeSession("starting")
    /\ UNCHANGED <<requests, message, sweep, restarts>>

\* The turn could not be started, or was refused by the provider (then the
\* reactor still watches for it): the session records the error, and an
\* activity says so.
TurnStartFails ==
    /\ Process("turn")
    /\ Commit
    /\ inbox' = Tail(inbox)
    /\ BecomeSession(IF session = "stopped" THEN "stopped" ELSE "error")
    /\ AppendActivity(Other)
    /\ attempt' \in BOOLEAN
    /\ UNCHANGED <<openRequests, asked, message, sweep, liveTurn, restarts>>

\* The provider is out of quota: instead of starting the turn, the reactor asks.
OfferFallback(r) ==
    /\ Process("turn")
    /\ inbox' = Tail(inbox)
    /\ Open(r)
    /\ UNCHANGED <<session, message, sweep, liveTurn, attempt, restarts>>

\* The turn ran out of quota on its way.  The reactor hears of it on a stream
\* of its own, while ingestion puts the session in error, and asks.
OfferAfterFailure(r) ==
    /\ attempt
    /\ attempt' = FALSE
    /\ Open(r)
    /\ UNCHANGED <<session, message, sweep, inbox, liveTurn, restarts>>

\* The turn ended in any other way.
AttemptEnds ==
    /\ attempt
    /\ attempt' = FALSE
    /\ UNCHANGED <<version, status, session, requests, message, sweep, inbox, liveTurn, restarts>>

-----------------------------------------------------------------------------

\* The engine reloads its read model without messages and activities, the
\* reactors forget what they had to do, and a session that was at work is put
\* in error or continued.
Restart ==
    /\ restarts < MaxRestarts
    /\ restarts' = restarts + 1
    /\ activities' = {}
    /\ seesMessage' = FALSE
    /\ sweep' = NoSweep
    /\ inbox' = <<>>
    /\ liveTurn' = 0
    /\ attempt' = FALSE
    /\ \/ UNCHANGED <<version, session>>
       \/ /\ session \in Alive
          /\ Commit
          /\ session' = "error"
    /\ UNCHANGED <<status, openRequests, asked, queuedMessage>>

Next ==
    \/ Archive \/ Unarchive \/ Settle \/ Unsettle \/ Snooze \/ Unsnooze \/ Pin \/ Unpin
    \/ StartTurn \/ StopSession
    \/ \E r \in Approvals \cup Questions : Ask(r)
    \/ \E r \in Requests : CloseRequest(r)
    \/ \E q \in Questions : AnswerQuestion(q)
    \/ OtherActivity
    \/ \E s \in Statuses \ {"none"} : SetSession(s)
    \/ MessageAgesOut
    \/ TakeSnapshot \/ AutoSettle \/ SweepEnds
    \/ ProcessSettled \/ ProcessStop \/ StopFails
    \/ ProcessTurn \/ TurnStartFails
    \/ \E r \in Offers : OfferFallback(r) \/ OfferAfterFailure(r)
    \/ AttemptEnds
    \/ Restart

Spec == Init /\ [][Next]_vars

-----------------------------------------------------------------------------
(* Properties                                                              *)

\* Every variable keeps its type.
TypeOK ==
    /\ version \in 0..MaxVersion
    /\ archived \in BOOLEAN /\ pinned \in BOOLEAN /\ snoozed \in BOOLEAN
    /\ override \in Overrides
    /\ settledVersion \in 0..version
    /\ session \in Statuses
    /\ queuedMessage \in BOOLEAN /\ seesMessage \in BOOLEAN
    /\ asked \subseteq Requests /\ openRequests \subseteq asked
    /\ activities \subseteq Activity
    /\ sweep \in NoSweep..version
    /\ inbox \in Seq(Intent)
    /\ liveTurn \in 0..version
    /\ attempt \in BOOLEAN
    /\ restarts \in 0..MaxRestarts

\* A settled thread hides no work: its session is not alive, and no approval
\* or question is waiting for the user, as the durable projections count them.
\* (The decider's comment promises it; a restart breaks it, see the README.)
SettledHidesNoWork ==
    override = "settled" =>
        /\ session \notin Alive
        /\ openRequests \subseteq Offers

\* What the window cannot have pushed out: a question, and an approval of a thread
\* that has had no more events than the window keeps.
Kept(r) == r \in Questions \/ version <= ActivityWindow

\* In whatever order clients, the provider and the reactors are decided, restarts
\* included, a settled thread has no live session; and as long as the server stays
\* up, no question waits in it, and no approval that the window has kept.
SettledIsQuiet ==
    override = "settled" =>
        /\ session \notin Alive
        /\ restarts = 0 => \A r \in openRequests \ Offers : ~Kept(r)

\* A question that waits for the user keeps its thread from being settled however
\* much other activity follows it and however small the window of activities the
\* decider sees is, until a restart empties that window.
WindowKeepsQuestions ==
    (override = "settled" /\ restarts = 0) => openRequests \cap Questions = {}

\* Promoted and parked at once would leave a thread in no list, whatever
\* commands of different clients cross: a settled thread is never pinned.
PinnedNotSettled == ~(pinned /\ override = "settled")

\* However long its sweep took, and even just after a restart, an automatic
\* settlement never hides work, of any kind, nor overrules a user who keeps
\* the thread active.
AutoSettleHidesNothing ==
    [][(sweep # NoSweep /\ sweep' = NoSweep /\ settledVersion' # settledVersion) =>
        /\ openRequests = {}
        /\ session \notin Alive
        /\ override # "active"]_vars

\* The clean-up stop of a settled thread may run late, but it never interrupts
\* a turn that the user asked for after settling.
CleanUpSparesNewTurns ==
    [][(Process("stop") /\ inbox' # inbox /\ Head(inbox).settlement # ByUser
            /\ liveTurn # 0 /\ liveTurn' = 0 /\ restarts' = restarts)
        => liveTurn < Head(inbox).settlement]_vars

-----------------------------------------------------------------------------
(* The inductive invariant behind CleanUpSparesNewTurns.  A turn is asked  *)
(* for by an event that resets the settled override, so all that is known  *)
(* of turns while a thread is settled is older than its settlement; and    *)
(* the inbox is processed in order, so it is older still when the stop is. *)

Timeline ==
    /\ version \in Nat
    /\ settledVersion \in 0..version
    /\ liveTurn \in 0..version
    /\ inbox \in Seq(Intent)

TurnsPrecedeSettlement ==
    override = "settled" =>
        /\ liveTurn < settledVersion
        /\ \A i \in DOMAIN inbox : inbox[i].kind = "turn" => inbox[i].at < settledVersion

TurnsPrecedeStops ==
    \A i \in DOMAIN inbox :
        (inbox[i].kind = "stop" /\ inbox[i].settlement # ByUser) =>
            /\ liveTurn < inbox[i].settlement
            /\ \A j \in 1..(i - 1) :
                    inbox[j].kind = "turn" => inbox[j].at < inbox[i].settlement

IInv == Timeline /\ TurnsPrecedeSettlement /\ TurnsPrecedeStops

-----------------------------------------------------------------------------
(* The inductive invariant behind what is settled and what the sweep saw.  *)

\* The activities number the commits that appended them, and say of a request only
\* what was so.
ActivitiesTrue ==
    /\ \A a, b \in activities : a.at = b.at => a = b
    /\ \A a \in activities :
            /\ a.kind # "other" => a.request \in asked
            /\ a.kind = "closed" => a.request \notin openRequests

OpenRequestsSeen ==
    restarts = 0 =>
        \A r \in openRequests : Kept(r) =>
            \E a \in activities : a.kind = "opened" /\ a.request = r

\* Until something is committed, what the sweep looked at is as it was.
SweepStillTrue ==
    sweep = version => openRequests = {} /\ session \notin Alive /\ override = "none"

LifecycleInv ==
    /\ IInv /\ TypeOK
    /\ ActivitiesTrue /\ OpenRequestsSeen /\ SettledIsQuiet /\ SweepStillTrue

=============================================================================
