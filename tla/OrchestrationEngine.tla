------------------------ MODULE OrchestrationEngine ------------------------
(***************************************************************************)
(* The dispatch loop of the orchestration engine                           *)
(* (apps/server/src/orchestration/Layers/OrchestrationEngine.ts): callers  *)
(* offer commands to one unbounded queue, one worker takes them in order,  *)
(* consults the durable receipts, decides, and commits events, projections *)
(* and receipt in one SQL transaction; then it swaps the in-memory command *)
(* read model and publishes the events.  A failed dispatch is reconciled   *)
(* against the log.  The process may crash between any two steps.          *)
(*                                                                         *)
(* An event is its command and its aggregate; its sequence is its position *)
(* in the log.  The read model is abstracted to the set of events it has   *)
(* applied.  What the decider answers is left open.                        *)
(***************************************************************************)
EXTENDS Integers, Sequences

CONSTANTS
    CommandIds,           \* the ids clients stamp on commands
    Aggregates,           \* projects and threads
    Callers,              \* fibers awaiting a dispatch
    MaxEventsPerCommand,  \* bound: events one command plans
    ReconcileReadLimit,   \* default limit of readFromSequence (1000 in the code)
    ReconcileMayFail,     \* whether reading the log back may fail after a failure
    MaxDispatches, MaxFaults, MaxCrashes  \* bounds on the environment

ASSUME ConstantsAssumption ==
    /\ MaxEventsPerCommand \in Nat \ {0}
    /\ ReconcileReadLimit \in Nat /\ ReconcileReadLimit >= MaxEventsPerCommand
    /\ ReconcileMayFail \in BOOLEAN
    /\ MaxDispatches \in Nat /\ MaxFaults \in Nat /\ MaxCrashes \in Nat

VARIABLES
    log,              \* orchestration_events (durable)
    receipts,         \* orchestration_command_receipts (durable)
    commandQueue,     \* envelopes; the head is the one the worker holds
    commandReadModel, \* what the decider reads
    published,        \* sequences sent through eventPubSub since boot
    bootSequence,     \* head of the log when the engine started
    stage,            \* where the worker is in processEnvelope
    startSequence,    \* dispatchStartSequence
    planned,          \* aggregates of the events the decider planned
    unpublished,      \* sequences the worker has still to publish
    exit,             \* how processing the envelope ended
    answer,           \* what each caller's Deferred holds
    dispatches, faults, crashes

durable == <<log, receipts>>
worker == <<stage, startSequence, planned, unpublished, exit>>
bounds == <<dispatches, faults, crashes>>
vars == <<log, receipts, commandQueue, commandReadModel, published, bootSequence,
          stage, startSequence, planned, unpublished, exit, answer,
          dispatches, faults, crashes>>

-----------------------------------------------------------------------------

Unguarded == -1   \* a command other than thread.auto-settle

Event == [id: CommandIds, aggregate: Aggregates]
Envelope == [caller: Callers, id: CommandIds, aggregate: Aggregates,
             snapshotSequence: Nat \cup {Unguarded}]
NoReceipt == [status |-> "none"]
Receipt == [status: {"accepted", "rejected"}, aggregate: Aggregates, sequence: 0..Len(log)]
Idle == [kind |-> "idle"]
Waiting == [kind |-> "waiting"]
Lost == [kind |-> "lost"]
ExitKinds == {"ok", "rejected", "previouslyRejected", "conflict", "failed"}
Exits == [kind: ExitKinds, sequence: 0..Len(log)]
Answers == [kind: ExitKinds, id: CommandIds, aggregate: Aggregates, sequence: 0..Len(log)]
NoExit == [kind |-> "failed", sequence |-> 0]
Stages == {"down", "idle", "receipt", "decide", "transaction", "swap", "publish",
           "reconcile", "record", "reply"}

envelope == Head(commandQueue)

EmptyReadModel == [applied |-> {}, snapshotSequence |-> 0]

\* projectEvent over events first..last, in sequence order.
Project(model, first, last) ==
    IF first > last THEN model
    ELSE [applied |-> model.applied \cup (first..last), snapshotSequence |-> last]

\* A failed commit or read that the fault bound still allows.
Fault ==
    /\ faults < MaxFaults
    /\ faults' = faults + 1

\* After the last publication a rejection is recorded, anything else is answered.
AfterPublishing == IF exit.kind = "rejected" THEN "record" ELSE "reply"

Init ==
    /\ log = <<>>
    /\ receipts = [id \in CommandIds |-> NoReceipt]
    /\ commandQueue = <<>>
    /\ commandReadModel = EmptyReadModel
    /\ published = <<>>
    /\ bootSequence = 0
    /\ stage = "idle"
    /\ startSequence = 0
    /\ planned = <<>>
    /\ unpublished = <<>>
    /\ exit = NoExit
    /\ answer = [c \in Callers |-> Idle]
    /\ dispatches = 0 /\ faults = 0 /\ crashes = 0

-----------------------------------------------------------------------------
(* Callers                                                                 *)

\* dispatch: offer an envelope and await its Deferred.  A retry is a dispatch
\* of an id used before, possibly while the first is still queued; nothing
\* keeps a client from reusing an id on another aggregate.  thread.auto-settle
\* carries the sequence of the snapshot its sender looked at.
Dispatch(c, id, aggregate, guarded) ==
    /\ stage # "down"
    /\ dispatches < MaxDispatches
    /\ answer[c] # Waiting
    /\ commandQueue' = Append(commandQueue,
            [caller |-> c, id |-> id, aggregate |-> aggregate,
             snapshotSequence |-> IF guarded THEN Len(log) ELSE Unguarded])
    /\ answer' = [answer EXCEPT ![c] = Waiting]
    /\ dispatches' = dispatches + 1
    /\ UNCHANGED <<durable, commandReadModel, published, bootSequence, worker, faults, crashes>>

-----------------------------------------------------------------------------
(* The worker, one action per step of processEnvelope                      *)

Finish(kind, sequence) == exit' = [kind |-> kind, sequence |-> sequence]

TakeEnvelope ==
    /\ stage = "idle"
    /\ commandQueue # <<>>
    /\ stage' = "receipt"
    /\ startSequence' = commandReadModel.snapshotSequence
    /\ UNCHANGED <<durable, commandQueue, commandReadModel, published, bootSequence,
                   planned, unpublished, exit, answer, bounds>>

\* Faulty variant: a receipt answers a command for any aggregate.
CheckReceiptOfAnyAggregate ==
    /\ stage = "receipt"
    /\ LET receipt == receipts[envelope.id] IN
        \/ /\ receipt.status = "none"
           /\ stage' = "decide"
           /\ UNCHANGED exit
        \/ /\ receipt.status # "none"
           /\ IF receipt.status = "accepted" THEN Finish("ok", receipt.sequence)
                                             ELSE Finish("previouslyRejected", 0)
           /\ stage' = "reply"
    /\ UNCHANGED <<durable, commandQueue, commandReadModel, published, bootSequence,
                   startSequence, planned, unpublished, answer, bounds>>

\* A receipt for the same aggregate answers the command; one for another
\* aggregate is a conflict; without a receipt the command is decided.
CheckReceipt ==
    /\ stage = "receipt"
    /\ LET receipt == receipts[envelope.id] IN
        \/ /\ receipt.status = "none"
           /\ stage' = "decide"
           /\ UNCHANGED exit
        \/ /\ receipt.status # "none"
           /\ receipt.aggregate # envelope.aggregate
           /\ Finish("conflict", 0)
           /\ stage' = "reply"
        \/ /\ receipt.status = "accepted"
           /\ receipt.aggregate = envelope.aggregate
           /\ Finish("ok", receipt.sequence)
           /\ stage' = "reply"
        \/ /\ receipt.status = "rejected"
           /\ receipt.aggregate = envelope.aggregate
           /\ Finish("previouslyRejected", 0)
           /\ stage' = "reply"
    /\ UNCHANGED <<durable, commandQueue, commandReadModel, published, bootSequence,
                   startSequence, planned, unpublished, answer, bounds>>

\* getByCommandId fails: a persistence error, not a rejection.
ReceiptReadFails ==
    /\ stage = "receipt"
    /\ Fault
    /\ Finish("failed", 0)
    /\ stage' = "reconcile"
    /\ UNCHANGED <<durable, commandQueue, commandReadModel, published, bootSequence,
                   startSequence, planned, unpublished, answer, dispatches, crashes>>

\* Faulty variant: the first event after the snapshot is overlooked.
ChangedLaterThanSnapshot ==
    /\ envelope.snapshotSequence # Unguarded
    /\ \E i \in DOMAIN log :
        /\ i > envelope.snapshotSequence + 1
        /\ log[i].aggregate = envelope.aggregate

\* hasEventAfter, read from the durable log.
ChangedSinceSnapshot ==
    /\ envelope.snapshotSequence # Unguarded
    /\ \E i \in DOMAIN log :
        /\ i > envelope.snapshotSequence
        /\ log[i].aggregate = envelope.aggregate

\* The decider, or one of the automatic-settlement guards, refuses.
RejectCommand ==
    /\ stage = "decide"
    /\ Finish("rejected", 0)
    /\ stage' = "reconcile"
    /\ UNCHANGED <<durable, commandQueue, commandReadModel, published, bootSequence,
                   startSequence, planned, unpublished, answer, bounds>>

\* The decider plans events.  They may touch several aggregates (deleting a
\* project deletes its threads first), but the last is the command's own.
PlanEvents ==
    /\ stage = "decide"
    /\ ~ChangedSinceSnapshot
    /\ \E n \in 1..MaxEventsPerCommand : \E plan \in [1..n -> Aggregates] :
        /\ plan[n] = envelope.aggregate
        /\ planned' = plan
    /\ stage' = "transaction"
    /\ UNCHANGED <<durable, commandQueue, commandReadModel, published, bootSequence,
                   startSequence, unpublished, exit, answer, bounds>>

-----------------------------------------------------------------------------
(* The transaction: append and project each event, write the receipt       *)

\* Faulty variant: sequences counted from the next free one.
LastSequenceOffByOne == Len(log) + Len(planned) + 1

LastSequence == Len(log) + Len(planned)

AcceptedReceipt ==
    [status |-> "accepted", aggregate |-> planned[Len(planned)], sequence |-> LastSequence]

\* Faulty variant: the receipt is not part of the transaction.
CommitWithoutReceipt ==
    /\ log' = log \o [i \in 1..Len(planned) |-> [id |-> envelope.id, aggregate |-> planned[i]]]
    /\ UNCHANGED receipts

CommitDurably ==
    /\ log' = log \o [i \in 1..Len(planned) |-> [id |-> envelope.id, aggregate |-> planned[i]]]
    /\ receipts' = [receipts EXCEPT ![envelope.id] = AcceptedReceipt]

\* Faulty variant: the caller is answered as soon as the commit succeeds.
CommitAnswersAtOnce ==
    /\ stage = "transaction"
    /\ CommitDurably
    /\ Finish("ok", LastSequence)
    /\ stage' = "reply"
    /\ planned' = <<>>
    /\ UNCHANGED <<commandQueue, commandReadModel, published, bootSequence,
                   startSequence, unpublished, answer, bounds>>

CommitTransaction ==
    /\ stage = "transaction"
    /\ CommitDurably
    /\ Finish("ok", LastSequence)
    /\ stage' = "swap"
    /\ UNCHANGED <<commandQueue, commandReadModel, published, bootSequence,
                   startSequence, planned, unpublished, answer, bounds>>

\* An append, a projector or the commit fails and everything is rolled back.
RollBackTransaction ==
    /\ stage = "transaction"
    /\ Fault
    /\ Finish("failed", 0)
    /\ stage' = "reconcile"
    /\ UNCHANGED <<durable, commandQueue, commandReadModel, published, bootSequence,
                   startSequence, planned, unpublished, answer, dispatches, crashes>>

\* The failure the reconciliation exists for: the effect reports an error
\* although the events are durable.
CommitReportedAsFailed ==
    /\ stage = "transaction"
    /\ Fault
    /\ CommitDurably
    /\ Finish("failed", 0)
    /\ stage' = "reconcile"
    /\ UNCHANGED <<commandQueue, commandReadModel, published, bootSequence,
                   startSequence, planned, unpublished, answer, dispatches, crashes>>

\* Faulty variant: only the last event of a command is projected.
SwapProjectingLast ==
    /\ stage = "swap"
    /\ commandReadModel' = Project(commandReadModel, exit.sequence, exit.sequence)
    /\ unpublished' = [i \in 1..Len(planned) |-> exit.sequence - Len(planned) + i]
    /\ planned' = <<>>
    /\ stage' = "publish"
    /\ UNCHANGED <<durable, commandQueue, published, bootSequence, startSequence, exit,
                   answer, bounds>>

\* commandReadModel := nextCommandReadModel, which was computed from the
\* model in memory and the saved events only.
SwapReadModel ==
    /\ stage = "swap"
    /\ LET first == exit.sequence - Len(planned) + 1 IN
        /\ commandReadModel' = Project(commandReadModel, first, exit.sequence)
        /\ unpublished' = [i \in 1..Len(planned) |-> first + i - 1]
    /\ planned' = <<>>
    /\ stage' = "publish"
    /\ UNCHANGED <<durable, commandQueue, published, bootSequence, startSequence, exit,
                   answer, bounds>>

PublishNext ==
    /\ stage = "publish"
    /\ unpublished # <<>>
    /\ published' = Append(published, Head(unpublished))
    /\ unpublished' = Tail(unpublished)
    /\ stage' = IF Len(unpublished) = 1 THEN AfterPublishing ELSE stage
    /\ UNCHANGED <<durable, commandQueue, commandReadModel, bootSequence, startSequence,
                   planned, exit, answer, bounds>>

-----------------------------------------------------------------------------
(* reconcileReadModelAfterDispatchFailure and the rejected receipt         *)

Smaller(a, b) == IF a < b THEN a ELSE b

\* Faulty variant: the event at startSequence is published again.
ReconcileInclusive ==
    /\ stage = "reconcile"
    /\ LET last == Smaller(Len(log), startSequence + ReconcileReadLimit)
           first == IF startSequence = 0 THEN 1 ELSE startSequence
       IN
        /\ commandReadModel' = Project(commandReadModel, first, last)
        /\ unpublished' = [i \in 1..(last - first + 1) |-> first + i - 1]
        /\ stage' = IF last >= first THEN "publish" ELSE AfterPublishing
    /\ planned' = <<>>
    /\ UNCHANGED <<durable, commandQueue, published, bootSequence, startSequence, exit,
                   answer, bounds>>

\* Faulty variant: what is found in the log is projected but not published.
ReconcileSilently ==
    /\ stage = "reconcile"
    /\ LET last == Smaller(Len(log), startSequence + ReconcileReadLimit) IN
        commandReadModel' = Project(commandReadModel, startSequence + 1, last)
    /\ stage' = AfterPublishing
    /\ planned' = <<>>
    /\ UNCHANGED <<durable, commandQueue, published, bootSequence, startSequence, unpublished,
                   exit, answer, bounds>>

\* Read the log past startSequence, project what is there, publish it.
Reconcile ==
    /\ stage = "reconcile"
    /\ LET last == Smaller(Len(log), startSequence + ReconcileReadLimit) IN
        /\ commandReadModel' = Project(commandReadModel, startSequence + 1, last)
        /\ unpublished' = [i \in 1..(last - startSequence) |-> startSequence + i]
        /\ stage' = IF last > startSequence THEN "publish" ELSE AfterPublishing
    /\ planned' = <<>>
    /\ UNCHANGED <<durable, commandQueue, published, bootSequence, startSequence, exit,
                   answer, bounds>>

\* Only a warning is logged.
ReconcileFails ==
    /\ stage = "reconcile"
    /\ ReconcileMayFail
    /\ Fault
    /\ planned' = <<>>
    /\ stage' = AfterPublishing
    /\ UNCHANGED <<durable, commandQueue, commandReadModel, published, bootSequence,
                   startSequence, unpublished, exit, answer, dispatches, crashes>>

RecordRejection ==
    /\ stage = "record"
    /\ receipts' = [receipts EXCEPT ![envelope.id] =
            [status |-> "rejected", aggregate |-> envelope.aggregate,
             sequence |-> commandReadModel.snapshotSequence]]
    /\ stage' = "reply"
    /\ UNCHANGED <<log, commandQueue, commandReadModel, published, bootSequence,
                   startSequence, planned, unpublished, exit, answer, bounds>>

\* The upsert's errors are swallowed: a retry will be decided afresh.
RejectionReceiptLost ==
    /\ stage = "record"
    /\ Fault
    /\ stage' = "reply"
    /\ UNCHANGED <<durable, commandQueue, commandReadModel, published, bootSequence,
                   startSequence, planned, unpublished, exit, answer, dispatches, crashes>>

\* Faulty variant: a failed command leaves its Deferred open.
ReplyUnlessFailed ==
    /\ stage = "reply"
    /\ answer' = IF exit.kind = "failed" THEN answer
                 ELSE [answer EXCEPT ![envelope.caller] =
            [kind |-> exit.kind, id |-> envelope.id, aggregate |-> envelope.aggregate,
             sequence |-> exit.sequence]]
    /\ commandQueue' = Tail(commandQueue)
    /\ stage' = "idle"
    /\ exit' = NoExit
    /\ UNCHANGED <<durable, commandReadModel, published, bootSequence, startSequence,
                   planned, unpublished, bounds>>

\* Complete the caller's Deferred.
Reply ==
    /\ stage = "reply"
    /\ answer' = [answer EXCEPT ![envelope.caller] =
            [kind |-> exit.kind, id |-> envelope.id, aggregate |-> envelope.aggregate,
             sequence |-> exit.sequence]]
    /\ commandQueue' = Tail(commandQueue)
    /\ stage' = "idle"
    /\ exit' = NoExit
    /\ UNCHANGED <<durable, commandReadModel, published, bootSequence, startSequence,
                   planned, unpublished, bounds>>

-----------------------------------------------------------------------------
(* Crash and restart                                                       *)

\* Memory is lost; a transaction that has not committed leaves no trace.
Crash ==
    /\ stage # "down"
    /\ crashes < MaxCrashes
    /\ crashes' = crashes + 1
    /\ stage' = "down"
    /\ commandQueue' = <<>>
    /\ published' = <<>>
    /\ unpublished' = <<>>
    /\ planned' = <<>>
    /\ exit' = NoExit
    /\ commandReadModel' = EmptyReadModel
    /\ answer' = [c \in Callers |-> IF answer[c] = Waiting THEN Lost ELSE answer[c]]
    /\ UNCHANGED <<durable, bootSequence, startSequence, dispatches, faults>>

\* Bootstrap the projections from the log and load the read model from them.
Restart ==
    /\ stage = "down"
    /\ commandReadModel' = [applied |-> 1..Len(log), snapshotSequence |-> Len(log)]
    /\ bootSequence' = Len(log)
    /\ startSequence' = Len(log)
    /\ stage' = "idle"
    /\ UNCHANGED <<durable, commandQueue, published, planned, unpublished, exit, answer, bounds>>

-----------------------------------------------------------------------------

WorkerStep ==
    \/ TakeEnvelope \/ CheckReceipt \/ ReceiptReadFails
    \/ RejectCommand \/ PlanEvents
    \/ CommitTransaction \/ RollBackTransaction \/ CommitReportedAsFailed
    \/ SwapReadModel \/ PublishNext
    \/ Reconcile \/ ReconcileFails
    \/ RecordRejection \/ RejectionReceiptLost
    \/ Reply

Next ==
    \/ \E c \in Callers, id \in CommandIds, a \in Aggregates, g \in BOOLEAN :
            Dispatch(c, id, a, g)
    \/ WorkerStep
    \/ Crash
    \/ Restart

Spec == Init /\ [][Next]_vars

\* The worker fiber is always scheduled, and the server is started again.
FairSpec == Spec /\ WF_vars(WorkerStep) /\ WF_vars(Restart)

-----------------------------------------------------------------------------
(* Properties                                                              *)

\* Every variable keeps its type; the head of the queue exists while the
\* worker is between taking an envelope and answering it.
TypeOK ==
    /\ log \in Seq(Event)
    /\ receipts \in [CommandIds -> Receipt \cup {NoReceipt}]
    /\ commandQueue \in Seq(Envelope)
    /\ commandReadModel \in [applied: SUBSET Int, snapshotSequence: 0..Len(log)]
    /\ published \in Seq(Int)
    /\ bootSequence \in 0..Len(log)
    /\ stage \in Stages
    /\ startSequence \in 0..Len(log)
    /\ planned \in Seq(Aggregates)
    /\ unpublished \in Seq(Int)
    /\ exit \in Exits
    /\ answer \in [Callers -> {Idle, Waiting, Lost} \cup Answers]
    /\ dispatches \in Nat /\ faults \in Nat /\ crashes \in Nat
    /\ stage \notin {"down", "idle"} => commandQueue # <<>>
    /\ stage = "transaction" => planned # <<>>

EventsOf(id) == {i \in DOMAIN log : log[i].id = id}

\* The log and the receipts never disagree, whatever failed and whenever the
\* process died: a command has events exactly when it has an accepted receipt,
\* they are consecutive, and the receipt names the last of them and its
\* aggregate.  A command that was rejected left nothing behind.
ReceiptsMatchLog ==
    \A id \in CommandIds :
        LET own == EventsOf(id)
            receipt == receipts[id]
        IN  IF receipt.status = "accepted"
            THEN /\ receipt.sequence \in own
                 /\ log[receipt.sequence].aggregate = receipt.aggregate
                 /\ \A i \in own : i..receipt.sequence \subseteq own
                 /\ \A i \in own : i <= receipt.sequence
            ELSE own = {}

\* Retries are idempotent: the engine implements the atomic command log, in
\* which a command commits at most once, a receipt is final, and no answer
\* contradicts the receipts.
Abstract == INSTANCE CommandLog
ImplementsCommandLog == Abstract!Spec

\* An automatic settlement commits only if its thread has not changed since the
\* snapshot that asked for it, however long it waited in the queue.
NoStaleSettlement ==
    [][log' # log =>
        \A i \in DOMAIN log :
            (envelope.snapshotSequence # Unguarded /\ i > envelope.snapshotSequence)
                => log[i].aggregate # envelope.aggregate]_vars

\* Subscribers never see an event twice or out of order, even when a
\* reconciliation failed and left a gap.
FeedOrdered ==
    \A i, j \in DOMAIN published : i < j => published[i] < published[j]

\* Unless a reconciliation fails, every command is decided against all the
\* events in the log.
ReadModelAgrees ==
    stage \in {"idle", "receipt", "decide", "transaction"} =>
        commandReadModel = [applied |-> 1..Len(log), snapshotSequence |-> Len(log)]

\* Unless a reconciliation fails, the feed since boot has no gap, and when the
\* worker is idle it has reached the end of the log.
FeedComplete ==
    /\ \A i \in DOMAIN published : published[i] = bootSequence + i
    /\ stage = "idle" => bootSequence + Len(published) = Len(log)

\* Unless a reconciliation fails, the sequence a caller was told is one that
\* latestSequence has reached and that subscribers were sent.
ReadYourWrites ==
    \A c \in Callers :
        (stage # "down" /\ answer[c].kind = "ok") =>
            /\ answer[c].sequence <= commandReadModel.snapshotSequence
            /\ answer[c].sequence <= bootSequence + Len(published)

\* Every caller is answered, or loses its connection to a crash.
EveryCallerAnswered ==
    \A c \in Callers : answer[c] = Waiting ~> answer[c] # Waiting

-----------------------------------------------------------------------------
(* The inductive invariant behind ReceiptsMatchLog and                     *)
(* ImplementsCommandLog: nothing but the worker writes receipts, so what   *)
(* it read before deciding is still true when it commits.                  *)

UndecidedHasNoReceipt ==
    stage \in {"decide", "transaction"} => receipts[envelope.id].status = "none"

PlanEndsAtTarget ==
    stage = "transaction" =>
        /\ Len(planned) <= MaxEventsPerCommand
        /\ planned[Len(planned)] = envelope.aggregate

ExitTruthful ==
    stage \in {"swap", "publish", "reconcile", "record", "reply"} =>
        /\ Abstract!Truthful(envelope.id, envelope.aggregate, exit.kind, exit.sequence)
        /\ (exit.kind = "rejected" /\ stage # "reply") => receipts[envelope.id].status = "none"
        /\ stage = "record" => exit.kind = "rejected"

\* Each queued envelope has a caller of its own, still waiting.
CallersWait ==
    /\ \A i \in DOMAIN commandQueue : answer[commandQueue[i].caller] = Waiting
    /\ \A i, j \in DOMAIN commandQueue :
            commandQueue[i].caller = commandQueue[j].caller => i = j

\* What was checked against the snapshot is still true at the commit: the
\* worker is the only one to append.
SettlementStillFresh == stage = "transaction" => ~ChangedSinceSnapshot

IInv ==
    /\ TypeOK
    /\ ReceiptsMatchLog
    /\ UndecidedHasNoReceipt
    /\ PlanEndsAtTarget
    /\ ExitTruthful
    /\ CallersWait

-----------------------------------------------------------------------------
(* The inductive invariants behind the properties of the feed: the place   *)
(* of the worker says how far the log, the read model and the feed are     *)
(* apart.                                                                  *)

reached == commandReadModel.snapshotSequence

\* Before it swaps the read model or reconciles, the worker has published all it
\* knows of, and dispatchStartSequence is still where the read model stands.
StartIsReached ==
    /\ stage \in {"receipt", "decide", "transaction", "swap", "reconcile"} => startSequence = reached
    /\ stage = "swap" => planned # <<>> /\ reached + Len(planned) <= exit.sequence
    /\ stage = "publish" <=> unpublished # <<>>

\* The worker has still to publish the last events of the read model, and
\* published only earlier ones.
UnpublishedFollow ==
    /\ \A i \in DOMAIN unpublished : unpublished[i] = (reached - Len(unpublished)) + i
    /\ \A i \in DOMAIN published : published[i] <= reached - Len(unpublished)

FeedInv == StartIsReached /\ UnpublishedFollow /\ FeedOrdered

\* While the log can be read back, the read model lacks only what one command
\* has committed since dispatchStartSequence,
ModelFollowsLog ==
    stage # "down" =>
        /\ commandReadModel.applied = 1..reached
        /\ stage \notin {"swap", "reconcile"} => reached = Len(log)
        /\ stage = "swap" => reached + Len(planned) = Len(log) /\ exit.sequence = Len(log)
        /\ stage = "reconcile" => Len(log) <= reached + ReconcileReadLimit

\* and the feed lacks only what the worker is about to publish.
FeedFollowsModel ==
    /\ stage # "down" => (bootSequence + Len(published)) + Len(unpublished) = reached
    /\ stage = "down" => published = <<>>
    /\ \A i \in DOMAIN published : published[i] = bootSequence + i

AnswersPublished ==
    \A c \in Callers :
        (stage # "down" /\ answer[c].kind = "ok") =>
            answer[c].sequence <= bootSequence + Len(published)

AgreementInv == ModelFollowsLog /\ FeedFollowsModel /\ AnswersPublished

=============================================================================
