---------------------------- MODULE Checkpoints ----------------------------
(***************************************************************************)
(* Workspace checkpoints of one thread.  A checkpoint is a hidden git ref, *)
(* named by a turn count, and a row in the turns projection that gives the *)
(* count to a turn.  Two fibers number the turns: CheckpointReactor, which *)
(* captures the ref and then records the row, and the ingestion of runtime *)
(* events, which records a placeholder for a diff in the middle of a turn  *)
(* and leaves the capture to the reactor.  Both read the rows before they  *)
(* write, the decider checks nothing, and a revert removes rows and refs   *)
(* at different times.                                                     *)
(*                                                                         *)
(* The reactor's worker merges two subscriptions, domain events and        *)
(* provider events, in no fixed order.  A ref stands for the turn it was   *)
(* captured for; the files themselves and the provider's conversation are  *)
(* left out, but not the steps at which restoring them may fail.           *)
(***************************************************************************)
EXTENDS Integers, Sequences, FiniteSetsExt

CONSTANTS
    MaxTurns, MaxCount, MaxReverts, MaxFaults  \* bounds: turns, turn counts, reverts, faults

ASSUME CheckpointsAssumption ==
    MaxTurns \in Nat /\ MaxCount \in Nat /\ MaxReverts \in Nat /\ MaxFaults \in Nat

VARIABLES
    asked, started,  \* turns asked for, turns the provider has started
    running,         \* the turn the provider works on; 0 for none
    active,          \* session.activeTurnId in the projection; 0 for none
    toIngestion,     \* provider events not yet ingested
    placeholder,     \* the placeholder ingestion is about to record
    toReactor,       \* provider events the reactor has not yet taken
    domain,          \* domain events the reactor has not yet taken
    work,            \* what the reactor is in the middle of
    rows,            \* the turns projection: the checkpoint of each turn
    refs,            \* checkpoint refs in git: the turn each was captured for
    reverts, faults,
    halfDone,        \* counts whose capture or removal was broken off
    failed           \* turns whose capture failed or was forgotten

provider == <<asked, started, running>>
ingestion == <<active, toIngestion, placeholder>>
reactor == <<toReactor, domain, work>>
history == <<halfDone, failed>>
vars == <<asked, started, running, active, toIngestion, placeholder, toReactor, domain, work,
          rows, refs, reverts, faults, halfDone, failed>>

Turns == 1..MaxTurns
Counts == 0..MaxCount
None == [count |-> -1]
NoRef == -1
Baseline == 0    \* a ref captured before a turn, and for none
Idle == [kind |-> "idle"]

Init ==
    /\ asked = 0 /\ started = 0 /\ running = 0 /\ active = 0
    /\ toIngestion = <<>> /\ placeholder = None
    /\ toReactor = <<>> /\ domain = <<>> /\ work = Idle
    /\ rows = [t \in Turns |-> None]
    /\ refs = [c \in Counts |-> NoRef]
    /\ reverts = 0 /\ faults = 0
    /\ halfDone = {} /\ failed = {}

-----------------------------------------------------------------------------

\* The highest turn count in the projection.
LatestCount == Max({0} \cup {rows[t].count : t \in {u \in Turns : rows[u] # None}})

\* The turn has a checkpoint that is no placeholder.
HasReal(t) == rows[t] # None /\ rows[t].status # "missing"

\* Faulty variant: the turn that had the count keeps it.
RecordBesides(t, c, s, captured, pending) ==
    /\ rows' = [rows EXCEPT ![t] = [count |-> c, status |-> s, captured |-> captured]]
    /\ domain' = Append(pending, [kind |-> "diff", turn |-> t, count |-> c, status |-> s])

\* thread.turn.diff.complete: the row is replaced, whatever it was, another turn
\* with this count loses its checkpoint, and the event goes to the reactor.
Record(t, c, s, captured, pending) ==
    /\ rows' = [u \in Turns |->
                    CASE u = t -> [count |-> c, status |-> s, captured |-> captured]
                      [] u # t /\ rows[u].count = c -> None
                      [] OTHER -> rows[u]]
    /\ domain' = Append(pending, [kind |-> "diff", turn |-> t, count |-> c, status |-> s])

Fault == faults < MaxFaults /\ faults' = faults + 1

-----------------------------------------------------------------------------
(* The user and the provider                                               *)

\* thread.turn.start: the message asks the reactor for a baseline.
AskTurn ==
    /\ asked < MaxTurns
    /\ asked' = asked + 1
    /\ domain' = Append(domain, [kind |-> "asked"])
    /\ UNCHANGED <<started, running, ingestion, toReactor, work, rows, refs, reverts, faults, history>>

\* Provider events are broadcast to both subscribers.
StartTurn ==
    /\ running = 0
    /\ started < asked
    /\ started' = started + 1
    /\ running' = started'
    /\ toIngestion' = Append(toIngestion, [kind |-> "started", turn |-> running'])
    /\ toReactor' = Append(toReactor, [kind |-> "started", turn |-> running'])
    /\ UNCHANGED <<asked, active, placeholder, domain, work, rows, refs, reverts, faults, history>>

\* turn.diff.updated; bounded to one on its way.
UpdateDiff ==
    /\ running # 0
    /\ \A i \in DOMAIN toIngestion : toIngestion[i].kind # "diff"
    /\ toIngestion' = Append(toIngestion, [kind |-> "diff", turn |-> running])
    /\ UNCHANGED <<provider, active, placeholder, reactor, rows, refs, reverts, faults, history>>

\* turn.completed, with the status its checkpoint will have: an interrupted turn
\* has a missing one.
EndTurn(status) ==
    /\ running # 0
    /\ running' = 0
    /\ toIngestion' = Append(toIngestion, [kind |-> "completed", turn |-> running])
    /\ toReactor' = Append(toReactor, [kind |-> "completed", turn |-> running, status |-> status])
    /\ UNCHANGED <<asked, started, active, placeholder, domain, work, rows, refs, reverts, faults, history>>

\* thread.checkpoint.revert: the decider accepts any turn count, at any time.
RequestRevert(target) ==
    /\ reverts < MaxReverts
    /\ reverts' = reverts + 1
    /\ domain' = Append(domain, [kind |-> "revert", target |-> target])
    /\ UNCHANGED <<provider, ingestion, toReactor, work, rows, refs, faults, history>>

-----------------------------------------------------------------------------
(* ProviderRuntimeIngestion, one event at a time                           *)

Ingest(kind) ==
    /\ placeholder = None
    /\ toIngestion # <<>> /\ Head(toIngestion).kind = kind
    /\ toIngestion' = Tail(toIngestion)

IngestLifecycle ==
    /\ \/ Ingest("started") /\ active' = Head(toIngestion).turn
       \/ Ingest("completed") /\ active' = IF active = Head(toIngestion).turn THEN 0 ELSE active
    /\ UNCHANGED <<provider, placeholder, reactor, rows, refs, reverts, faults, history>>

\* A turn with a checkpoint of any status is left alone.  The rest is numbered by
\* what is read here, and recorded later.
IngestDiff ==
    /\ Ingest("diff")
    /\ LET turn == Head(toIngestion).turn
       IN  placeholder' = IF rows[turn] # None THEN None
                          ELSE [turn |-> turn, count |-> LatestCount + 1]
    /\ LatestCount < MaxCount
    /\ UNCHANGED <<provider, active, reactor, rows, refs, reverts, faults, history>>

RecordPlaceholder ==
    /\ placeholder # None
    /\ placeholder' = None
    /\ Record(placeholder.turn, placeholder.count, "missing", FALSE, domain)
    /\ UNCHANGED <<provider, active, toIngestion, toReactor, work, refs, reverts, faults, history>>

\* The command fails, and the event is dropped with a warning.
LosePlaceholder ==
    /\ placeholder # None
    /\ Fault
    /\ placeholder' = None
    /\ UNCHANGED <<provider, active, toIngestion, reactor, rows, refs, reverts, history>>

-----------------------------------------------------------------------------
(* CheckpointReactor: the worker takes the next event of either stream     *)

TakeRuntime(kind) ==
    /\ work = Idle
    /\ toReactor # <<>> /\ Head(toReactor).kind = kind
    /\ toReactor' = Tail(toReactor)
    /\ UNCHANGED domain

TakeDomain(kind) ==
    /\ work = Idle
    /\ domain # <<>> /\ Head(domain).kind = kind
    /\ domain' = Tail(domain)
    /\ UNCHANGED toReactor

\* ensurePreTurnBaseline: no turn starts without a ref to compare with.
EnsureBaseline ==
    /\ TakeRuntime("started") \/ TakeDomain("asked")
    /\ refs' = IF refs[LatestCount] = NoRef THEN [refs EXCEPT ![LatestCount] = Baseline] ELSE refs
    /\ UNCHANGED <<provider, ingestion, work, rows, reverts, faults, history>>

BaselineFails ==
    /\ TakeRuntime("started") \/ TakeDomain("asked")
    /\ Fault
    /\ UNCHANGED <<provider, ingestion, work, rows, refs, reverts, history>>

\* The ref is written first, the row when the command is through.
StartCapture(t, c, s) ==
    \/ /\ refs' = [refs EXCEPT ![c] = t]
       /\ work' = [kind |-> "capture", turn |-> t, count |-> c, status |-> s]
       /\ UNCHANGED <<faults, failed>>
    \/ /\ Fault
       /\ failed' = failed \cup {t}
       /\ UNCHANGED <<refs, work>>

SkipEvent == UNCHANGED <<refs, work, faults, failed>>

\* captureCheckpointFromTurnCompletion: only the active turn, and only once.
CaptureCompleted ==
    /\ TakeRuntime("completed")
    /\ LET event == Head(toReactor)
           turn == event.turn
           superseded == active \notin {0, turn}
       IN  \/ (superseded \/ HasReal(turn)) /\ SkipEvent
           \/ /\ ~superseded /\ ~HasReal(turn)
              /\ rows[turn] # None
              /\ StartCapture(turn, rows[turn].count, event.status)
           \/ /\ ~superseded /\ rows[turn] = None
              /\ LatestCount < MaxCount
              /\ StartCapture(turn, LatestCount + 1, event.status)
    /\ UNCHANGED <<provider, ingestion, rows, reverts, halfDone>>

\* Faulty variant: any checkpoint of the turn will do.
CapturePlaceholderOnce ==
    /\ TakeDomain("diff")
    /\ LET event == Head(domain)
           wanted == event.status = "missing" /\ rows[event.turn] = None
       IN  \/ ~wanted /\ SkipEvent
           \/ wanted /\ StartCapture(event.turn, event.count, "ready")
    /\ UNCHANGED <<provider, ingestion, rows, reverts, halfDone>>

\* captureCheckpointFromPlaceholder: with the count of the event.
CapturePlaceholder ==
    /\ TakeDomain("diff")
    /\ LET event == Head(domain)
           wanted == event.status = "missing" /\ ~HasReal(event.turn)
       IN  \/ ~wanted /\ SkipEvent
           \/ wanted /\ StartCapture(event.turn, event.count, "ready")
    /\ UNCHANGED <<provider, ingestion, rows, reverts, halfDone>>

RecordCapture ==
    /\ work.kind = "capture"
    /\ work' = Idle
    /\ Record(work.turn, work.count, work.status, TRUE, domain)
    /\ halfDone' = halfDone \ {work.count}
    /\ failed' = failed \ {work.turn}
    /\ UNCHANGED <<provider, ingestion, toReactor, refs, reverts, faults>>

\* The ref is written, the command that records it does not go through: an activity
\* says so.  A failed diff does not lead here, the capture goes on without files.
RecordFails ==
    /\ work.kind = "capture"
    /\ Fault
    /\ work' = Idle
    /\ halfDone' = halfDone \cup {work.count}
    /\ failed' = failed \cup {work.turn}
    /\ UNCHANGED <<provider, ingestion, toReactor, domain, rows, refs, reverts>>

-----------------------------------------------------------------------------
(* handleRevertRequested                                                   *)

\* What is captured above the target, by the rows the revert has read.
CapturedAbove(target) ==
    {rows[t].count : t \in {u \in Turns :
        rows[u] # None /\ rows[u].count > target /\ rows[u].captured}}

\* The target must have a ref: its own, or the one before all turns.  An
\* interrupted capture may have left the row without one, and a placeholder's
\* cannot be restored.
Restorable(target) ==
    \/ target = 0
    \/ \E t \in Turns :
            /\ rows[t] # None /\ rows[t].count = target /\ rows[t].captured
            /\ refs[target] # NoRef

\* Refused with an activity, or the files are restored.
TakeRevert ==
    /\ TakeDomain("revert")
    /\ LET target == Head(domain).target
       IN  work' \in {Idle} \cup
                {[kind |-> "revert", step |-> "rollback", target |-> target,
                  stale |-> CapturedAbove(target)] :
                    possible \in {u \in {target} : u <= LatestCount /\ Restorable(u)}}
    /\ UNCHANGED <<provider, ingestion, rows, refs, reverts, faults, history>>

Reverting(step) == work.kind = "revert" /\ work.step = step

\* The conversation is rolled back by as many turns as there are counts.
RollBack ==
    /\ Reverting("rollback")
    /\ work' = [work EXCEPT !.step = "delete"]
    /\ UNCHANGED <<provider, ingestion, toReactor, domain, rows, refs, reverts, faults, history>>

DeleteStaleRefs ==
    /\ Reverting("delete")
    /\ work' = [work EXCEPT !.step = "complete"]
    /\ refs' = [c \in Counts |-> IF c \in work.stale THEN NoRef ELSE refs[c]]
    /\ UNCHANGED <<provider, ingestion, toReactor, domain, rows, reverts, faults, history>>

\* thread.reverted: every checkpoint above the target goes, also one recorded
\* since the revert began.
CompleteRevert ==
    /\ Reverting("complete")
    /\ work' = Idle
    /\ rows' = [t \in Turns |-> IF rows[t].count > work.target THEN None ELSE rows[t]]
    /\ UNCHANGED <<provider, ingestion, toReactor, domain, refs, reverts, faults, history>>

\* What the reactor leaves half done when it is stopped here.
BrokenOff ==
    CASE work.kind = "capture" -> {work.count}
      [] work.kind = "revert" -> work.stale
      [] OTHER -> {}

\* A step of the revert fails: an activity says so.
RevertFails ==
    /\ work.kind = "revert"
    /\ Fault
    /\ work' = Idle
    /\ halfDone' = halfDone \cup IF work.step = "rollback" THEN {} ELSE BrokenOff
    /\ UNCHANGED <<provider, ingestion, toReactor, domain, rows, refs, reverts, failed>>

-----------------------------------------------------------------------------

\* The streams are not replayed, and the provider's turn is lost.
Restart ==
    /\ Fault
    /\ asked' = started /\ running' = 0 /\ active' = 0
    /\ toIngestion' = <<>> /\ placeholder' = None
    /\ toReactor' = <<>> /\ domain' = <<>> /\ work' = Idle
    /\ halfDone' = halfDone \cup BrokenOff
    /\ failed' = failed \cup {t \in Turns : rows[t] # None /\ rows[t].status = "missing"}
    /\ UNCHANGED <<started, rows, refs, reverts>>

Next ==
    \/ AskTurn \/ StartTurn \/ UpdateDiff
    \/ \E status \in {"ready", "error", "missing"} : EndTurn(status)
    \/ \E target \in Counts : RequestRevert(target)
    \/ IngestLifecycle \/ IngestDiff \/ RecordPlaceholder \/ LosePlaceholder
    \/ EnsureBaseline \/ BaselineFails
    \/ CaptureCompleted \/ CapturePlaceholder \/ RecordCapture \/ RecordFails
    \/ TakeRevert \/ RollBack \/ DeleteStaleRefs \/ CompleteRevert \/ RevertFails
    \/ Restart

Spec == Init /\ [][Next]_vars

-----------------------------------------------------------------------------
(* Properties                                                              *)

\* Whatever turn the projection gives a captured count to, the ref with that
\* count was captured for this turn and no other, however the two fibers number
\* the turns.  A count whose capture or removal is under way, or was broken off,
\* is in doubt.  This says for which turn a ref was captured, not all that it
\* holds: of two turns with one count the earlier loses its checkpoint, and the
\* later one's diff begins at the ref before both.
RefsHoldTheirTurn ==
    \A t \in Turns :
        (rows[t] # None /\ rows[t].captured /\ rows[t].count \notin halfDone \cup BrokenOff)
            => refs[rows[t].count] = t

\* What ingestion and the projector say of placeholders: none overwrites a checkpoint
\* that was captured for real.  The code does it: ingestion has read the rows before
\* the reactor recorded the capture, and the projection has no guard.
PlaceholdersSpareCaptures ==
    [][\A t \in Turns : HasReal(t) =>
            ~(rows'[t] # None /\ rows'[t].status = "missing" /\ ~rows'[t].captured)]_vars

\* A placeholder does not stay one: as long as a turn's checkpoint is missing,
\* an event that makes the reactor capture it is on its way, or it is being
\* captured, unless that failed or a restart forgot it.
PlaceholdersGetCaptured ==
    \A t \in Turns :
        (rows[t] # None /\ rows[t].status = "missing") =>
            \/ t \in failed
            \/ work.kind = "capture" /\ work.turn = t
            \/ \E i \in DOMAIN domain :
                    domain[i].kind = "diff" /\ domain[i].turn = t /\ domain[i].status = "missing"

-----------------------------------------------------------------------------
(* The inductive invariant behind these properties.                         *)

Statuses == {"ready", "error", "missing"}
IngestionEvents == [kind: {"started", "diff", "completed"}, turn: Turns]
ProviderEvents ==
    [kind: {"started"}, turn: Turns] \cup [kind: {"completed"}, turn: Turns, status: Statuses]
DomainEvents ==
    [kind: {"asked"}] \cup [kind: {"revert"}, target: Counts]
        \cup [kind: {"diff"}, turn: Turns, count: Counts, status: Statuses]
Captures == [kind: {"capture"}, turn: Turns, count: Counts, status: Statuses]
Reverts == [kind: {"revert"}, step: {"rollback", "delete", "complete"}, target: Counts,
            stale: SUBSET Counts]

CheckpointTypeOK ==
    /\ asked \in 0..MaxTurns /\ started \in 0..MaxTurns /\ running \in 0..MaxTurns
    /\ toIngestion \in Seq(IngestionEvents) /\ toReactor \in Seq(ProviderEvents)
    /\ placeholder \in {None} \cup [turn: Turns, count: Counts]
    /\ domain \in Seq(DomainEvents)
    /\ work \in {Idle} \cup Captures \cup Reverts
    /\ rows \in [Turns -> {None} \cup [count: Counts, status: Statuses, captured: BOOLEAN]]
    /\ refs \in [Counts -> {NoRef, Baseline} \cup Turns]

\* The counts whose ref may differ from their row.  A revert has not touched the
\* refs before it deletes those it read as stale.
InDoubt == halfDone \cup IF Reverting("rollback") \/ Reverting("delete") THEN {} ELSE BrokenOff

RefsInPlace ==
    \A t \in Turns :
        (rows[t] # None /\ rows[t].captured /\ rows[t].count \notin InDoubt)
            => refs[rows[t].count] = t

\* The ref of a capture is written before its row, and a revert deletes only what
\* is above its target, where its last step removes the rows.
WorkInProgress ==
    /\ work.kind = "capture" => refs[work.count] = work.turn
    /\ work.kind = "revert" => \A c \in work.stale : c > work.target

IInv == CheckpointTypeOK /\ RefsInPlace /\ WorkInProgress /\ PlaceholdersGetCaptured
=============================================================================
