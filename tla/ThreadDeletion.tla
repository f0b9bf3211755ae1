---------------------------- MODULE ThreadDeletion ----------------------------
(***************************************************************************)
(* Deleting a thread and creating it again under the same id.  The         *)
(* ThreadDeletionReactor hears of a deletion after it is committed, and a  *)
(* DrainableWorker stops the thread's provider session and closes its      *)
(* terminals (TerminalManager).  A create answers its client only once the *)
(* reactor has seen the creation and its worker is idle, so that what the  *)
(* client starts then is safe from the clean-up of what was there before.  *)
(*                                                                         *)
(* The log holds the events of one thread id.  An incarnation is the       *)
(* number of a creation.                                                   *)
(***************************************************************************)
EXTENDS TerminalManager

CONSTANTS
    MaxEvents     \* bound: events of the thread id

ASSUME DeletionAssumption == MaxEvents \in Nat

VARIABLES
    log,          \* "created" and "deleted", in the order of their sequence
    delivered,    \* events the subscription has handled
    seen,         \* seenSequence
    deletions,    \* the worker's queue: sequences of deletions
    outstanding,  \* the worker's count
    cleaning,     \* what the worker's fiber is doing
    creating,     \* creates that wait in drainThrough
    returned,     \* incarnations whose create answered, or that a restart found
    late          \* history: terminals started for an incarnation after its clean-up

reactorVars == <<delivered, seen, deletions, outstanding, cleaning>>
clientVars == <<log, creating, returned, late>>
vars == <<terminalVars, reactorVars, clientVars>>

Incarnation(n) == Cardinality({m \in 1..n : log[m] = "created"})
Exists == log # <<>> /\ log[Len(log)] = "created"

NotCleaning == [at |-> "idle", sequence |-> 0]

Init ==
    /\ TerminalInit
    /\ log = <<>> /\ creating = {} /\ returned = {} /\ late = {}
    /\ delivered = 0 /\ seen = 0 /\ deletions = <<>> /\ outstanding = 0
    /\ cleaning = NotCleaning

-----------------------------------------------------------------------------
(* Commands.                                                                *)

\* requireThreadAbsent holds of a deleted thread.
CreateThread ==
    /\ Len(log) < MaxEvents /\ ~Exists
    /\ log' = Append(log, "created")
    /\ creating' = creating \cup {Len(log) + 1}
    /\ UNCHANGED <<terminalVars, reactorVars, returned, late>>

\* requireThread is content with a thread that is deleted already.
DeleteThread ==
    /\ Len(log) < MaxEvents /\ log # <<>>
    /\ log' = Append(log, "deleted")
    /\ UNCHANGED <<terminalVars, reactorVars, creating, returned, late>>

Answer(sequence) ==
    /\ creating' = creating \ {sequence}
    /\ returned' = returned \cup {Incarnation(sequence)}
    /\ UNCHANGED <<terminalVars, reactorVars, log, late>>

\* Faulty variant: the clean-up that is under way is not waited for.
DrainedThroughQueue(sequence) ==
    sequence \in creating /\ seen >= sequence /\ deletions = <<>> /\ Answer(sequence)

\* drainThrough: the creation has been seen, then the worker has nothing
\* outstanding, and the create answers.  (What was seen stays seen.)
DrainedThrough(sequence) ==
    sequence \in creating /\ seen >= sequence /\ outstanding = 0 /\ Answer(sequence)

-----------------------------------------------------------------------------
(* The reactor.                                                             *)

Deliver ==
    /\ seen = delivered /\ delivered < Len(log)
    /\ delivered' = delivered + 1
    /\ IF log[delivered + 1] = "deleted"
       THEN deletions' = Append(deletions, delivered + 1) /\ outstanding' = outstanding + 1
       ELSE UNCHANGED <<deletions, outstanding>>
    /\ UNCHANGED <<terminalVars, clientVars, seen, cleaning>>

\* Faulty variant: only what the worker was given is noted.
NoteDeletion ==
    /\ seen < delivered
    /\ seen' = IF log[delivered] = "deleted" THEN delivered ELSE seen
    /\ UNCHANGED <<terminalVars, clientVars, delivered, deletions, outstanding, cleaning>>

NoteSeen ==
    /\ seen < delivered
    /\ seen' = delivered
    /\ UNCHANGED <<terminalVars, clientVars, delivered, deletions, outstanding, cleaning>>

\* Faulty variant: the count says what is queued, not what is unfinished.
TakeDeletionOff ==
    /\ cleaning = NotCleaning /\ deletions # <<>>
    /\ cleaning' = [at |-> "provider", sequence |-> Head(deletions)]
    /\ deletions' = Tail(deletions) /\ outstanding' = outstanding - 1
    /\ UNCHANGED <<terminalVars, clientVars, delivered, seen>>

TakeDeletion ==
    /\ cleaning = NotCleaning /\ deletions # <<>>
    /\ cleaning' = [at |-> "provider", sequence |-> Head(deletions)]
    /\ deletions' = Tail(deletions)
    /\ UNCHANGED <<terminalVars, clientVars, delivered, seen, outstanding>>

\* Whatever provider session the thread has is stopped; one that cannot be is
\* logged.  Then come the terminals.
StopProviderSession ==
    /\ cleaning.at = "provider"
    /\ cleaning' = [cleaning EXCEPT !.at = "terminals"]
    /\ UNCHANGED <<terminalVars, clientVars, delivered, seen, deletions, outstanding>>

CloseTerminals ==
    /\ cleaning.at = "terminals"
    /\ cleaning' = [cleaning EXCEPT !.at = "closing"]
    /\ Close("cleanUp", WithSession, Terminals)
    /\ UNCHANGED <<clientVars, delivered, seen, deletions, outstanding>>

CleaningDone ==
    /\ cleaning.at = "closing" /\ operation.kind # "cleanUp"
    /\ cleaning' = NotCleaning /\ outstanding' = outstanding - 1
    /\ UNCHANGED <<terminalVars, clientVars, delivered, seen, deletions>>

-----------------------------------------------------------------------------
(* Clients, the terminals, and the end of the process.                      *)

\* Deletions whose clean-up is to come or under way.
Unfinished ==
    {n \in 1..Len(log) :
        /\ log[n] = "deleted"
        /\ \/ n > delivered \/ cleaning.sequence = n
           \/ \E i \in DOMAIN deletions : deletions[i] = n}

\* A client works for an incarnation from the answer to its create on.  These are
\* the ones that live, or whose clean-up has not closed the terminals yet.
InUse == {i \in returned : \/ Exists /\ i = Incarnation(Len(log))
                           \/ \E n \in Unfinished : Incarnation(n) = i /\ (n = cleaning.sequence => cleaning.at # "closing")}

\* No request is refused for its thread, so that one sent by a client that has not
\* heard of the deletion may come after the clean-up, and for the next thread.
UseTerminal ==
    /\ \E t \in Terminals, i \in returned :
        \/ StartRequest(t, i) /\ late' = late \cup (IF i \in InUse THEN {} ELSE {t})
        \/ CloseRequest(t) /\ UNCHANGED late
    /\ UNCHANGED <<reactorVars, log, creating, returned>>

TerminalsWork ==
    /\ TerminalStep
    /\ UNCHANGED <<reactorVars, clientVars>>

\* The log stays.  The stream is not replayed: the watermark starts at its head,
\* and a clean-up that was not finished never is.
Restart ==
    /\ TerminalCrash(IF delivered = Len(log) /\ outstanding = 0 THEN {} ELSE Terminals)
    /\ delivered' = Len(log) /\ seen' = Len(log)
    /\ deletions' = <<>> /\ outstanding' = 0 /\ cleaning' = NotCleaning
    /\ creating' = {}
    /\ returned' = returned \cup (IF Exists THEN {Incarnation(Len(log))} ELSE {})
    /\ UNCHANGED <<log, late>>

Next ==
    \/ CreateThread \/ DeleteThread \/ \E sequence \in creating : DrainedThrough(sequence)
    \/ Deliver \/ NoteSeen \/ TakeDeletion \/ StopProviderSession \/ CloseTerminals \/ CleaningDone
    \/ UseTerminal \/ TerminalsWork \/ Restart

\* Fibers are scheduled; a process need not print or exit.
PersistRuns == (PersistTake \/ PersistWrite)
               /\ UNCHANGED <<reactorVars, clientVars>>
OperationRuns == (OpenRead \/ RestartFlushed \/ Spawn \/ CloseNext \/ CloseFlushed \/ CloseEnds)
                 /\ UNCHANGED <<reactorVars, clientVars>>

Spec == Init /\ [][Next]_vars
        /\ WF_vars(Deliver \/ NoteSeen)
        /\ WF_vars(TakeDeletion \/ StopProviderSession \/ CleaningDone)
        /\ SF_vars(CloseTerminals)
        /\ WF_vars(\E sequence \in creating : DrainedThrough(sequence))
        /\ WF_vars(PersistRuns) /\ WF_vars(OperationRuns)

-----------------------------------------------------------------------------
(* Properties                                                               *)

\* The state has its types, and the worker counts what it has not finished.
TypeOK ==
    /\ TerminalTypeOK
    /\ log \in Seq({"created", "deleted"})
    /\ seen \in 0..delivered /\ delivered \in 0..Len(log)
    /\ \A i \in DOMAIN deletions : deletions[i] \in 1..delivered
    /\ outstanding = Len(deletions) + (IF cleaning = NotCleaning THEN 0 ELSE 1)
    /\ creating \subseteq 1..Len(log)
    /\ returned \subseteq 1..Incarnation(Len(log)) /\ late \subseteq Terminals

\* drainThrough is a fence: no client works for an incarnation while the clean-up
\* of an earlier one is to come or under way, so that no clean-up stops a
\* provider session or a terminal of a later one.
CleanUpSparesNext ==
    \A n \in Unfinished : \A i \in returned : i <= Incarnation(n)

\* The sessions, files and outstanding writes of a terminal are of these
\* incarnations.
Belongs(t, incarnations) ==
    /\ \A o \in References(t) :
        /\ objects[o].owner \in incarnations
        /\ \A k \in DOMAIN objects[o].history : objects[o].history[k] \in incarnations
    /\ files[t] # NoFile => \A k \in DOMAIN files[t] : files[t][k] \in incarnations

\* A session shows the lines of its own incarnation only, and once the create of
\* a thread has answered, nothing its terminals show, keep in files or have yet to
\* write is of an earlier thread.  Excepted are terminals whose history an
\* eviction, a refused write or removal or a crash left behind, and those that a
\* client started for a thread whose clean-up was over.
NoInheritedHistory ==
    \A t \in Terminals \ (forgotten \cup late) :
        /\ sessions[t] # 0 =>
            LET object == objects[sessions[t]]
            IN  \A k \in DOMAIN object.history : object.history[k] = object.owner
        /\ Exists /\ Incarnation(Len(log)) \in returned => Belongs(t, {Incarnation(Len(log))})

\* A thread.create is answered, unless the server ends first or a process that
\* belongs to no session goes on printing.
CreateReturns == creating # {} ~> creating = {} \/ Orphans # {}

-----------------------------------------------------------------------------
(* The inductive invariant behind the safety properties.                    *)

\* The types TypeOK leaves out, and what sequences stand for.
ReactorTypeOK ==
    /\ deletions \in Seq(Nat) /\ outstanding \in Nat /\ delivered \in Nat /\ seen \in Nat
    /\ cleaning \in {NotCleaning} \cup [at: {"provider", "terminals", "closing"}, sequence: 1..delivered]
    /\ \A n \in creating : log[n] = "created"
    /\ operation.kind = "cleanUp" => cleaning.at = "closing" /\ operation.deleted = Terminals

\* The incarnations whose clean-up is not over: at most one, as CleanUpSparesNext
\* implies.
Users == {i \in returned : \/ Exists /\ i = Incarnation(Len(log))
                           \/ \E n \in Unfinished : Incarnation(n) = i}

\* Whatever a terminal holds is of an incarnation whose clean-up is still to come;
\* once the clean-up has closed the terminals, of one that may still be used.
ContentBelongs ==
    /\ operation \in Works /\ operation.terminal \notin late => operation.owner \in InUse
    /\ \A t \in Terminals \ (forgotten \cup late) :
        /\ Belongs(t, Users)
        /\ cleaning.at = "closing" /\ operation.kind # "cleanUp" => Belongs(t, InUse)

IInv ==
    /\ TypeOK /\ ReactorTypeOK
    /\ TerminalInv
    /\ CleanUpSparesNext
    /\ ContentBelongs
=============================================================================
