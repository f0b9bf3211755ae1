--------------------------- MODULE TerminalManager ---------------------------
(***************************************************************************)
(* The terminals of one thread: apps/server/src/terminal/Manager.ts.       *)
(*                                                                         *)
(* A session object holds a terminal's process and history; a map says     *)
(* which object is the terminal's.  Open, restart and close hold the       *)
(* thread's lock, stop processes, and wait for the persist worker (a       *)
(* KeyedCoalescingWorker) to write the history.  The worker gets the       *)
(* object, not its text, and writes what the history is by then.           *)
(*                                                                         *)
(* A line of output is the incarnation of the thread its process was       *)
(* started for.  The listeners of terminal events never wait, so a process *)
(* event is handled in one step.  Killing, resizing and the polling of     *)
(* subprocesses are left out.                                              *)
(***************************************************************************)
EXTENDS Naturals, Sequences, FiniteSets

CONSTANTS
    Terminals,
    HistoryLimit,   \* lines kept
    MaxObjects,     \* bound: session objects of a run of the server
    MaxFaults       \* bound: failing writes and removals, and ends of the server

ASSUME TerminalAssumption ==
    /\ HistoryLimit \in Nat \ {0}
    /\ MaxObjects \in Nat /\ MaxFaults \in Nat

NoRequest == 0
NoFile == <<0>>

VARIABLES
    objects,      \* the session objects, by number; 0 is none.  Of a status
                  \* it only matters whether it is "running"
    sessions,     \* the object of each terminal
    files,        \* history files
    operation,    \* the holder of the thread lock
    latest, queuedKeys, activeKeys, queue, fiber,   \* persistWorker
    faults,
    shown,        \* history: the last object of a terminal, for its next one
    abandoned,    \* history: objects evicted while an operation worked on them
    forgotten     \* history: terminals whose session was evicted while an
                  \* operation worked on it, whose history was deleted while
                  \* an evicted session's was to be written, and those whose
                  \* history a failed write, removal or a crash made wrong

persistVars == <<latest, queuedKeys, activeKeys, queue, fiber>>
sessionVars == <<objects, sessions>>
terminalVars == <<sessionVars, files, operation, persistVars, faults, shown, abandoned, forgotten>>

\* options.merge of the persist worker: a request is the object to write.  That
\* either asked for no debounce is a matter of time.
MergeRequests(current, next) == next

Persist == INSTANCE KeyedCoalescingWorker WITH
    Keys <- Terminals, NoValue <- NoRequest, Merge <- MergeRequests

NoOperation == [kind |-> "none", at |-> "none"]

TerminalInit ==
    /\ objects = <<>> /\ sessions = [t \in Terminals |-> 0]
    /\ files = [t \in Terminals |-> NoFile]
    /\ operation = NoOperation
    /\ Persist!Init
    /\ faults = 0
    /\ shown = [t \in Terminals |-> 0] /\ abandoned = {} /\ forgotten = {}

-----------------------------------------------------------------------------
(* Session objects and their eviction.                                      *)

NewObject(t, owner, history) ==
    Append(objects, [terminal |-> t, owner |-> owner, history |-> history, running |-> FALSE])

Set(o, running, history) ==
    objects' = [objects EXCEPT ![o].running = running, ![o].history = history]

Line(o) == LET lines == Append(objects[o].history, objects[o].owner)
           IN  IF Len(lines) > HistoryLimit THEN Tail(lines) ELSE lines

\* drainProcessEvents, an output event.
Output(o) ==
    /\ o \in 1..Len(objects) /\ objects[o].running
    /\ Set(o, TRUE, Line(o))
    /\ Persist!Enqueue(objects[o].terminal, o)
    /\ UNCHANGED <<sessions, files, operation, faults, shown, abandoned, forgotten>>

\* drainProcessEvents, the exit event.
ProcessExits(o) ==
    /\ o \in 1..Len(objects) /\ objects[o].running
    /\ Set(o, FALSE, objects[o].history)
    /\ UNCHANGED <<sessions, files, operation, persistVars, faults, shown, abandoned, forgotten>>

\* evictInactiveSessionsIfNeeded: of the sessions that do not run, the server keeps
\* the newest of all threads.  As terminals of other threads exit, one that does
\* not run may leave the map at any time, whatever goes on with it.
Evict(t) ==
    /\ sessions[t] # 0 /\ ~objects[sessions[t]].running
    /\ sessions' = [sessions EXCEPT ![t] = 0]
    /\ IF operation.kind \in {"open", "restart"} /\ operation.terminal = t
       THEN abandoned' = abandoned \cup {operation.object} /\ forgotten' = forgotten \cup {t}
       ELSE UNCHANGED <<abandoned, forgotten>>
    /\ UNCHANGED <<objects, files, operation, persistVars, faults, shown>>

-----------------------------------------------------------------------------
(* The persist worker.                                                      *)

PersistTake == (Persist!Take \/ Persist!Look \/ Persist!Requeue)
               /\ UNCHANGED <<sessionVars, files, operation, faults, shown, abandoned, forgotten>>

\* The debounce has passed and the file is written.
PersistWrite ==
    /\ Persist!Finish
    /\ files' = [files EXCEPT ![fiber.key] = objects[fiber.value].history]
    /\ UNCHANGED <<sessionVars, operation, faults, shown, abandoned, forgotten>>

\* The write is refused, which is logged: to the worker it is done.
PersistRefused ==
    /\ faults < MaxFaults
    /\ Persist!Finish
    /\ faults' = faults + 1 /\ forgotten' = forgotten \cup {fiber.key}
    /\ UNCHANGED <<sessionVars, files, operation, shown, abandoned>>

\* The write dies of something that is no platform error.
PersistDies ==
    /\ faults < MaxFaults
    /\ Persist!Fail
    /\ faults' = faults + 1 /\ forgotten' = forgotten \cup {fiber.key}
    /\ UNCHANGED <<sessionVars, files, operation, shown, abandoned>>

-----------------------------------------------------------------------------
(* Operations under the thread lock.  Each begins with a step that stops    *)
(* processes and queues the history, waits for the worker, and goes on.     *)

Work(kind, t, o, owner, at) ==
    [kind |-> kind, terminal |-> t, object |-> o, owner |-> owner, at |-> at]

CloseWork(kind, terminals, closed, deleted) ==
    [kind |-> kind, terminals |-> terminals, closed |-> closed, deleted |-> deleted, at |-> "next"]

FlushWork(t) ==
    [kind |-> operation.kind, terminals |-> operation.terminals, closed |-> operation.closed,
     deleted |-> operation.deleted, terminal |-> t, at |-> "flush"]

Flushed ==
    CloseWork(operation.kind, operation.terminals,
              operation.closed \cup {operation.terminal}, operation.deleted)

\* The terminal has no session: its file is read, once nothing is to be written.
OpenWithoutSession(t, owner) ==
    /\ operation = NoOperation /\ sessions[t] = 0 /\ Len(objects) < MaxObjects
    /\ operation' = Work("open", t, 0, owner, "read")
    /\ UNCHANGED <<sessionVars, files, persistVars, faults, shown, abandoned, forgotten>>

\* Faulty variant: the file is read while a write of it may be outstanding.
OpenReadUnflushed ==
    /\ operation.kind = "open" /\ operation.at = "read"
    /\ LET t == operation.terminal
           o == Len(objects) + 1
       IN  /\ objects' = NewObject(t, operation.owner, IF files[t] = NoFile THEN <<>> ELSE files[t])
           /\ shown' = [shown EXCEPT ![t] = o]
           /\ operation' = [operation EXCEPT !.at = "spawn", !.object = o]
           /\ sessions' = [sessions EXCEPT ![t] = o]
    /\ UNCHANGED <<files, persistVars, faults, abandoned, forgotten>>

OpenRead ==
    /\ operation.kind = "open" /\ operation.at = "read"
    /\ Persist!Drained(operation.terminal)
    /\ LET t == operation.terminal
           o == Len(objects) + 1
       IN  /\ objects' = NewObject(t, operation.owner, IF files[t] = NoFile THEN <<>> ELSE files[t])
           /\ shown' = [shown EXCEPT ![t] = o]
           /\ operation' = [operation EXCEPT !.at = "spawn", !.object = o]
           /\ sessions' = [sessions EXCEPT ![t] = o]
    /\ UNCHANGED <<files, persistVars, faults, abandoned, forgotten>>

\* Opening an exited session, and restarting any: the history starts afresh.
\* A running process is stopped.
ClearAndRestart(t, owner) ==
    /\ operation = NoOperation /\ sessions[t] # 0
    /\ LET o == sessions[t]
       IN  /\ objects' = [objects EXCEPT ![o].running = FALSE, ![o].history = <<>>, ![o].owner = owner]
           /\ operation' = Work("restart", t, o, owner, "flush")
           /\ Persist!Enqueue(t, o)
    /\ UNCHANGED <<sessions, files, faults, shown, abandoned, forgotten>>

RestartWithoutSession(t, owner) ==
    /\ operation = NoOperation /\ sessions[t] = 0 /\ Len(objects) < MaxObjects
    /\ LET o == Len(objects) + 1
       IN  /\ objects' = NewObject(t, owner, <<>>)
           /\ shown' = [shown EXCEPT ![t] = o]
           /\ operation' = Work("restart", t, o, owner, "flush")
           /\ Persist!Enqueue(t, o)
           /\ sessions' = [sessions EXCEPT ![t] = o]
    /\ UNCHANGED <<files, faults, abandoned, forgotten>>

RestartFlushed ==
    /\ operation.kind = "restart" /\ operation.at = "flush"
    /\ Persist!Drained(operation.terminal)
    /\ operation' = [operation EXCEPT !.at = "spawn"]
    /\ UNCHANGED <<sessionVars, files, persistVars, faults, shown, abandoned, forgotten>>

\* startSession: the object's process is started, or fails to.  The object may
\* have left the map meanwhile.
Spawn ==
    /\ operation.kind \in {"open", "restart"} /\ operation.at = "spawn"
    /\ \E running \in BOOLEAN : Set(operation.object, running, objects[operation.object].history)
    /\ operation' = NoOperation
    /\ UNCHANGED <<sessions, files, persistVars, faults, shown, abandoned, forgotten>>

\* close, of one terminal or of all that have a session; deleted: whose history
\* is.
Close(kind, terminals, deleted) ==
    /\ operation = NoOperation
    /\ operation' = CloseWork(kind, terminals, {}, deleted)
    /\ UNCHANGED <<sessionVars, files, persistVars, faults, shown, abandoned, forgotten>>

WithSession == {t \in Terminals : sessions[t] # 0}

Closing == operation.kind \in {"close", "cleanUp"}

\* Faulty variant: the process is left to the end of its terminal.
CloseNextUnstopped ==
    /\ Closing /\ operation.at = "next"
    /\ \E t \in operation.terminals \ operation.closed :
        /\ operation' = FlushWork(t)
        /\ IF sessions[t] = 0 THEN UNCHANGED persistVars ELSE Persist!Enqueue(t, sessions[t])
    /\ UNCHANGED <<objects, sessions, files, faults, shown, abandoned, forgotten>>

\* closeSession: the process is stopped and the last history queued.
CloseNext ==
    /\ Closing /\ operation.at = "next"
    /\ \E t \in operation.terminals \ operation.closed :
        /\ operation' = FlushWork(t)
        /\ IF sessions[t] = 0
           THEN UNCHANGED <<objects, persistVars>>
           ELSE Set(sessions[t], FALSE, objects[sessions[t]].history) /\ Persist!Enqueue(t, sessions[t])
    /\ UNCHANGED <<sessions, files, faults, shown, abandoned, forgotten>>

\* Faulty variant: the session goes, and its history is deleted, while the
\* worker may still hold it.
CloseFlushedEarly ==
    /\ Closing /\ operation.at = "flush"
    /\ LET t == operation.terminal
       IN  /\ sessions' = [sessions EXCEPT ![t] = 0]
           /\ operation' = Flushed
    /\ UNCHANGED <<objects, files, persistVars, faults, shown, abandoned, forgotten>>

CloseFlushed ==
    /\ Closing /\ operation.at = "flush"
    /\ Persist!Drained(operation.terminal)
    /\ LET t == operation.terminal
       IN  /\ sessions' = [sessions EXCEPT ![t] = 0]
           /\ operation' = Flushed
    /\ UNCHANGED <<objects, files, persistVars, faults, shown, abandoned, forgotten>>

\* deleteHistory of the terminal that was closed, or deleteAllHistoryForThread.  A
\* file that cannot be removed stays, with a warning.
CloseEnds ==
    /\ Closing /\ operation.at = "next" /\ operation.terminals \subseteq operation.closed
    /\ \E kept \in SUBSET operation.deleted :
        /\ kept # {} => faults < MaxFaults
        /\ faults' = faults + (IF kept = {} THEN 0 ELSE 1)
        /\ files' = [t \in Terminals |-> IF t \in operation.deleted \ kept THEN NoFile ELSE files[t]]
        /\ forgotten' = forgotten \cup kept \cup
               {t \in operation.deleted \ operation.closed : ~Persist!Drained(t)}
    /\ shown' = [t \in Terminals |-> IF t \in operation.deleted THEN 0 ELSE shown[t]]
    /\ operation' = NoOperation
    /\ UNCHANGED <<sessionVars, persistVars, abandoned>>

\* The process of the server ends: only the files stay.
TerminalCrash(lost) ==
    /\ faults < MaxFaults /\ faults' = faults + 1
    /\ objects' = <<>> /\ sessions' = [t \in Terminals |-> 0]
    /\ operation' = NoOperation
    /\ Persist!Restart
    /\ shown' = [t \in Terminals |-> 0] /\ abandoned' = {}
    /\ forgotten' = forgotten \cup lost
    /\ UNCHANGED files

\* What happens without a client or the clean-up asking for it.
TerminalStep ==
    \/ \E o \in 1..Len(objects) : Output(o) \/ ProcessExits(o)
    \/ \E t \in Terminals : Evict(t)
    \/ PersistTake \/ PersistWrite \/ PersistRefused \/ PersistDies
    \/ OpenRead \/ RestartFlushed \/ Spawn \/ CloseNext \/ CloseFlushed \/ CloseEnds

\* What a client asks for: a process, on behalf of an incarnation of the thread,
\* or the end of one.
StartRequest(t, incarnation) ==
    \/ OpenWithoutSession(t, incarnation) \/ RestartWithoutSession(t, incarnation)
    \/ ClearAndRestart(t, incarnation)
CloseRequest(t) ==
    \/ Close("close", {t}, {}) \/ Close("close", {t}, {t})
    \/ Close("close", WithSession, {}) \/ Close("close", WithSession, Terminals)

-----------------------------------------------------------------------------
(* Properties                                                               *)

Incarnations == Nat \ {0}

Objects == [terminal: Terminals, owner: Incarnations, history: Seq(Incarnations), running: BOOLEAN]

TerminalTypeOK ==
    /\ objects \in Seq(Objects)
    /\ sessions \in [Terminals -> 0..Len(objects)]
    /\ files \in [Terminals -> Seq(Incarnations) \cup {NoFile}]
    /\ latest \in [Terminals -> 0..Len(objects)]
    /\ shown \in [Terminals -> 0..Len(objects)]
    /\ abandoned \subseteq 0..Len(objects) /\ forgotten \subseteq Terminals

\* A terminal that is opened again without having been deleted shows what it
\* showed last: the history of a closed or evicted session is written before
\* the file is read.
ReopenedInFull ==
    [][\A t \in Terminals \ forgotten :
        operation.kind = "open" /\ operation.at = "read" /\ shown[t] # 0
            /\ sessions'[t] \notin {0, sessions[t]}
        => objects'[sessions'[t]].history = objects[shown[t]].history]_terminalVars

Orphans == {o \in 1..Len(objects) :
               objects[o].running /\ sessions[objects[o].terminal] # o}

\* Every running process belongs to the session of its terminal, so that closing
\* the thread stops it, unless the session was evicted while this very process was
\* being started.
NoOrphanProcess == Orphans \subseteq abandoned

\* No key of the persist worker is stranded.
HistoriesGetWritten == Persist!NothingStranded

-----------------------------------------------------------------------------
(* The inductive invariant behind these properties.                         *)

Works == [kind: {"open"}, terminal: Terminals, object: 0..Len(objects), owner: Incarnations,
          at: {"read", "spawn"}]
    \cup [kind: {"restart"}, terminal: Terminals, object: 0..Len(objects), owner: Incarnations,
          at: {"flush", "spawn"}]
Closings == [kind: {"close", "cleanUp"}, terminals: SUBSET Terminals, closed: SUBSET Terminals,
             deleted: SUBSET Terminals, at: {"next"}]
       \cup [kind: {"close", "cleanUp"}, terminals: SUBSET Terminals, closed: SUBSET Terminals,
             deleted: SUBSET Terminals, terminal: Terminals, at: {"flush"}]
Fibers == {Persist!Idle} \cup [at: {"taken", "requeueing"}, key: Terminals]
          \cup [at: {"processing"}, key: Terminals, value: 1..Len(objects)]

\* The types TerminalTypeOK leaves out.
WorkTypeOK ==
    /\ operation \in {NoOperation} \cup Works \cup Closings
    /\ queuedKeys \subseteq Terminals /\ activeKeys \subseteq Terminals /\ queue \in Seq(Terminals)
    /\ fiber \in Fibers
    /\ faults \in Nat

BeingWritten(t) == fiber.at = "processing" /\ fiber.key = t

\* The objects a terminal's history may still be written from.
References(t) == ({sessions[t], latest[t]} \cup (IF BeingWritten(t) THEN {fiber.value} ELSE {})) \ {0}

\* A session, and a write, is of an object of that terminal.  The object an
\* operation works on has no process yet, and is the session, unless it was
\* evicted meanwhile.
SessionsOwned ==
    /\ \A t \in Terminals : \A o \in References(t) \cup ({shown[t]} \ {0}) : objects[o].terminal = t
    /\ operation \in Works =>
        IF operation.at = "read" THEN sessions[operation.terminal] = 0
        ELSE /\ operation.object # 0
             /\ objects[operation.object].terminal = operation.terminal
             /\ ~objects[operation.object].running
             /\ operation.object \notin abandoned => sessions[operation.terminal] = operation.object

\* What an abandoned object prints may reach the history of its terminal.
AbandonedForgotten == \A o \in abandoned \ {0} : objects[o].terminal \in forgotten

\* A terminal that is being closed has no process any more; one that is closed, or
\* had nothing to close, has no session, and the worker has no write for it.
ClosingProgress ==
    operation \in Closings =>
        /\ operation.at = "flush" =>
               LET o == sessions[operation.terminal] IN o # 0 => ~objects[o].running
        /\ \A t \in (operation.deleted \ operation.terminals) \cup operation.closed : sessions[t] = 0
        /\ \A t \in operation.closed \ forgotten : Persist!Drained(t)

FileHistory(t) == IF files[t] = NoFile THEN <<>> ELSE files[t]

\* What a terminal showed last is in its file, or the worker will write it there,
\* after anything older.
LastShownIsKept ==
    \A t \in Terminals \ forgotten :
        /\ sessions[t] \in {0, shown[t]} /\ latest[t] \in {0, shown[t]}
        /\ BeingWritten(t) => shown[t] # 0 /\ shown[t] \in {fiber.value, latest[t]}
        /\ shown[t] # 0 =>
            \/ latest[t] = shown[t]
            \/ BeingWritten(t) /\ fiber.value = shown[t]
            \/ FileHistory(t) = objects[shown[t]].history

TerminalInv ==
    /\ TerminalTypeOK /\ WorkTypeOK
    /\ HistoriesGetWritten
    /\ SessionsOwned /\ AbandonedForgotten /\ NoOrphanProcess /\ ClosingProgress
    /\ LastShownIsKept
=============================================================================
