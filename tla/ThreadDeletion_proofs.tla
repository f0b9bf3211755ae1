------------------------ MODULE ThreadDeletion_proofs ------------------------
(***************************************************************************)
(* TLAPS proofs about deleting a thread and creating it again: for any     *)
(* number of terminals, session objects, faults and events of the thread.  *)
(*                                                                         *)
(* IInv of ThreadDeletion is inductive.  TerminalManager_proofs shows its  *)
(* part about the terminals; what is added here is that the clean-up of a  *)
(* deletion is over before a client works for a later incarnation, and     *)
(* that what a terminal holds is of an incarnation that clean-up is still  *)
(* to come for.                                                            *)
(***************************************************************************)
EXTENDS ThreadDeletion, TerminalManager_proofs, FiniteSetTheorems

-----------------------------------------------------------------------------
(* Incarnations.                                                            *)

LEMMA IncarnationType ==
    ASSUME NEW n \in Nat
    PROVE  /\ IsFiniteSet({m \in 1..n : log[m] = "created"})
           /\ Incarnation(n) \in Nat
<1>1. IsFiniteSet(1..n)
  BY FS_Interval
<1>2. {m \in 1..n : log[m] = "created"} \subseteq 1..n
  OBVIOUS
<1>3. IsFiniteSet({m \in 1..n : log[m] = "created"})
  BY <1>1, <1>2, FS_Subset
<1> QED
  BY <1>3, FS_CardinalityType DEF Incarnation

LEMMA IncarnationsGrow ==
    ASSUME NEW n \in Nat, NEW m \in 0..n
    PROVE  Incarnation(m) <= Incarnation(n)
<1>1. {k \in 1..m : log[k] = "created"} \subseteq {k \in 1..n : log[k] = "created"}
  OBVIOUS
<1>2. IsFiniteSet({k \in 1..n : log[k] = "created"})
  BY IncarnationType
<1> QED
  BY <1>1, <1>2, FS_Subset DEF Incarnation

LEMMA CreatedIsOne ==
    ASSUME NEW n \in Nat \ {0}, log[n] = "created"
    PROVE  Incarnation(n) >= 1
<1> DEFINE S == {k \in 1..n : log[k] = "created"}
<1>1. n \in S /\ IsFiniteSet(S) /\ Cardinality(S) \in Nat
  BY IncarnationType DEF Incarnation
<1>2. Cardinality(S) # 0
  BY <1>1, FS_EmptySet
<1> QED
  BY <1>1, <1>2 DEF Incarnation

\* The log only grows, and its prefix keeps its incarnations.
LEMMA IncarnationsStay ==
    ASSUME log \in Seq({"created", "deleted"}), NEW event \in {"created", "deleted"},
           log' = Append(log, event)
    PROVE  /\ log' \in Seq({"created", "deleted"}) /\ Len(log') = Len(log) + 1 /\ Len(log) \in Nat
           /\ \A n \in 1..Len(log) : log'[n] = log[n]
           /\ log'[Len(log) + 1] = event
           /\ \A n \in 0..Len(log) : Incarnation(n)' = Incarnation(n)
           /\ Incarnation(Len(log))' = Incarnation(Len(log)) + (IF event = "deleted" THEN 0 ELSE 1)
<1>1. /\ log' \in Seq({"created", "deleted"}) /\ Len(log') = Len(log) + 1 /\ Len(log) \in Nat
      /\ \A n \in 1..Len(log) : log'[n] = log[n]
      /\ log'[Len(log) + 1] = event
  BY AppendProperties
<1>2. \A n \in 0..Len(log) : {m \in 1..n : log'[m] = "created"} = {m \in 1..n : log[m] = "created"}
  BY <1>1
<1>3. CASE event = "deleted"
  <2>1. {m \in 1..Len(log') : log'[m] = "created"} = {m \in 1..Len(log) : log[m] = "created"}
    BY <1>1, <1>3
  <2>2. Incarnation(Len(log)) \in Nat
    BY <1>1, IncarnationType
  <2>3. Incarnation(Len(log))' = Incarnation(Len(log))
    BY <2>1 DEF Incarnation
  <2>4. \A n \in 0..Len(log) : Incarnation(n)' = Incarnation(n)
    BY <1>2 DEF Incarnation
  <2> QED
    BY <1>1, <1>3, <2>2, <2>3, <2>4
<1>4. CASE event = "created"
  <2> DEFINE S == {m \in 1..Len(log) : log[m] = "created"}
  <2>1. {m \in 1..Len(log') : log'[m] = "created"} = S \cup {Len(log) + 1}
    BY <1>1, <1>4
  <2>2. IsFiniteSet(S) /\ Len(log) + 1 \notin S
    BY <1>1, IncarnationType
  <2>3. Cardinality(S \cup {Len(log) + 1}) = Cardinality(S) + 1
    BY <2>2, FS_AddElement
  <2> QED
    BY <2>1, <2>3, <1>1, <1>2, <1>4 DEF Incarnation
<1> QED
  BY <1>3, <1>4

-----------------------------------------------------------------------------
(* Whom the content of a terminal belongs to.                               *)

LEMMA ReferenceTypes ==
    ASSUME TerminalInv, NEW t \in Terminals, NEW o \in References(t)
    PROVE  o \in 1..Len(objects) /\ objects[o].terminal = t
BY InvTypes, Owned DEF References

\* Nothing is added to what the terminal holds.
LEMMA LessBelongs ==
    ASSUME NEW t \in Terminals, NEW S, Belongs(t, S),
           References(t)' \subseteq References(t),
           \A o \in References(t) :
               objects'[o].owner = objects[o].owner /\ objects'[o].history = objects[o].history,
           files'[t] \in {files[t], NoFile}
    PROVE  Belongs(t, S)'
BY DEF Belongs

LEMMA MoreMayUse ==
    ASSUME NEW t \in Terminals, NEW S, NEW R, Belongs(t, S), S \subseteq R
    PROVE  Belongs(t, R)
BY DEF Belongs

\* The worker only passes values on.
LEMMA WorkerPassesOn ==
    ASSUME TerminalInv, sessions' = sessions, NEW t \in Terminals,
           Persist!Take \/ Persist!Look \/ Persist!Requeue \/ Persist!Finish \/ Persist!Fail
    PROVE  References(t)' \subseteq References(t)
<1>1. latest'[t] \in {0, latest[t]}
  BY InvTypes DEF WorkerTypeOK, NoRequest, Persist!Take, Persist!Look, Persist!Requeue,
                  Persist!Finish, Persist!Fail
<1>2. BeingWritten(t)' => fiber'.value = latest[t]
  <2>1. CASE Persist!Take
    BY <2>1 DEF Persist!Take, Persist!Taken, BeingWritten
  <2>2. CASE Persist!Requeue
    BY <2>2 DEF Persist!Requeue, Persist!Idle, BeingWritten
  <2>3. CASE Persist!Look
    BY <2>3 DEF Persist!Look, Persist!Idle, Persist!Processing, BeingWritten
  <2>4. CASE Persist!Finish
    BY <2>4 DEF Persist!Finish, Persist!Idle, Persist!Processing, BeingWritten
  <2>5. CASE Persist!Fail
    BY <2>5 DEF Persist!Fail, Persist!Idle, Persist!Requeueing, BeingWritten
  <2> QED
    BY <2>1, <2>2, <2>3, <2>4, <2>5
<1> QED
  BY <1>1, <1>2 DEF References

\* A line of output is of the object's owner.
LEMMA OutputBelongs ==
    ASSUME TerminalInv, NEW o, Output(o), NEW t \in Terminals \ forgotten, NEW S, Belongs(t, S)
    PROVE  Belongs(t, S)'
<1>1. /\ o \in 1..Len(objects) /\ objects[o].running /\ objects[o].terminal \in Terminals /\ o # 0
      /\ Set(o, TRUE, Line(o)) /\ Persist!Enqueue(objects[o].terminal, o)
      /\ UNCHANGED <<sessions, files>>
  <2>1. TerminalTypeOK /\ o \in 1..Len(objects)
    BY DEF Output, TerminalInv
  <2>2. objects[o].terminal \in Terminals /\ o # 0
    BY <2>1, ObjectTypes
  <2> QED
    BY <2>1, <2>2 DEF Output
<1>2. /\ objects'[o].owner = objects[o].owner /\ objects'[o].history = Line(o)
      /\ \A p \in 1..Len(objects) : p # o => objects'[p] = objects[p]
  <2>1. TerminalTypeOK /\ Line(o) \in Seq(Incarnations)
    BY <1>1, LineHistory DEF TerminalInv
  <2> QED
    BY <1>1, <2>1, SetObject
<1>3. /\ fiber' = fiber
      /\ \A t1 \in Terminals : latest'[t1] = IF t1 = objects[o].terminal THEN o ELSE latest[t1]
  BY <1>1, InvTypes DEF Persist!Enqueue, MergeRequests, WorkerTypeOK
<1>4. CASE objects[o].terminal = t
  <2>1. sessions[t] = o
    BY <1>1, <1>4, RunningIsSession
  <2>2. o \in References(t) /\ References(t)' \subseteq References(t)
    BY <1>1, <1>3, <1>4, <2>1 DEF References, BeingWritten
  <2>3. \A k \in DOMAIN Line(o) : Line(o)[k] \in S
    BY <1>1, <2>2, LineHistory DEF Belongs, TerminalInv
  <2>4. \A p \in References(t) :
            objects'[p].owner \in S /\ \A k \in DOMAIN objects'[p].history : objects'[p].history[k] \in S
    <3> SUFFICES ASSUME NEW p \in References(t)
                 PROVE  objects'[p].owner \in S /\ \A k \in DOMAIN objects'[p].history : objects'[p].history[k] \in S
      OBVIOUS
    <3>1. CASE p = o
      BY <1>2, <2>2, <2>3, <3>1 DEF Belongs
    <3>2. CASE p # o
      BY <1>2, <3>2, ReferenceTypes DEF Belongs
    <3> QED
      BY <3>1, <3>2
  <2> QED
    BY <1>1, <2>2, <2>4 DEF Belongs
<1>5. CASE objects[o].terminal # t
  <2>1. References(t)' \subseteq References(t)
    BY <1>1, <1>3, <1>5 DEF References, BeingWritten
  <2>2. \A p \in References(t) : objects'[p] = objects[p]
    BY <1>2, <1>5, ReferenceTypes
  <2> QED
    BY <1>1, <2>1, <2>2, LessBelongs
<1> QED
  BY <1>4, <1>5

\* A file is written from an object of its terminal.
LEMMA WriteBelongs ==
    ASSUME TerminalInv, PersistWrite, NEW t \in Terminals, NEW S, Belongs(t, S)
    PROVE  Belongs(t, S)'
<1>1. /\ UNCHANGED <<objects, sessions>> /\ Persist!Finish
      /\ files' = [files EXCEPT ![fiber.key] = objects[fiber.value].history]
      /\ files \in [Terminals -> Seq(Incarnations) \cup {NoFile}]
  BY DEF PersistWrite, sessionVars, TerminalInv, TerminalTypeOK
<1>2. References(t)' \subseteq References(t)
  BY <1>1, WorkerPassesOn
<1>3. CASE fiber.key = t
  <2>1. BeingWritten(t) /\ fiber.value \in 1..Len(objects)
    BY <1>1, <1>3, InvTypes DEF Persist!Finish, BeingWritten
  <2>2. fiber.value \in References(t)
    BY <2>1, InvTypes DEF References
  <2> QED
    BY <1>1, <1>2, <1>3, <2>2 DEF Belongs
<1>4. CASE fiber.key # t
  <2>1. files'[t] = files[t]
    BY <1>1, <1>4
  <2> QED
    BY <1>1, <1>2, <2>1, LessBelongs
<1> QED
  BY <1>3, <1>4

\* The session that an open adds is of whom it is opened for, and shows the file.
LEMMA OpenReadBelongs ==
    ASSUME TerminalInv, OpenRead, NEW t \in Terminals, NEW S, Belongs(t, S),
           operation.terminal = t => operation.owner \in S
    PROVE  Belongs(t, S)'
<1> DEFINE o == Len(objects) + 1  opened == operation.terminal
<1>1. /\ opened \in Terminals /\ operation.owner \in Incarnations /\ FileHistory(opened) \in Seq(Incarnations)
      /\ objects' = NewObject(opened, operation.owner, FileHistory(opened))
      /\ sessions' = [sessions EXCEPT ![opened] = o] /\ UNCHANGED <<files, latest, fiber>>
      /\ Len(objects) \in Nat /\ sessions \in [Terminals -> 0..Len(objects)]
  BY OpenReadFacts, InvTypes DEF persistVars, TerminalInv, TerminalTypeOK
<1>2. /\ objects'[o] = [terminal |-> opened, owner |-> operation.owner,
                        history |-> FileHistory(opened), running |-> FALSE]
      /\ \A p \in 1..Len(objects) : objects'[p] = objects[p]
  <2>1. TerminalTypeOK
    BY DEF TerminalInv
  <2> QED
    BY <1>1, <2>1, AddedObject
<1>3. \A p \in References(t) : objects'[p] = objects[p]
  BY <1>2, ReferenceTypes
<1>4. CASE t = opened
  <2>1. References(t)' \subseteq References(t) \cup {o}
    BY <1>1, <1>4 DEF References, BeingWritten
  <2>2. \A k \in DOMAIN FileHistory(t) : FileHistory(t)[k] \in S
    BY DEF Belongs, FileHistory
  <2>3. objects'[o].owner \in S /\ \A k \in DOMAIN objects'[o].history : objects'[o].history[k] \in S
    BY <1>2, <1>4, <2>2
  <2> QED
    BY <1>1, <1>3, <2>1, <2>3 DEF Belongs
<1>5. CASE t # opened
  <2>1. References(t)' \subseteq References(t)
    BY <1>1, <1>5 DEF References, BeingWritten
  <2> QED
    BY <1>1, <1>3, <2>1, LessBelongs
<1> QED
  BY <1>4, <1>5

\* What happens without being asked for brings nothing of anybody else.
LEMMA StepBelongs ==
    ASSUME TerminalInv, TerminalStep, NEW t \in Terminals \ forgotten, NEW S,
           operation \in Works /\ operation.terminal = t => operation.owner \in S, Belongs(t, S)
    PROVE  Belongs(t, S)'
<1>1. CASE \E o \in 1..Len(objects) : Output(o)
  BY <1>1, OutputBelongs
<1>2. CASE PersistWrite
  BY <1>2, WriteBelongs
<1>3. CASE OpenRead
  BY <1>3, OpenReadFacts, OpenReadBelongs
<1>4. CASE \E o \in 1..Len(objects) : ProcessExits(o)
  <2>1. PICK o \in 1..Len(objects) : ProcessExits(o)
    BY <1>4
  <2>2. /\ UNCHANGED <<sessions, files, latest, fiber>>
        /\ \A p \in 1..Len(objects) :
              objects'[p].owner = objects[p].owner /\ objects'[p].history = objects[p].history
    <3>1. TerminalTypeOK /\ Set(o, FALSE, objects[o].history)
      BY <2>1 DEF ProcessExits, TerminalInv
    <3>2. objects[o].history \in Seq(Incarnations)
      BY <3>1, ObjectTypes
    <3> QED
      BY <2>1, <3>1, <3>2, SetObject DEF ProcessExits, persistVars
  <2> QED
    BY <2>2, LessBelongs, ReferenceTypes DEF References, BeingWritten
<1>5. CASE \E t1 \in Terminals : Evict(t1)
  <2>1. sessions'[t] \in {0, sessions[t]} /\ UNCHANGED <<objects, files, latest, fiber>>
    BY <1>5 DEF Evict, persistVars, TerminalInv, TerminalTypeOK
  <2> QED
    BY <2>1, LessBelongs DEF References, BeingWritten
<1>6. CASE PersistTake \/ PersistRefused \/ PersistDies
  <2>1. /\ UNCHANGED <<objects, sessions, files>>
        /\ Persist!Take \/ Persist!Look \/ Persist!Requeue \/ Persist!Finish \/ Persist!Fail
    BY <1>6 DEF PersistTake, PersistRefused, PersistDies, sessionVars
  <2>2. References(t)' \subseteq References(t)
    BY <2>1, WorkerPassesOn
  <2> QED
    BY <2>1, <2>2, LessBelongs
<1>7. CASE RestartFlushed
  <2>1. UNCHANGED <<objects, sessions, files, latest, fiber>>
    BY <1>7 DEF RestartFlushed, sessionVars, persistVars
  <2> QED
    BY <2>1, LessBelongs DEF References, BeingWritten
<1>8. CASE Spawn
  <2> DEFINE o == operation.object
  <2>1. TerminalTypeOK /\ o \in 1..Len(objects) /\ UNCHANGED <<sessions, files, latest, fiber>>
    <3>1. operation \in Works /\ operation.at # "read" /\ o \in 0..Len(objects)
      BY <1>8, Kinds DEF Spawn, TerminalInv
    <3> QED
      BY <1>8, <3>1 DEF Spawn, TerminalInv, SessionsOwned, persistVars
  <2>2. PICK running \in BOOLEAN : Set(o, running, objects[o].history)
    BY <1>8 DEF Spawn
  <2>3. \A p \in 1..Len(objects) :
            objects'[p].owner = objects[p].owner /\ objects'[p].history = objects[p].history
    <3>1. objects[o].history \in Seq(Incarnations)
      BY <2>1, ObjectTypes
    <3> QED
      BY <2>1, <2>2, <3>1, SetObject
  <2> QED
    BY <2>1, <2>3, LessBelongs, ReferenceTypes DEF References, BeingWritten
<1>9. CASE CloseNext
  <2>1. PICK t1 \in operation.terminals \ operation.closed :
        IF sessions[t1] = 0
        THEN UNCHANGED <<objects, persistVars>>
        ELSE Set(sessions[t1], FALSE, objects[sessions[t1]].history) /\ Persist!Enqueue(t1, sessions[t1])
    BY <1>9 DEF CloseNext
  <2>2. t1 \in Terminals /\ UNCHANGED <<sessions, files>>
    BY <1>9, <2>1, Kinds DEF CloseNext, TerminalInv
  <2>3. CASE sessions[t1] = 0
    BY <2>1, <2>2, <2>3, LessBelongs DEF References, BeingWritten, persistVars
  <2>4. CASE sessions[t1] # 0
    <3>1. TerminalTypeOK /\ sessions[t1] \in 1..Len(objects)
      BY <2>2, <2>4, InvTypes DEF TerminalInv
    <3>2. \A p \in 1..Len(objects) :
            objects'[p].owner = objects[p].owner /\ objects'[p].history = objects[p].history
      <4>1. objects[sessions[t1]].history \in Seq(Incarnations)
        BY <3>1, ObjectTypes
      <4> QED
        BY <2>1, <2>4, <3>1, <4>1, SetObject, ZenonT(60)
    <3>3. fiber' = fiber /\ latest'[t] \in {latest[t], sessions[t]}
      BY <2>1, <2>2, <2>4, InvTypes DEF Persist!Enqueue, MergeRequests, WorkerTypeOK
    <3> QED
      BY <2>2, <3>2, <3>3, LessBelongs, ReferenceTypes DEF References, BeingWritten
  <2> QED
    BY <2>3, <2>4
<1>10. CASE CloseFlushed
  <2>1. sessions'[t] \in {0, sessions[t]} /\ UNCHANGED <<objects, files, latest, fiber>>
    BY <1>10 DEF CloseFlushed, persistVars, TerminalInv, TerminalTypeOK
  <2> QED
    BY <2>1, LessBelongs DEF References, BeingWritten
<1>11. CASE CloseEnds
  <2>1. files'[t] \in {files[t], NoFile} /\ UNCHANGED <<objects, sessions, latest, fiber>>
    BY <1>11 DEF CloseEnds, persistVars, sessionVars
  <2> QED
    BY <2>1, LessBelongs DEF References, BeingWritten
<1> QED
  BY <1>1, <1>2, <1>3, <1>4, <1>5, <1>6, <1>7, <1>8, <1>9, <1>10, <1>11 DEF TerminalStep

\* What is started on behalf of an incarnation brings that one only, and only to
\* its terminal.
LEMMA RequestBelongs ==
    ASSUME TerminalInv, NEW t \in Terminals, NEW S, NEW t1 \in Terminals, NEW owner \in Incarnations,
           StartRequest(t1, owner) \/ CloseRequest(t1),
           StartRequest(t1, owner) /\ t1 = t => owner \in S, Belongs(t, S)
    PROVE  Belongs(t, S)'
<1>1. \/ OpenWithoutSession(t1, owner) \/ RestartWithoutSession(t1, owner) \/ ClearAndRestart(t1, owner)
      \/ Close("close", {t1}, {}) \/ Close("close", {t1}, {t1})
      \/ Close("close", WithSession, {}) \/ Close("close", WithSession, Terminals)
  BY DEF StartRequest, CloseRequest
<1>2. CASE RestartWithoutSession(t1, owner)
  <2> DEFINE o == Len(objects) + 1
  <2>1. /\ objects' = NewObject(t1, owner, <<>>) /\ files' = files
        /\ sessions' = [sessions EXCEPT ![t1] = o] /\ Persist!Enqueue(t1, o)
        /\ TerminalTypeOK /\ <<>> \in Seq(Incarnations) /\ DOMAIN <<>> = {}
    BY <1>2 DEF RestartWithoutSession, TerminalInv
  <2>2. /\ objects'[o] = [terminal |-> t1, owner |-> owner, history |-> <<>>, running |-> FALSE]
        /\ \A p \in 1..Len(objects) : objects'[p] = objects[p]
    BY <2>1, AddedObject
  <2>3. /\ objects'[o].owner = owner /\ objects'[o].history = <<>>
        /\ \A p \in References(t) : objects'[p] = objects[p]
    BY <2>2, ReferenceTypes
  <2>4. fiber' = fiber /\ latest'[t] \in {latest[t], o} /\ sessions'[t] \in {sessions[t], o}
    BY <2>1, InvTypes DEF Persist!Enqueue, MergeRequests, WorkerTypeOK, TerminalTypeOK
  <2>5. References(t)' \subseteq References(t) \cup {o}
    BY <2>4 DEF References, BeingWritten
  <2>6. CASE t1 = t
    BY <1>2, <2>1, <2>3, <2>5, <2>6 DEF Belongs, StartRequest
  <2>7. CASE t1 # t
    <3>1. latest'[t] = latest[t] /\ sessions'[t] = sessions[t]
      BY <2>1, <2>7, InvTypes DEF Persist!Enqueue, MergeRequests, WorkerTypeOK, TerminalTypeOK
    <3> QED
      BY <2>1, <2>3, <2>4, <2>7, <3>1, LessBelongs DEF References, BeingWritten
  <2> QED
    BY <2>6, <2>7
<1>3. CASE ClearAndRestart(t1, owner)
  <2> DEFINE o == sessions[t1]
  <2>1. /\ o \in 1..Len(objects) /\ o # 0 /\ UNCHANGED <<sessions, files>> /\ Persist!Enqueue(t1, o)
    BY <1>3, InvTypes DEF ClearAndRestart
  <2>2. /\ objects'[o] = [terminal |-> t1, owner |-> owner, history |-> <<>>, running |-> FALSE]
        /\ \A p \in 1..Len(objects) : p # o => objects'[p] = objects[p]
    BY <1>3, ClearAndRestartKeeps
  <2>3. /\ objects'[o].owner = owner /\ objects'[o].history = <<>> /\ DOMAIN <<>> = {}
        /\ \A p \in References(t) : p # o => objects'[p] = objects[p]
    BY <2>2, ReferenceTypes
  <2>4. fiber' = fiber /\ latest'[t] = IF t = t1 THEN o ELSE latest[t]
    BY <2>1, InvTypes DEF Persist!Enqueue, MergeRequests, WorkerTypeOK
  <2>5. References(t)' \subseteq References(t)
    BY <2>1, <2>4 DEF References, BeingWritten
  <2>6. CASE t1 = t
    BY <1>3, <2>1, <2>3, <2>5, <2>6 DEF Belongs, StartRequest
  <2>7. CASE t1 # t
    <3>1. o \notin References(t)
      BY <2>1, <2>7, InvTypes, Owned, ReferenceTypes
    <3> QED
      BY <2>1, <2>3, <2>5, <3>1, LessBelongs
  <2> QED
    BY <2>6, <2>7
<1>4. ASSUME ~RestartWithoutSession(t1, owner), ~ClearAndRestart(t1, owner)
      PROVE  UNCHANGED <<objects, sessions, files, latest, fiber>>
  BY <1>1, <1>4 DEF OpenWithoutSession, Close, sessionVars, persistVars
<1> QED
  BY <1>2, <1>3, <1>4, LessBelongs DEF References, BeingWritten

-----------------------------------------------------------------------------
(* The fence.                                                               *)

LEMMA LogTypes ==
    ASSUME TypeOK, ReactorTypeOK
    PROVE  /\ log \in Seq({"created", "deleted"}) /\ Len(log) \in Nat
           /\ delivered \in Nat /\ seen \in Nat /\ seen <= delivered /\ delivered <= Len(log)
           /\ outstanding \in Nat /\ deletions \in Seq(Nat) /\ Len(deletions) \in Nat
           /\ cleaning.sequence \in 0..delivered
           /\ cleaning = NotCleaning => cleaning.sequence = 0 /\ cleaning.at = "idle"
           /\ cleaning # NotCleaning => cleaning.sequence # 0 /\ cleaning.at # "idle"
           /\ Exists => Len(log) # 0 /\ log[Len(log)] = "created"
           /\ Incarnation(Len(log)) \in Nat /\ \A i \in returned : i \in 1..Incarnation(Len(log))
<1>1. log \in Seq({"created", "deleted"}) /\ Len(log) \in Nat
  BY DEF TypeOK
<1>2. Incarnation(Len(log)) \in Nat
  BY <1>1, IncarnationType
<1>3. /\ delivered \in Nat /\ seen \in Nat /\ seen <= delivered /\ delivered <= Len(log)
      /\ outstanding \in Nat /\ deletions \in Seq(Nat) /\ Len(deletions) \in Nat
  BY <1>1 DEF TypeOK, ReactorTypeOK
<1>4. cleaning = NotCleaning => cleaning.sequence = 0 /\ cleaning.at = "idle"
  BY DEF NotCleaning
<1>5. cleaning # NotCleaning => /\ cleaning.sequence \in 1..delivered
                                /\ cleaning.at \in {"provider", "terminals", "closing"}
  BY DEF ReactorTypeOK
<1>6. Exists => Len(log) # 0 /\ log[Len(log)] = "created"
  BY <1>1, EmptySeq DEF Exists
<1> QED
  BY <1>1, <1>2, <1>3, <1>4, <1>5, <1>6 DEF TypeOK

\* At most one incarnation is in use or waits for its clean-up.
LEMMA OneUser ==
    ASSUME TypeOK, ReactorTypeOK, CleanUpSparesNext, NEW i \in Users, NEW j \in Users
    PROVE  i = j
<1>1. /\ i \in returned /\ j \in returned
      /\ i \in 1..Incarnation(Len(log)) /\ j \in 1..Incarnation(Len(log))
      /\ Incarnation(Len(log)) \in Nat
  BY LogTypes DEF Users
<1>2. \A k \in Users : \A l \in returned : l <= k
  <2> SUFFICES ASSUME NEW k \in Users, NEW l \in returned PROVE l <= k
    OBVIOUS
  <2>1. CASE Exists /\ k = Incarnation(Len(log))
    BY <2>1, LogTypes
  <2>2. CASE \E n \in Unfinished : Incarnation(n) = k
    BY <2>2 DEF CleanUpSparesNext
  <2> QED
    BY <2>1, <2>2 DEF Users
<1> QED
  BY <1>1, <1>2

LEMMA InUseAreUsers == InUse \subseteq Users
BY DEF InUse, Users

\* Once the create of a thread has answered, there is no user but it.
LEMMA OnlyUser ==
    ASSUME TypeOK, ReactorTypeOK, CleanUpSparesNext, Exists, Incarnation(Len(log)) \in returned
    PROVE  Users = {Incarnation(Len(log))}
<1>1. Incarnation(Len(log)) \in Users
  BY DEF Users
<1> QED
  BY <1>1, OneUser

\* A terminal's content is all of one incarnation.
LEMMA NothingInherited ==
    ASSUME IInv
    PROVE  NoInheritedHistory
<1> SUFFICES ASSUME NEW t \in Terminals \ (forgotten \cup late)
             PROVE  /\ \A k \in DOMAIN objects[sessions[t]].history :
                           sessions[t] # 0 =>
                               objects[sessions[t]].history[k] = objects[sessions[t]].owner
                    /\ Exists /\ Incarnation(Len(log)) \in returned
                           => Belongs(t, {Incarnation(Len(log))})
  BY DEF NoInheritedHistory
<1>1. Belongs(t, Users)
  BY DEF IInv, ContentBelongs
<1>2. ASSUME sessions[t] # 0, NEW k \in DOMAIN objects[sessions[t]].history
      PROVE  objects[sessions[t]].history[k] = objects[sessions[t]].owner
  <2>1. sessions[t] \in References(t)
    BY <1>2 DEF References
  <2>2. objects[sessions[t]].owner \in Users /\ objects[sessions[t]].history[k] \in Users
    BY <1>1, <2>1 DEF Belongs
  <2> QED
    BY <2>2, OneUser DEF IInv
<1>3. Exists /\ Incarnation(Len(log)) \in returned => Belongs(t, {Incarnation(Len(log))})
  BY <1>1, OnlyUser DEF IInv
<1> QED
  BY <1>2, <1>3

LEMMA InitIInv ==
    ASSUME Init
    PROVE  IInv
<1>1. TerminalInv /\ operation = NoOperation /\ sessions = [t \in Terminals |-> 0]
      /\ latest = [t \in Terminals |-> 0] /\ fiber.at = "idle" /\ files = [t \in Terminals |-> NoFile]
  BY TerminalInitInv DEF Init, TerminalInit, Persist!Init, Persist!Idle, NoRequest
<1>2. /\ log = <<>> /\ creating = {} /\ returned = {} /\ late = {} /\ delivered = 0 /\ seen = 0 /\ deletions = <<>>
      /\ outstanding = 0 /\ cleaning = NotCleaning /\ cleaning.at = "idle" /\ operation.kind = "none"
  BY <1>1 DEF Init, NotCleaning, NoOperation
<1>3. /\ log \in Seq({"created", "deleted"}) /\ deletions \in Seq(Nat) /\ Len(log) = 0
      /\ Len(deletions) = 0 /\ DOMAIN deletions = {}
  BY <1>2
<1>4. TypeOK /\ ReactorTypeOK
  BY <1>1, <1>2, <1>3 DEF TypeOK, ReactorTypeOK, TerminalInv
<1>5. CleanUpSparesNext
  BY <1>2 DEF CleanUpSparesNext
<1>6. operation \notin Works
  BY <1>2 DEF Works
<1>7. ContentBelongs
  BY <1>1, <1>2, <1>6 DEF ContentBelongs, Belongs, References, BeingWritten
<1> QED
  BY <1>1, <1>4, <1>5, <1>7 DEF IInv

-----------------------------------------------------------------------------
(* The steps of commands and of the reactor leave the terminals alone.      *)

LEMMA TerminalsStay ==
    ASSUME TerminalInv, UNCHANGED terminalVars
    PROVE  /\ TerminalInv' /\ Works' = Works
           /\ UNCHANGED <<objects, sessions, files, latest, fiber, operation, abandoned, forgotten>>
           /\ \A t, S : Belongs(t, S) => Belongs(t, S)'
<1>1. UNCHANGED <<objects, sessions, files, operation, latest, queuedKeys, activeKeys, queue, fiber,
                  faults, shown, abandoned, forgotten>>
  BY DEF terminalVars, sessionVars, persistVars
<1>2. \A t \in Terminals : References(t)' = References(t)
  BY <1>1 DEF References, BeingWritten
<1>3. Works' = Works /\ Closings' = Closings /\ Fibers' = Fibers
  BY <1>1 DEF Works, Closings, Fibers
<1>4. TerminalTypeOK' /\ WorkTypeOK'
  BY <1>1, <1>3 DEF TerminalInv, TerminalTypeOK, WorkTypeOK
<1>5. HistoriesGetWritten'
  BY <1>1 DEF TerminalInv, HistoriesGetWritten, Persist!NothingStranded, Persist!OnFiber
<1>6. SessionsOwned' /\ AbandonedForgotten' /\ NoOrphanProcess'
  BY <1>1, <1>2, <1>3 DEF TerminalInv, SessionsOwned, AbandonedForgotten, NoOrphanProcess, Orphans
<1>7. ClosingProgress' /\ LastShownIsKept'
  BY <1>1, <1>3 DEF TerminalInv, ClosingProgress, LastShownIsKept, Persist!Drained, BeingWritten, FileHistory
<1>8. \A t, S : Belongs(t, S) => Belongs(t, S)'
  BY <1>1 DEF Belongs, References, BeingWritten
<1> QED
  BY <1>1, <1>3, <1>4, <1>5, <1>6, <1>7, <1>8 DEF TerminalInv

\* No incarnation loses its use by such a step, but for a clean-up that is done.
LEMMA ContentStays ==
    ASSUME IInv, UNCHANGED terminalVars, late' = late, InUse \subseteq InUse', Users \subseteq Users',
           cleaning'.at = "closing" => cleaning.at = "closing"
    PROVE  TerminalInv' /\ ContentBelongs'
<1>1. /\ TerminalInv' /\ Works' = Works /\ UNCHANGED <<operation, abandoned, forgotten>>
      /\ \A t, S : Belongs(t, S) => Belongs(t, S)'
  BY TerminalsStay DEF IInv
<1>2. operation' \in Works' /\ operation'.terminal \notin late' => operation'.owner \in InUse'
  BY <1>1 DEF IInv, ContentBelongs
<1>3. PICK U, U1, V, V1 : U = Users /\ U1 = Users' /\ V = InUse /\ V1 = InUse'
  OBVIOUS
<1>4. \A t \in Terminals \ (forgotten \cup late) :
        /\ Belongs(t, U1)'
        /\ cleaning'.at = "closing" /\ operation.kind # "cleanUp" => Belongs(t, V1)'
  BY <1>1, <1>3, MoreMayUse DEF IInv, ContentBelongs
<1>5. \A t \in Terminals \ (forgotten \cup late) :
        (/\ Belongs(t, Users)
         /\ cleaning.at = "closing" /\ operation.kind # "cleanUp" => Belongs(t, InUse))'
  BY <1>1, <1>3, <1>4 DEF Belongs
<1> QED
  BY <1>1, <1>2, <1>5 DEF ContentBelongs

\* Unfinished, in terms of what a step changes.
LEMMA UnfinishedStays ==
    ASSUME TypeOK, ReactorTypeOK, log' = log,
           Unfinished \subseteq Unfinished', returned \subseteq returned',
           \A n \in Unfinished : (n = cleaning.sequence => cleaning.at # "closing") =>
               (n = cleaning'.sequence => cleaning'.at # "closing")
    PROVE  /\ Users \subseteq Users' /\ InUse \subseteq InUse'
           /\ \A n : Incarnation(n)' = Incarnation(n)
<1>1. (\A n : Incarnation(n)' = Incarnation(n)) /\ Exists' = Exists
  BY DEF Incarnation, Exists
<1>2. Incarnation(Len(log))' = Incarnation(Len(log))
  BY DEF Incarnation
<1> QED
  BY <1>1, <1>2 DEF Users, InUse

\* An event that is added is not handled yet.
LEMMA EventAdded ==
    ASSUME IInv, NEW event \in {"created", "deleted"}, log' = Append(log, event),
           event = "created" => ~Exists,
           UNCHANGED <<terminalVars, reactorVars, returned, late>>,
           creating' \subseteq creating \cup (IF event = "created" THEN {Len(log) + 1} ELSE {})
    PROVE  IInv'
<1>1. UNCHANGED <<delivered, seen, deletions, outstanding, cleaning>> /\ returned' = returned /\ late' = late
      /\ UNCHANGED operation
  BY DEF reactorVars, terminalVars
<1>2. /\ log \in Seq({"created", "deleted"}) /\ TypeOK /\ ReactorTypeOK /\ CleanUpSparesNext
  BY DEF IInv, TypeOK
<1>3. /\ log' \in Seq({"created", "deleted"}) /\ Len(log') = Len(log) + 1 /\ Len(log) \in Nat
      /\ \A n \in 1..Len(log) : log'[n] = log[n]
      /\ log'[Len(log) + 1] = event
      /\ \A n \in 0..Len(log) : Incarnation(n)' = Incarnation(n)
      /\ Incarnation(Len(log))' = Incarnation(Len(log)) + (IF event = "deleted" THEN 0 ELSE 1)
      /\ Incarnation(Len(log)) \in Nat
  BY <1>2, IncarnationsStay, IncarnationType
<1>4. TerminalInv'
  BY TerminalsStay DEF IInv
<1>5. TypeOK'
  <2>1. TerminalTypeOK'
    BY <1>4 DEF TerminalInv
  <2>2. seen' \in 0..delivered' /\ delivered' \in 0..Len(log')
    BY <1>1, <1>2, <1>3 DEF TypeOK
  <2>3. creating' \subseteq 1..Len(log')
    BY <1>2, <1>3 DEF TypeOK
  <2>4. returned' \subseteq 1..Incarnation(Len(log))'
    <3>1. \A i \in 1..Incarnation(Len(log)) : i \in 1..Incarnation(Len(log))'
      BY <1>3
    <3> QED
      BY <1>1, <1>2, <3>1 DEF TypeOK
  <2> QED
    BY <1>1, <1>2, <1>3, <2>1, <2>2, <2>3, <2>4 DEF TypeOK
<1>6. ReactorTypeOK'
  <2>1. \A n \in creating' : log'[n] = "created"
    BY <1>2, <1>3 DEF TypeOK, ReactorTypeOK
  <2> QED
    BY <1>1, <1>2, <2>1 DEF ReactorTypeOK
<1>7. Unfinished' = Unfinished \cup (IF event = "deleted" THEN {Len(log) + 1} ELSE {})
  <2>1. \A n \in 1..Len(log) : n \in Unfinished' <=> n \in Unfinished
    BY <1>1, <1>3 DEF Unfinished
  <2>2. Len(log) + 1 \in Unfinished' <=> event = "deleted"
    BY <1>1, <1>2, <1>3, LogTypes DEF Unfinished
  <2>3. Unfinished \subseteq 1..Len(log) /\ Unfinished' \subseteq 1..(Len(log) + 1)
    BY <1>3 DEF Unfinished
  <2>4. \A n \in 1..(Len(log) + 1) : n \in 1..Len(log) \/ n = Len(log) + 1
    BY <1>3
  <2> QED
    BY <2>1, <2>2, <2>3, <2>4
<1>8. \A n \in Unfinished : n \in 1..Len(log) /\ Incarnation(n)' = Incarnation(n)
  BY <1>3 DEF Unfinished
<1>9. \A n : n = Len(log) + 1 => Incarnation(n)' = Incarnation(Len(log))'
  BY <1>3 DEF Incarnation
<1>10. CleanUpSparesNext'
  <2> SUFFICES ASSUME NEW n \in Unfinished', NEW i \in returned PROVE i <= Incarnation(n)'
    BY <1>1 DEF CleanUpSparesNext
  <2>1. CASE n \in Unfinished
    BY <1>2, <1>8, <2>1 DEF CleanUpSparesNext
  <2>2. CASE n \notin Unfinished
    <3>1. n = Len(log) + 1 /\ event = "deleted"
      BY <1>7, <2>2
    <3> QED
      BY <1>2, <1>3, <1>9, <3>1, LogTypes
  <2> QED
    BY <2>1, <2>2
<1>11. Users \subseteq Users' /\ InUse \subseteq InUse'
  <2>1. \A i \in returned : Exists /\ i = Incarnation(Len(log)) =>
            \E n \in Unfinished' : /\ Incarnation(n)' = i
                                   /\ n = cleaning.sequence => cleaning.at # "closing"
    <3> SUFFICES ASSUME Exists
                 PROVE  \E n \in Unfinished' : /\ Incarnation(n)' = Incarnation(Len(log))
                                               /\ n = cleaning.sequence => cleaning.at # "closing"
      OBVIOUS
    <3>1. event = "deleted"
      OBVIOUS
    <3>2. Len(log) + 1 \in Unfinished' /\ Len(log) + 1 # cleaning.sequence
      BY <1>2, <1>3, <1>7, <3>1, LogTypes
    <3> QED
      BY <1>3, <1>9, <3>1, <3>2
  <2>2. \A i \in returned, n \in Unfinished : Incarnation(n) = i => n \in Unfinished' /\ Incarnation(n)' = i
    BY <1>7, <1>8
  <2> QED
    BY <1>1, <2>1, <2>2 DEF Users, InUse
<1>12. ContentBelongs'
  BY <1>1, <1>11, ContentStays
<1> QED
  BY <1>4, <1>5, <1>6, <1>10, <1>12 DEF IInv

LEMMA CreateThreadKeeps ==
    ASSUME IInv, CreateThread
    PROVE  IInv'
BY EventAdded DEF CreateThread

LEMMA DeleteThreadKeeps ==
    ASSUME IInv, DeleteThread
    PROVE  IInv'
BY EventAdded DEF DeleteThread

\* A create answers once no clean-up of what was before it is to come.
LEMMA DrainedThroughKeeps ==
    ASSUME IInv, NEW sequence \in creating, DrainedThrough(sequence)
    PROVE  IInv'
<1>1. /\ sequence \in creating /\ seen >= sequence /\ outstanding = 0
      /\ creating' = creating \ {sequence} /\ returned' = returned \cup {Incarnation(sequence)}
      /\ UNCHANGED <<terminalVars, delivered, seen, deletions, outstanding, cleaning, log, late>>
      /\ UNCHANGED operation
  BY DEF DrainedThrough, Answer, reactorVars, terminalVars
<1>2. TypeOK /\ ReactorTypeOK /\ CleanUpSparesNext
  BY DEF IInv
<1>3. /\ sequence \in 1..Len(log) /\ log[sequence] = "created" /\ Len(log) \in Nat
      /\ 1 <= Incarnation(sequence) /\ Incarnation(sequence) <= Incarnation(Len(log))
      /\ Incarnation(sequence) \in Nat
  <2>1. sequence \in 1..Len(log) /\ log[sequence] = "created" /\ Len(log) \in Nat
    BY <1>1, <1>2, LogTypes DEF TypeOK, ReactorTypeOK
  <2>2. sequence \in Nat \ {0} /\ sequence \in Nat /\ sequence \in 0..Len(log)
    BY <2>1
  <2>3. Incarnation(sequence) >= 1 /\ Incarnation(sequence) \in Nat
    BY <2>1, <2>2, CreatedIsOne, IncarnationType
  <2>4. Incarnation(sequence) <= Incarnation(Len(log))
    BY <2>1, <2>2, IncarnationsGrow
  <2> QED
    BY <2>1, <2>3, <2>4
<1>4. Unfinished' = Unfinished
  BY <1>1 DEF Unfinished
<1>5. /\ Users \subseteq Users' /\ InUse \subseteq InUse'
      /\ \A n : Incarnation(n)' = Incarnation(n)
  BY <1>1, <1>2, <1>4, UnfinishedStays
<1>6. Incarnation(Len(log))' = Incarnation(Len(log)) /\ Incarnation(Len(log)) \in Nat
  BY <1>1, <1>3, IncarnationType DEF Incarnation
<1>7. TerminalInv' /\ ContentBelongs'
  BY <1>1, <1>5, ContentStays
<1>8. TypeOK' /\ ReactorTypeOK'
  <2>1. returned' \subseteq 1..Incarnation(Len(log))'
    <3>1. returned \subseteq 1..Incarnation(Len(log))
      BY <1>2 DEF TypeOK
    <3>2. Incarnation(sequence) \in 1..Incarnation(Len(log))
      BY <1>3, <1>6
    <3> QED
      BY <1>1, <1>6, <3>1, <3>2
  <2>2. creating' \subseteq 1..Len(log')
    BY <1>1, <1>2 DEF TypeOK
  <2>3. TerminalTypeOK'
    BY <1>7 DEF TerminalInv
  <2> QED
    BY <1>1, <1>2, <2>1, <2>2, <2>3 DEF TypeOK, ReactorTypeOK
<1>9. CleanUpSparesNext'
  <2>1. cleaning = NotCleaning /\ deletions = <<>>
    BY <1>1, <1>2, LogTypes, EmptySeq DEF TypeOK
  <2>2. \A n \in Unfinished : n > delivered /\ n \in 1..Len(log)
    BY <1>2, <1>3, <2>1, LogTypes DEF Unfinished
  <2>3. \A n \in Unfinished : Incarnation(sequence) <= Incarnation(n)
    <3> SUFFICES ASSUME NEW n \in Unfinished PROVE Incarnation(sequence) <= Incarnation(n)
      OBVIOUS
    <3>1. n \in Nat /\ sequence \in 0..n
      BY <1>1, <1>2, <1>3, <2>2, LogTypes
    <3> QED
      BY <3>1, IncarnationsGrow
  <2> QED
    BY <1>1, <1>2, <1>4, <1>5, <2>3 DEF CleanUpSparesNext
<1> QED
  BY <1>7, <1>8, <1>9 DEF IInv

\* What the reactor's steps have in common.
LEMMA ReactorStepKeeps ==
    ASSUME IInv, UNCHANGED <<terminalVars, clientVars>>,
           seen' \in 0..delivered', delivered' \in 0..Len(log), deletions' \in Seq(Nat),
           \A i \in DOMAIN deletions' : deletions'[i] \in 1..delivered',
           outstanding' = Len(deletions') + (IF cleaning' = NotCleaning THEN 0 ELSE 1),
           outstanding' \in Nat,
           cleaning' \in {NotCleaning} \cup [at: {"provider", "terminals", "closing"}, sequence: 1..delivered'],
           operation.kind = "cleanUp" => cleaning'.at = "closing",
           Unfinished' \subseteq Unfinished,
           InUse \subseteq InUse', Users \subseteq Users', cleaning'.at = "closing" => cleaning.at = "closing"
    PROVE  IInv'
<1>1. /\ TypeOK /\ ReactorTypeOK /\ CleanUpSparesNext
      /\ UNCHANGED <<log, creating, returned, late, operation>>
  BY DEF IInv, clientVars, terminalVars
<1>2. TerminalInv' /\ ContentBelongs'
  BY <1>1, ContentStays
<1>3. (\A n : Incarnation(n)' = Incarnation(n)) /\ Incarnation(Len(log))' = Incarnation(Len(log))
  BY <1>1 DEF Incarnation
<1>4. TypeOK'
  <2>1. TerminalTypeOK' /\ returned' \subseteq 1..Incarnation(Len(log))'
    BY <1>1, <1>2, <1>3 DEF TerminalInv, TypeOK
  <2> QED
    BY <1>1, <2>1 DEF TypeOK
<1>5. ReactorTypeOK'
  <2>1. delivered' \in Nat /\ seen' \in Nat
    BY <1>1, LogTypes
  <2> QED
    BY <1>1, <2>1 DEF ReactorTypeOK
<1>6. CleanUpSparesNext'
  BY <1>1, <1>3 DEF CleanUpSparesNext
<1> QED
  BY <1>2, <1>4, <1>5, <1>6 DEF IInv

\* The elements of a queue, when one is added and when one is taken off.
LEMMA AppendedElements ==
    ASSUME NEW S, NEW q \in Seq(S), NEW e \in S, NEW p, p = Append(q, e)
    PROVE  /\ p \in Seq(S) /\ Len(p) = Len(q) + 1 /\ Len(q) \in Nat
           /\ \A n : (\E i \in DOMAIN p : p[i] = n) <=>
                     n = e \/ \E i \in DOMAIN q : q[i] = n
<1>1. /\ p \in Seq(S) /\ Len(p) = Len(q) + 1 /\ Len(q) \in Nat
      /\ \A i \in 1..Len(q) : p[i] = q[i]
      /\ p[Len(q) + 1] = e
  BY AppendProperties
<1>2. DOMAIN q = 1..Len(q) /\ DOMAIN p = 1..(Len(q) + 1)
  BY <1>1
<1>3. ASSUME NEW n, NEW i \in DOMAIN p, p[i] = n
      PROVE  n = e \/ \E j \in DOMAIN q : q[j] = n
  <2>1. i \in 1..Len(q) \/ i = Len(q) + 1
    BY <1>1, <1>2
  <2> QED
    BY <1>1, <1>2, <1>3, <2>1
<1>4. ASSUME NEW n, n = e \/ \E j \in DOMAIN q : q[j] = n
      PROVE  \E i \in DOMAIN p : p[i] = n
  <2>1. Len(q) + 1 \in DOMAIN p /\ \A j \in DOMAIN q : j \in DOMAIN p
    BY <1>1, <1>2
  <2> QED
    BY <1>1, <1>2, <1>4, <2>1
<1> QED
  BY <1>1, <1>3, <1>4

LEMMA TakenElements ==
    ASSUME NEW S, NEW q \in Seq(S), q # <<>>
    PROVE  /\ Tail(q) \in Seq(S) /\ Len(Tail(q)) = Len(q) - 1 /\ Len(q) \in Nat \ {0}
           /\ \A n : (\E i \in DOMAIN q : q[i] = n) <=>
                     n = Head(q) \/ \E i \in DOMAIN Tail(q) : Tail(q)[i] = n
<1> DEFINE p == Tail(q)
<1>1. /\ Head(q) = q[1] /\ 1 \in DOMAIN q /\ p \in Seq(S)
      /\ DOMAIN p = 1..(Len(q) - 1) /\ DOMAIN q = 1..Len(q) /\ Len(q) \in Nat \ {0}
      /\ \A i \in 1..(Len(q) - 1) : p[i] = q[i + 1]
  BY TailFacts
<1>2. Len(p) = Len(q) - 1
  BY <1>1, HeadTailProperties
<1> HIDE DEF p
<1>3. ASSUME NEW n, NEW i \in DOMAIN q, q[i] = n
      PROVE  n = Head(q) \/ \E j \in DOMAIN p : p[j] = n
  <2>1. CASE i = 1
    BY <1>1, <1>3, <2>1
  <2>2. CASE i # 1
    <3>1. i - 1 \in DOMAIN p /\ i - 1 \in 1..(Len(q) - 1) /\ (i - 1) + 1 = i
      BY <1>1, <2>2
    <3> QED
      BY <1>1, <1>3, <3>1
  <2> QED
    BY <2>1, <2>2
<1>4. ASSUME NEW n, n = Head(q) \/ \E j \in DOMAIN p : p[j] = n
      PROVE  \E i \in DOMAIN q : q[i] = n
  <2>1. \A j \in DOMAIN p : j + 1 \in DOMAIN q /\ p[j] = q[j + 1]
    BY <1>1
  <2> QED
    BY <1>1, <1>4, <2>1
<1> QED
  BY <1>1, <1>2, <1>3, <1>4 DEF p

LEMMA DeliverKeeps ==
    ASSUME IInv, Deliver
    PROVE  IInv'
<1>1. /\ TypeOK /\ ReactorTypeOK /\ seen = delivered /\ delivered < Len(log) /\ delivered' = delivered + 1
      /\ IF log[delivered + 1] = "deleted"
         THEN deletions' = Append(deletions, delivered + 1) /\ outstanding' = outstanding + 1
         ELSE UNCHANGED <<deletions, outstanding>>
      /\ UNCHANGED <<terminalVars, clientVars, seen, cleaning, log, returned, operation>>
  BY DEF IInv, Deliver, clientVars, terminalVars
<1>2. /\ seen' \in 0..delivered' /\ delivered' \in 0..Len(log) /\ delivered \in Nat
      /\ delivered + 1 \in 1..Len(log)
  BY <1>1, LogTypes
<1>3. /\ deletions' \in Seq(Nat) /\ outstanding' \in Nat
      /\ outstanding' = Len(deletions') + (IF cleaning' = NotCleaning THEN 0 ELSE 1)
      /\ \A i \in DOMAIN deletions' : deletions'[i] \in 1..delivered'
      /\ \A n : (\E i \in DOMAIN deletions' : deletions'[i] = n) <=>
                \/ \E i \in DOMAIN deletions : deletions[i] = n
                \/ log[delivered + 1] = "deleted" /\ n = delivered + 1
  <2>1. deletions \in Seq(Nat) /\ outstanding = Len(deletions) + (IF cleaning = NotCleaning THEN 0 ELSE 1)
        /\ Len(deletions) \in Nat /\ outstanding \in Nat
        /\ \A i \in DOMAIN deletions : deletions[i] \in 1..delivered
    BY <1>1 DEF TypeOK, ReactorTypeOK
  <2>2. CASE log[delivered + 1] = "deleted"
    <3>1. deletions' = Append(deletions, delivered + 1) /\ outstanding' = outstanding + 1
      BY <1>1, <2>2
    <3>2. /\ deletions' \in Seq(Nat) /\ Len(deletions') = Len(deletions) + 1
          /\ \A n : (\E i \in DOMAIN deletions' : deletions'[i] = n) <=>
                    n = delivered + 1 \/ \E i \in DOMAIN deletions : deletions[i] = n
      <4>1. PICK e \in Nat : e = delivered + 1
        BY <1>2
      <4>2. deletions \in Seq(Nat)
        BY <2>1
      <4>3. PICK p : p = deletions' /\ p = Append(deletions, e)
        BY <3>1, <4>1
      <4>4. /\ p \in Seq(Nat) /\ Len(p) = Len(deletions) + 1
            /\ \A n : (\E i \in DOMAIN p : p[i] = n) <=>
                      n = e \/ \E i \in DOMAIN deletions : deletions[i] = n
        BY ONLY e \in Nat, <4>2, <4>3, AppendedElements, SMTT(30)
      <4> QED
        BY <4>1, <4>3, <4>4
    <3>3. \A n : n = delivered + 1 \/ (\E i \in DOMAIN deletions : deletions[i] = n) => n \in 1..delivered'
      BY <1>1, <1>2, <2>1
    <3>4. \A i \in DOMAIN deletions' : deletions'[i] \in 1..delivered'
      BY <3>2, <3>3
    <3>5. /\ outstanding' \in Nat
          /\ outstanding' = Len(deletions') + (IF cleaning' = NotCleaning THEN 0 ELSE 1)
      BY <1>1, <2>1, <3>1, <3>2
    <3> QED
      BY <2>2, <3>2, <3>4, <3>5
  <2>3. CASE log[delivered + 1] # "deleted"
    BY <1>1, <1>2, <2>1, <2>3
  <2> QED
    BY <2>2, <2>3
<1>4. Unfinished' = Unfinished
  <2> SUFFICES ASSUME NEW n \in 1..Len(log), log[n] = "deleted"
               PROVE  (\/ n > delivered + 1 \/ cleaning.sequence = n
                       \/ \E i \in DOMAIN deletions' : deletions'[i] = n)
                  <=> (\/ n > delivered \/ cleaning.sequence = n
                       \/ \E i \in DOMAIN deletions : deletions[i] = n)
    BY <1>1 DEF Unfinished
  <2>1. n > delivered <=> n > delivered + 1 \/ n = delivered + 1
    BY <1>2
  <2> QED
    BY <1>3, <2>1
<1>5. Users \subseteq Users' /\ InUse \subseteq InUse'
  BY <1>1, <1>4, UnfinishedStays
<1>6. cleaning' \in {NotCleaning} \cup [at: {"provider", "terminals", "closing"}, sequence: 1..delivered']
  BY <1>1, <1>2 DEF ReactorTypeOK
<1>7. operation.kind = "cleanUp" => cleaning'.at = "closing"
  BY <1>1 DEF ReactorTypeOK
<1> QED
  BY <1>1, <1>2, <1>3, <1>4, <1>5, <1>6, <1>7, ReactorStepKeeps

LEMMA NoteSeenKeeps ==
    ASSUME IInv, NoteSeen
    PROVE  IInv'
<1>1. /\ TypeOK /\ ReactorTypeOK /\ seen' = delivered
      /\ UNCHANGED <<terminalVars, clientVars, delivered, deletions, outstanding, cleaning, log, returned>>
  BY DEF IInv, NoteSeen, clientVars
<1>2. seen' \in 0..delivered' /\ delivered' \in 0..Len(log)
  BY <1>1, LogTypes
<1>3. Unfinished' = Unfinished
  BY <1>1 DEF Unfinished
<1>4. Users \subseteq Users' /\ InUse \subseteq InUse'
  BY <1>1, <1>3, UnfinishedStays
<1> QED
  BY <1>1, <1>2, <1>3, <1>4, ReactorStepKeeps DEF TypeOK, ReactorTypeOK

LEMMA TakeDeletionKeeps ==
    ASSUME IInv, TakeDeletion
    PROVE  IInv'
<1> DEFINE first == Head(deletions)
<1>1. /\ TypeOK /\ ReactorTypeOK /\ cleaning = NotCleaning /\ deletions # <<>>
      /\ cleaning' = [at |-> "provider", sequence |-> first] /\ deletions' = Tail(deletions)
      /\ UNCHANGED <<terminalVars, clientVars, delivered, seen, outstanding, log, returned>>
  BY DEF IInv, TakeDeletion, clientVars
<1>2. /\ deletions' \in Seq(Nat) /\ Len(deletions') = Len(deletions) - 1 /\ Len(deletions) \in Nat \ {0}
      /\ \A n : (\E i \in DOMAIN deletions : deletions[i] = n) <=>
                n = first \/ \E i \in DOMAIN deletions' : deletions'[i] = n
  <2>1. deletions \in Seq(Nat) /\ deletions # <<>>
    BY <1>1 DEF ReactorTypeOK
  <2>2. /\ Tail(deletions) \in Seq(Nat) /\ Len(Tail(deletions)) = Len(deletions) - 1
        /\ Len(deletions) \in Nat \ {0}
        /\ \A n : (\E i \in DOMAIN deletions : deletions[i] = n) <=>
                  n = first \/ \E i \in DOMAIN Tail(deletions) : Tail(deletions)[i] = n
    BY ONLY <2>1, TakenElements
  <2> QED
    BY <1>1, <2>2
<1>3. /\ \A n : n = first \/ (\E i \in DOMAIN deletions' : deletions'[i] = n) => n \in 1..delivered
      /\ delivered \in Nat /\ delivered' \in 0..Len(log) /\ seen' \in 0..delivered'
  BY <1>1, <1>2, SMTT(30) DEF TypeOK, ReactorTypeOK
<1>4. outstanding = Len(deletions) /\ outstanding \in Nat
  <2>1. outstanding = Len(deletions) + 0
    BY <1>1 DEF TypeOK
  <2> QED
    BY <1>2, <2>1
<1>5. first \in 1..delivered /\ \A i \in DOMAIN deletions' : deletions'[i] \in 1..delivered'
  BY <1>1, <1>3
<1>6. cleaning'.at = "provider" /\ cleaning'.sequence = first /\ cleaning' # NotCleaning
      /\ cleaning.at = "idle" /\ cleaning.sequence = 0
  BY <1>1 DEF NotCleaning
<1>7. outstanding' = Len(deletions') + (IF cleaning' = NotCleaning THEN 0 ELSE 1) /\ outstanding' \in Nat
  BY <1>1, <1>2, <1>4, <1>6
<1>8. cleaning' \in [at: {"provider", "terminals", "closing"}, sequence: 1..delivered']
  BY <1>1, <1>5
<1>9. operation.kind # "cleanUp"
  BY <1>1, <1>6 DEF ReactorTypeOK
<1>10. Unfinished' = Unfinished
  <2> SUFFICES ASSUME NEW n \in 1..Len(log), log[n] = "deleted"
               PROVE  (\/ n > delivered \/ first = n
                       \/ \E i \in DOMAIN deletions' : deletions'[i] = n)
                  <=> (\/ n > delivered \/ cleaning.sequence = n
                       \/ \E i \in DOMAIN deletions : deletions[i] = n)
    BY <1>1, <1>6 DEF Unfinished
  <2>1. cleaning.sequence # n
    BY <1>1, <1>6, LogTypes
  <2> QED
    BY <1>2, <2>1
<1>11. Users \subseteq Users' /\ InUse \subseteq InUse'
  BY <1>1, <1>6, <1>10, UnfinishedStays
<1> QED
  BY <1>1, <1>2, <1>3, <1>5, <1>6, <1>7, <1>8, <1>9, <1>10, <1>11, ReactorStepKeeps

LEMMA StopProviderSessionKeeps ==
    ASSUME IInv, StopProviderSession
    PROVE  IInv'
<1>1. /\ TypeOK /\ ReactorTypeOK /\ cleaning.at = "provider"
      /\ cleaning' = [cleaning EXCEPT !.at = "terminals"]
      /\ UNCHANGED <<terminalVars, clientVars, delivered, seen, deletions, outstanding, log, returned>>
  BY DEF IInv, StopProviderSession, clientVars
<1>2. /\ cleaning \in [at: {"provider", "terminals", "closing"}, sequence: 1..delivered]
      /\ cleaning # NotCleaning
  BY <1>1 DEF ReactorTypeOK, NotCleaning
<1>3. /\ cleaning' = [at |-> "terminals", sequence |-> cleaning.sequence]
      /\ cleaning'.at = "terminals" /\ cleaning'.sequence = cleaning.sequence
      /\ cleaning' # NotCleaning
      /\ cleaning' \in [at: {"provider", "terminals", "closing"}, sequence: 1..delivered]
  BY <1>1, <1>2 DEF NotCleaning
<1>4. Unfinished' = Unfinished
  BY <1>1, <1>3 DEF Unfinished
<1>5. Users \subseteq Users' /\ InUse \subseteq InUse'
  BY <1>1, <1>3, <1>4, UnfinishedStays
<1>6. operation.kind # "cleanUp"
  BY <1>1 DEF ReactorTypeOK
<1> QED
  BY <1>1, <1>2, <1>3, <1>4, <1>5, <1>6, ReactorStepKeeps DEF TypeOK, ReactorTypeOK

\* When the clean-up is done, what its deletion's incarnation had is gone.
LEMMA CleaningDoneKeeps ==
    ASSUME IInv, CleaningDone
    PROVE  IInv'
<1>1. /\ TypeOK /\ ReactorTypeOK /\ CleanUpSparesNext /\ cleaning.at = "closing" /\ operation.kind # "cleanUp"
      /\ cleaning' = NotCleaning /\ outstanding' = outstanding - 1
      /\ UNCHANGED <<terminalVars, clientVars, delivered, seen, deletions, log, returned, creating, late,
                     operation, abandoned, forgotten>>
  BY DEF IInv, CleaningDone, clientVars, terminalVars
<1>2. /\ cleaning # NotCleaning /\ cleaning'.sequence = 0 /\ cleaning'.at = "idle"
      /\ cleaning.sequence # 0
  <2>1. cleaning # NotCleaning /\ cleaning'.sequence = 0 /\ cleaning'.at = "idle"
    BY <1>1 DEF NotCleaning
  <2> QED
    BY <1>1, <2>1, LogTypes
<1>3. outstanding' = Len(deletions) /\ outstanding' \in Nat
  BY <1>1, <1>2 DEF TypeOK, ReactorTypeOK
<1>4. /\ Unfinished' \subseteq Unfinished
      /\ \A n \in Unfinished : n # cleaning.sequence => n \in Unfinished'
  BY <1>1, <1>2 DEF Unfinished
<1>5. (\A n : Incarnation(n)' = Incarnation(n)) /\ Exists' = Exists
      /\ Incarnation(Len(log))' = Incarnation(Len(log))
  BY <1>1 DEF Incarnation, Exists
<1>6. InUse \subseteq Users' /\ InUse \subseteq InUse'
  BY <1>1, <1>2, <1>4, <1>5 DEF InUse, Users
<1>7. /\ TerminalInv' /\ Works' = Works /\ \A t, S : Belongs(t, S) => Belongs(t, S)'
  BY <1>1, TerminalsStay DEF IInv
<1>8. ContentBelongs'
  <2>1. operation' \in Works' /\ operation'.terminal \notin late' => operation'.owner \in InUse'
    BY <1>1, <1>6, <1>7 DEF IInv, ContentBelongs
  <2>2. PICK U1, V : U1 = Users' /\ V = InUse
    OBVIOUS
  <2>3. \A t \in Terminals \ (forgotten \cup late) : Belongs(t, U1)'
    BY <1>1, <1>6, <1>7, <2>2, MoreMayUse DEF IInv, ContentBelongs
  <2>4. \A t \in Terminals \ (forgotten \cup late) : Belongs(t, Users)'
    BY <2>2, <2>3 DEF Belongs
  <2> QED
    BY <1>1, <1>2, <2>1, <2>4 DEF ContentBelongs
<1>9. TypeOK'
  <2>1. TerminalTypeOK' /\ returned' \subseteq 1..Incarnation(Len(log))'
    BY <1>1, <1>5, <1>7 DEF TerminalInv, TypeOK
  <2> QED
    BY <1>1, <1>3, <2>1 DEF TypeOK
<1>10. ReactorTypeOK'
  BY <1>1, <1>3 DEF ReactorTypeOK
<1>11. CleanUpSparesNext'
  BY <1>1, <1>4, <1>5 DEF CleanUpSparesNext
<1> QED
  BY <1>7, <1>8, <1>9, <1>10, <1>11 DEF IInv

-----------------------------------------------------------------------------
(* The steps of the terminals.                                              *)

\* When only terminals step, the reactor, the log and the users stay.
LEMMA ReactorStays ==
    ASSUME IInv, UNCHANGED <<log, delivered, seen, deletions, outstanding, creating, returned>>,
           cleaning'.sequence = cleaning.sequence, TerminalInv',
           cleaning' \in {NotCleaning} \cup [at: {"provider", "terminals", "closing"}, sequence: 1..delivered],
           cleaning' = NotCleaning <=> cleaning = NotCleaning,
           operation'.kind = "cleanUp" => cleaning'.at = "closing" /\ operation'.deleted = Terminals,
           late' \subseteq Terminals, ContentBelongs'
    PROVE  IInv'
<1>1. TypeOK /\ ReactorTypeOK /\ CleanUpSparesNext
  BY DEF IInv
<1>2. (\A n : Incarnation(n)' = Incarnation(n)) /\ Incarnation(Len(log))' = Incarnation(Len(log))
  BY DEF Incarnation
<1>3. TypeOK'
  <2>1. TerminalTypeOK' /\ returned' \subseteq 1..Incarnation(Len(log))'
    BY <1>1, <1>2 DEF TerminalInv, TypeOK
  <2> QED
    BY <1>1, <2>1 DEF TypeOK
<1>4. ReactorTypeOK'
  BY <1>1 DEF ReactorTypeOK
<1>5. Unfinished' = Unfinished
  BY DEF Unfinished
<1>6. CleanUpSparesNext'
  BY <1>1, <1>2, <1>5 DEF CleanUpSparesNext
<1> QED
  BY <1>3, <1>4, <1>6 DEF IInv

LEMMA UsersStay ==
    ASSUME UNCHANGED <<log, delivered, deletions, returned, cleaning>>
    PROVE  Users' = Users /\ InUse' = InUse
<1>1. Unfinished' = Unfinished /\ Exists' = Exists
  BY DEF Unfinished, Exists
<1>2. (\A n : Incarnation(n)' = Incarnation(n)) /\ Incarnation(Len(log))' = Incarnation(Len(log))
  BY DEF Incarnation
<1> QED
  BY <1>1, <1>2 DEF Users, InUse

LEMMA CloseTerminalsKeeps ==
    ASSUME IInv, CloseTerminals
    PROVE  IInv'
<1>1. /\ TypeOK /\ ReactorTypeOK /\ TerminalInv
      /\ cleaning.at = "terminals" /\ cleaning' = [cleaning EXCEPT !.at = "closing"]
      /\ Close("cleanUp", WithSession, Terminals)
      /\ UNCHANGED <<log, creating, returned, late, delivered, seen, deletions, outstanding>>
      /\ late' \subseteq Terminals
  BY DEF IInv, TypeOK, CloseTerminals, clientVars
<1>2. TerminalInv'
  BY <1>1, CloseKeeps DEF WithSession
<1>3. /\ operation' = CloseWork("cleanUp", WithSession, {}, Terminals)
      /\ operation'.kind = "cleanUp" /\ operation'.deleted = Terminals
      /\ UNCHANGED <<objects, sessions, files, latest, fiber, abandoned, forgotten>>
  BY <1>1 DEF Close, CloseWork, sessionVars, persistVars
<1>4. /\ cleaning \in [at: {"provider", "terminals", "closing"}, sequence: 1..delivered]
      /\ cleaning # NotCleaning
  BY <1>1 DEF ReactorTypeOK, NotCleaning
<1>5. /\ cleaning' = [at |-> "closing", sequence |-> cleaning.sequence]
      /\ cleaning'.at = "closing" /\ cleaning'.sequence = cleaning.sequence
      /\ cleaning' # NotCleaning
      /\ cleaning' \in [at: {"provider", "terminals", "closing"}, sequence: 1..delivered]
  BY <1>1, <1>4 DEF NotCleaning
<1>6. Unfinished' = Unfinished /\ Exists' = Exists /\ (\A n : Incarnation(n)' = Incarnation(n))
      /\ Incarnation(Len(log))' = Incarnation(Len(log))
  BY <1>1, <1>5 DEF Unfinished, Exists, Incarnation
<1>7. Users' = Users
  BY <1>1, <1>6 DEF Users
<1>8. ContentBelongs'
  <2>1. operation' \notin Works'
    BY <1>3 DEF Works
  <2>2. \A t \in Terminals \ (forgotten \cup late) : Belongs(t, Users)'
    BY <1>3, <1>7 DEF IInv, ContentBelongs, Belongs, References, BeingWritten
  <2> QED
    BY <1>1, <1>3, <2>1, <2>2 DEF ContentBelongs
<1> QED
  BY <1>1, <1>2, <1>3, <1>4, <1>5, <1>8, ReactorStays

\* What a client starts is for an incarnation in use, or its terminal is noted.
LEMMA UseTerminalKeeps ==
    ASSUME IInv, UseTerminal
    PROVE  IInv'
<1>1. PICK t1 \in Terminals, i \in returned :
        \/ StartRequest(t1, i) /\ late' = late \cup (IF i \in InUse THEN {} ELSE {t1})
        \/ CloseRequest(t1) /\ late' = late
  BY DEF UseTerminal
<1>2. /\ TypeOK /\ ReactorTypeOK /\ TerminalInv
      /\ UNCHANGED <<log, creating, returned, delivered, seen, deletions, outstanding, cleaning>>
  BY DEF IInv, UseTerminal, reactorVars
<1>3. i \in Incarnations
  BY <1>2, LogTypes DEF Incarnations
<1>4. TerminalInv'
  BY <1>1, <1>2, <1>3, RequestKeeps
<1>5. Users' = Users /\ InUse' = InUse
  BY <1>2, UsersStay
<1>6. /\ operation = NoOperation /\ operation.kind # "cleanUp" /\ operation'.kind # "cleanUp"
      /\ operation'.kind \in {"open", "restart"} =>
            StartRequest(t1, i) /\ operation'.owner = i /\ operation'.terminal = t1
      /\ forgotten' = forgotten
  BY <1>1 DEF StartRequest, CloseRequest, OpenWithoutSession, RestartWithoutSession, ClearAndRestart,
              Close, Work, CloseWork, NoOperation
<1>7. /\ late \subseteq late' /\ late' \subseteq Terminals
      /\ StartRequest(t1, i) /\ t1 \notin late' => i \in InUse
  <2>1. StartRequest(t1, i) => ~CloseRequest(t1)
    BY DEF StartRequest, CloseRequest, OpenWithoutSession, RestartWithoutSession, ClearAndRestart,
           Close, Work, CloseWork
  <2> QED
    BY <1>1, <1>2, <2>1 DEF TypeOK
<1>8. ContentBelongs'
  <2>1. PICK U, V : U = Users /\ V = InUse
    OBVIOUS
  <2>2. \A t \in Terminals \ (forgotten \cup late') :
            Belongs(t, U)' /\ (cleaning.at = "closing" => Belongs(t, V)')
    <3> SUFFICES ASSUME NEW t \in Terminals \ (forgotten \cup late')
                 PROVE  Belongs(t, U)' /\ (cleaning.at = "closing" => Belongs(t, V)')
      OBVIOUS
    <3>1. Belongs(t, U) /\ (cleaning.at = "closing" => Belongs(t, V))
      BY <1>6, <1>7, <2>1 DEF IInv, ContentBelongs
    <3>2. StartRequest(t1, i) /\ t1 = t => i \in U /\ i \in V
      BY <1>7, <2>1, InUseAreUsers
    <3> QED
      BY <1>1, <1>2, <1>3, <3>1, <3>2, RequestBelongs
  <2>3. \A t \in Terminals \ (forgotten \cup late') :
            Belongs(t, Users)' /\ (cleaning.at = "closing" => Belongs(t, InUse)')
    BY <1>5, <2>1, <2>2 DEF Belongs
  <2>4. operation' \in Works' /\ operation'.terminal \notin late' => operation'.owner \in InUse'
    <3>1. operation' \in Works' => operation'.kind \in {"open", "restart"}
      BY DEF Works
    <3> QED
      BY <1>5, <1>6, <1>7, <3>1
  <2> QED
    BY <1>2, <1>6, <2>3, <2>4 DEF ContentBelongs
<1>9. cleaning' \in {NotCleaning} \cup [at: {"provider", "terminals", "closing"}, sequence: 1..delivered]
  BY <1>2 DEF ReactorTypeOK
<1> QED
  BY <1>2, <1>4, <1>6, <1>7, <1>8, <1>9, ReactorStays

\* An operation stays of its kind, owner and terminal until it is over.
LEMMA OperationsGoOn ==
    ASSUME TerminalInv, TerminalStep
    PROVE  \/ operation' = operation
           \/ operation' = NoOperation
           \/ /\ operation'.kind \in {"open", "restart"} /\ operation \in Works
              /\ operation'.owner = operation.owner /\ operation'.terminal = operation.terminal
           \/ Closing /\ operation'.kind = operation.kind /\ operation'.deleted = operation.deleted
<1>1. CASE OpenRead
  BY <1>1, OpenReadFacts DEF Work
<1>2. CASE RestartFlushed
  <2>1. operation = Work("restart", operation.terminal, operation.object, operation.owner, "flush")
        /\ operation \in Works
    BY <1>2, Kinds DEF RestartFlushed, TerminalInv
  <2>2. operation' = Work("restart", operation.terminal, operation.object, operation.owner, "spawn")
    BY <1>2, <2>1 DEF RestartFlushed, Work
  <2> QED
    BY <2>1, <2>2 DEF Work
<1>3. CASE CloseNext \/ CloseFlushed
  <2>1. Closing
    BY <1>3 DEF CloseNext, CloseFlushed
  <2>2. CloseNext => operation'.kind = operation.kind /\ operation'.deleted = operation.deleted
    BY DEF CloseNext, FlushWork
  <2>3. CloseFlushed => operation'.kind = operation.kind /\ operation'.deleted = operation.deleted
    BY DEF CloseFlushed, Flushed, CloseWork
  <2> QED
    BY <1>3, <2>1, <2>2, <2>3
<1> QED
  BY <1>1, <1>2, <1>3 DEF TerminalStep, Output, ProcessExits, Evict, PersistTake, PersistWrite,
                          PersistRefused, PersistDies, Spawn, CloseEnds

LEMMA TerminalsWorkKeeps ==
    ASSUME IInv, TerminalsWork
    PROVE  IInv'
<1>1. /\ TypeOK /\ ReactorTypeOK /\ TerminalInv /\ TerminalStep
      /\ UNCHANGED <<log, creating, returned, late, delivered, seen, deletions, outstanding, cleaning>>
      /\ late' \subseteq Terminals
  BY DEF IInv, TypeOK, TerminalsWork, clientVars, reactorVars
<1>2. TerminalInv'
  BY <1>1, TerminalStepKeeps
<1>3. Users' = Users /\ InUse' = InUse /\ InUse \subseteq Users
  BY <1>1, UsersStay, InUseAreUsers
<1>4. forgotten \subseteq forgotten'
  BY <1>1 DEF TerminalStep, Output, ProcessExits, Evict, PersistTake, PersistWrite, PersistRefused,
              PersistDies, OpenRead, RestartFlushed, Spawn, CloseNext, CloseFlushed, CloseEnds
<1>5. /\ operation \in Works => operation.kind # "cleanUp"
      /\ operation'.kind = "cleanUp" => operation.kind = "cleanUp" /\ operation'.deleted = operation.deleted
      /\ operation.kind = "cleanUp" /\ operation'.kind # "cleanUp" => operation' = NoOperation
      /\ operation' \in Works' /\ operation'.terminal \notin late => operation'.owner \in InUse'
  <2>1. NoOperation.kind = "none" /\ operation \notin Works \cap Closings
    BY Kinds DEF NoOperation, Works, Closings
  <2>2. operation \in Works => /\ operation.terminal \notin late => operation.owner \in InUse
                               /\ operation.kind \in {"open", "restart"}
    BY DEF IInv, ContentBelongs, Works
  <2>3. operation'.kind \in {"open", "restart"} => operation \in Works
    <3>1. operation' = operation => (operation'.kind \in {"open", "restart"} => operation \in Works)
      BY <1>1, Kinds DEF TerminalInv
    <3> QED
      BY <1>1, <2>1, <3>1, OperationsGoOn DEF Closing
  <2>4. operation' \in Works' => operation'.kind \in {"open", "restart"}
    BY DEF Works
  <2> QED
    BY <1>1, <1>3, <2>1, <2>2, <2>3, <2>4, OperationsGoOn DEF Closing
<1>6. ContentBelongs'
  <2>1. PICK U, V : U = Users /\ V = InUse
    OBVIOUS
  <2> SUFFICES ASSUME NEW t \in Terminals \ (forgotten' \cup late)
               PROVE  Belongs(t, U)' /\ (cleaning.at = "closing" /\ operation'.kind # "cleanUp" => Belongs(t, V)')
    BY <1>1, <1>3, <1>5, <2>1 DEF ContentBelongs, Belongs
  <2>2. /\ t \in Terminals \ forgotten /\ Belongs(t, U)
        /\ operation \in Works /\ operation.terminal = t => operation.owner \in U /\ operation.owner \in V
        /\ cleaning.at = "closing" /\ operation.kind # "cleanUp" => Belongs(t, V)
    BY <1>3, <1>4, <1>5, <2>1 DEF IInv, ContentBelongs
  <2>3. Belongs(t, U)'
    BY <1>1, <2>2, StepBelongs
  <2>4. CASE cleaning.at = "closing" /\ operation.kind # "cleanUp"
    BY <1>1, <2>2, <2>3, <2>4, StepBelongs
  <2>5. CASE operation.kind = "cleanUp" /\ operation'.kind # "cleanUp"
    <3>1. operation' = NoOperation /\ operation # NoOperation
      BY <1>5, <2>5 DEF NoOperation
    <3>2. CloseEnds
      BY <1>1, <2>5, <3>1 DEF TerminalStep, Output, ProcessExits, Evict, PersistTake, PersistWrite,
           PersistRefused, PersistDies, OpenRead, RestartFlushed, Spawn, CloseNext, CloseFlushed,
           FlushWork, Flushed, CloseWork, NoOperation
    <3>3. t \in operation.deleted \ forgotten'
      BY <1>1, <2>5 DEF ReactorTypeOK
    <3>4. /\ files'[t] = NoFile /\ sessions[t] = 0 /\ Persist!Drained(t) /\ UNCHANGED <<sessionVars, persistVars>>
      BY <1>1, <3>2, <3>3, CloseEndsFacts
    <3>5. References(t)' = {}
      BY <1>1, <3>4, DrainedIsQuiet DEF References, BeingWritten, sessionVars, persistVars
    <3> QED
      BY <2>3, <3>4, <3>5 DEF Belongs
  <2> QED
    BY <2>3, <2>4, <2>5
<1>7. cleaning' \in {NotCleaning} \cup [at: {"provider", "terminals", "closing"}, sequence: 1..delivered]
  BY <1>1 DEF ReactorTypeOK
<1>8. operation'.kind = "cleanUp" => cleaning'.at = "closing" /\ operation'.deleted = Terminals
  BY <1>1, <1>5 DEF ReactorTypeOK
<1> QED
  BY <1>1, <1>2, <1>6, <1>7, <1>8, ReactorStays

\* After a restart no clean-up is to come, and only the files are left.
LEMMA RestartKeeps ==
    ASSUME IInv, Restart
    PROVE  IInv'
<1> DEFINE lost == IF delivered = Len(log) /\ outstanding = 0 THEN {} ELSE Terminals
<1>1. /\ TypeOK /\ ReactorTypeOK /\ TerminalInv /\ TerminalCrash(lost)
      /\ delivered' = Len(log) /\ seen' = Len(log) /\ deletions' = <<>> /\ outstanding' = 0
      /\ cleaning' = NotCleaning /\ creating' = {} /\ log' = log /\ late' = late
      /\ returned' = returned \cup (IF Exists THEN {Incarnation(Len(log))} ELSE {})
  BY DEF IInv, Restart
<1>2. TerminalInv'
  BY <1>1, CrashKeeps
<1>3. /\ sessions' = [t \in Terminals |-> 0] /\ latest' = [t \in Terminals |-> 0] /\ fiber'.at = "idle"
      /\ files' = files /\ forgotten' = forgotten \cup lost /\ operation' = NoOperation
      /\ operation'.kind = "none"
  BY <1>1 DEF TerminalCrash, Persist!Restart, Persist!Idle, NoRequest, NoOperation
<1>4. (\A n : Incarnation(n)' = Incarnation(n)) /\ Exists' = Exists
      /\ Incarnation(Len(log))' = Incarnation(Len(log))
  BY <1>1 DEF Incarnation, Exists
<1>5. Len(log) \in Nat /\ cleaning'.sequence = 0 /\ cleaning'.at = "idle"
      /\ deletions' \in Seq(Nat) /\ Len(deletions') = 0 /\ DOMAIN deletions' = {}
  BY <1>1, LogTypes DEF NotCleaning
<1>6. Unfinished' = {}
  BY <1>1, <1>5 DEF Unfinished
<1>7. TypeOK'
  <2>1. returned' \subseteq 1..Incarnation(Len(log))
    <3>1. Exists => Incarnation(Len(log)) \in 1..Incarnation(Len(log))
      <4> SUFFICES ASSUME Exists PROVE Incarnation(Len(log)) \in 1..Incarnation(Len(log))
        OBVIOUS
      <4>1. Len(log) \in Nat \ {0} /\ log[Len(log)] = "created" /\ Incarnation(Len(log)) \in Nat
        BY <1>1, LogTypes
      <4>2. Incarnation(Len(log)) >= 1
        BY <4>1, CreatedIsOne
      <4> QED
        BY <4>1, <4>2
    <3> QED
      BY <1>1, <3>1 DEF TypeOK
  <2>2. TerminalTypeOK' /\ returned' \subseteq 1..Incarnation(Len(log))'
    BY <1>2, <1>4, <2>1 DEF TerminalInv
  <2> QED
    BY <1>1, <1>5, <2>2 DEF TypeOK
<1>8. ReactorTypeOK'
  BY <1>1, <1>3, <1>5 DEF ReactorTypeOK
<1>9. CleanUpSparesNext'
  BY <1>6 DEF CleanUpSparesNext
<1>10. ContentBelongs'
  <2>1. operation' \notin Works'
    BY <1>3 DEF Works
  <2>2. \A t \in Terminals \ (forgotten' \cup late') : Belongs(t, Users)'
    <3> SUFFICES ASSUME NEW t \in Terminals \ (forgotten' \cup late') PROVE Belongs(t, Users)'
      OBVIOUS
    <3>1. lost = {} /\ delivered = Len(log) /\ outstanding = 0 /\ t \in Terminals \ (forgotten \cup late)
      BY <1>1, <1>3
    <3>2. cleaning = NotCleaning /\ deletions = <<>>
      BY <1>1, <3>1, LogTypes, EmptySeq DEF TypeOK
    <3>3. Unfinished = {}
      BY <1>1, <3>1, <3>2, LogTypes DEF Unfinished
    <3>4. Users \subseteq Users'
      BY <1>1, <1>4, <3>3 DEF Users
    <3>5. References(t)' = {}
      BY <1>3 DEF References, BeingWritten
    <3> QED
      BY <1>3, <3>1, <3>4, <3>5 DEF IInv, ContentBelongs, Belongs
  <2> QED
    BY <1>5, <2>1, <2>2 DEF ContentBelongs
<1> QED
  BY <1>2, <1>7, <1>8, <1>9, <1>10 DEF IInv

LEMMA StutterKeeps ==
    ASSUME IInv, UNCHANGED vars
    PROVE  IInv'
<1>1. /\ UNCHANGED terminalVars
      /\ UNCHANGED <<log, creating, returned, late, delivered, seen, deletions, outstanding, cleaning>>
      /\ late' \subseteq Terminals
  BY DEF IInv, TypeOK, vars, reactorVars, clientVars
<1>2. TerminalInv' /\ operation' = operation
  BY <1>1, TerminalsStay DEF IInv
<1>3. Users' = Users /\ InUse' = InUse
  BY <1>1, UsersStay
<1>4. ContentBelongs'
  BY <1>1, <1>3, ContentStays
<1>5. ReactorTypeOK
  BY DEF IInv
<1> QED
  BY <1>1, <1>2, <1>4, <1>5, ReactorStays DEF ReactorTypeOK

-----------------------------------------------------------------------------
(* The theorems.                                                            *)

LEMMA NextKeepsIInv ==
    ASSUME IInv, [Next]_vars
    PROVE  IInv'
<1>1. CASE CreateThread \/ DeleteThread \/ \E sequence \in creating : DrainedThrough(sequence)
  BY <1>1, CreateThreadKeeps, DeleteThreadKeeps, DrainedThroughKeeps
<1>2. CASE Deliver \/ NoteSeen \/ TakeDeletion \/ StopProviderSession \/ CloseTerminals \/ CleaningDone
  BY <1>2, DeliverKeeps, NoteSeenKeeps, TakeDeletionKeeps, StopProviderSessionKeeps,
     CloseTerminalsKeeps, CleaningDoneKeeps
<1>3. CASE UseTerminal \/ TerminalsWork \/ Restart \/ UNCHANGED vars
  BY <1>3, UseTerminalKeeps, TerminalsWorkKeeps, RestartKeeps, StutterKeeps
<1> QED
  BY <1>1, <1>2, <1>3 DEF Next

\* The inductive invariant holds throughout.
THEOREM DeletionInvariant == Spec => []IInv
<1>1. Init => IInv
  BY InitIInv
<1>2. IInv /\ [Next]_vars => IInv'
  BY NextKeepsIInv
<1> QED
  BY <1>1, <1>2, PTL DEF Spec

\* The state has its types, and the DrainableWorker's count is what its queue holds
\* and its fiber has in hand: outstanding in ThreadDeletionReactor.
THEOREM DeletionTypes == Spec => []TypeOK
<1>1. IInv => TypeOK
  BY DEF IInv
<1> QED
  BY <1>1, DeletionInvariant, PTL

\* The fence of drainThrough: while the clean-up of a deletion is to come or under
\* way, no create after it has answered.
THEOREM CleanUpAlwaysSparesNext == Spec => []CleanUpSparesNext
<1>1. IInv => CleanUpSparesNext
  BY DEF IInv
<1> QED
  BY <1>1, DeletionInvariant, PTL

\* A session's history is all of its own incarnation, and once the create of a
\* thread has answered, no session, history file or outstanding write of its
\* terminals holds a line of an earlier thread: closeSession and deleteHistory
\* between drained writes.  Excepted are the terminals in forgotten (an eviction, a
\* refused write or removal, a crash) and in late (a client started one for a thread
\* whose clean-up was over, which the code accepts).
THEOREM NothingIsInherited == Spec => []NoInheritedHistory
<1>1. IInv => NoInheritedHistory
  BY NothingInherited
<1> QED
  BY <1>1, DeletionInvariant, PTL

\* Closing a thread's terminals stops every process of theirs: one that runs is its
\* terminal's session, but for an object evicted during its own open or restart.
THEOREM NoProcessIsOrphaned == Spec => []NoOrphanProcess
<1>1. IInv => NoOrphanProcess
  BY DEF IInv, TerminalInv
<1> QED
  BY <1>1, DeletionInvariant, PTL

\* The persist worker strands no key, whatever fails.
THEOREM HistoriesAlwaysGetWritten == Spec => []HistoriesGetWritten
<1>1. IInv => HistoriesGetWritten
  BY DEF IInv, TerminalInv
<1> QED
  BY <1>1, DeletionInvariant, PTL

\* An open that finds no session shows the whole history the terminal showed last.
THEOREM ReopensInFullAlways == Spec => ReopenedInFull
<1>1. IInv /\ [Next]_vars => [ReopensInFull]_terminalVars
  <2> SUFFICES ASSUME IInv, [Next]_vars, ~UNCHANGED terminalVars PROVE ReopensInFull
    OBVIOUS
  <2>1. TerminalInv
    BY DEF IInv
  <2>2. CASE UseTerminal
    BY <2>2, RequestReopens DEF UseTerminal
  <2>3. CASE TerminalsWork
    BY <2>1, <2>3, TerminalStepReopens DEF TerminalsWork
  <2>4. CASE CloseTerminals
    <3>1. operation = NoOperation
      BY <2>4 DEF CloseTerminals, Close
    <3> QED
      BY <3>1, NothingElseOpens
  <2>5. CASE Restart
    <3>1. \A t \in Terminals : sessions'[t] \in {0, sessions[t]}
      BY <2>5 DEF Restart, TerminalCrash
    <3> QED
      BY <3>1, NothingElseOpens
  <2>6. CASE \/ CreateThread \/ DeleteThread \/ \E sequence \in creating : DrainedThrough(sequence)
             \/ Deliver \/ NoteSeen \/ TakeDeletion \/ StopProviderSession \/ CleaningDone
             \/ UNCHANGED vars
    BY <2>6 DEF CreateThread, DeleteThread, DrainedThrough, Answer, Deliver, NoteSeen, TakeDeletion,
                StopProviderSession, CleaningDone, vars
  <2> QED
    BY <2>2, <2>3, <2>4, <2>5, <2>6 DEF Next
<1>2. [ReopensInFull]_terminalVars =>
        [\A t \in Terminals \ forgotten :
            operation.kind = "open" /\ operation.at = "read" /\ shown[t] # 0
                /\ sessions'[t] \notin {0, sessions[t]}
            => objects'[sessions'[t]].history = objects[shown[t]].history]_terminalVars
  BY DEF ReopensInFull
<1> QED
  BY <1>1, <1>2, DeletionInvariant, PTL DEF Spec, ReopenedInFull
=============================================================================
