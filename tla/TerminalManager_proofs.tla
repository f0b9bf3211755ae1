----------------------- MODULE TerminalManager_proofs -----------------------
(***************************************************************************)
(* TLAPS proofs about the terminals of a thread and their persist worker,  *)
(* for any set of terminals and any length of a history.  Each lemma says  *)
(* what one kind of step preserves; ThreadDeletion_proofs puts them        *)
(* together.                                                               *)
(***************************************************************************)
EXTENDS TerminalManager, SequenceTheorems, TLAPS

-----------------------------------------------------------------------------
(* The persist worker.                                                      *)

WorkerTypeOK ==
    /\ latest \in [Terminals -> Nat]
    /\ queuedKeys \subseteq Terminals /\ activeKeys \subseteq Terminals /\ queue \in Seq(Terminals)

\* The head of a queue of different keys is not in its tail, and any other key is.
LEMMA TailFacts ==
    ASSUME NEW S, NEW q \in Seq(S), q # <<>>
    PROVE  /\ Head(q) = q[1] /\ Head(q) \in S /\ 1 \in DOMAIN q
           /\ Tail(q) \in Seq(S)
           /\ DOMAIN Tail(q) = 1..(Len(q) - 1) /\ DOMAIN q = 1..Len(q) /\ Len(q) \in Nat \ {0}
           /\ \A i \in 1..(Len(q) - 1) : Tail(q)[i] = q[i + 1]
<1>1. Len(q) \in Nat \ {0} /\ DOMAIN q = 1..Len(q)
  BY EmptySeq
<1>2. /\ Tail(q) \in Seq(S) /\ Len(Tail(q)) = Len(q) - 1
      /\ \A i \in 1..Len(Tail(q)) : Tail(q)[i] = q[i + 1]
  BY HeadTailProperties
<1> QED
  BY <1>1, <1>2

\* Whatever is enqueued, nothing is stranded: the key is queued, unless it is
\* queued or active already.
LEMMA EnqueueStrands ==
    ASSUME WorkerTypeOK, Persist!NothingStranded, NEW t \in Terminals, NEW o \in Nat,
           Persist!Enqueue(t, o)
    PROVE  /\ WorkerTypeOK' /\ Persist!NothingStranded'
           /\ latest' = [latest EXCEPT ![t] = o] /\ fiber' = fiber /\ activeKeys' = activeKeys
<1>1. latest' = [latest EXCEPT ![t] = o] /\ UNCHANGED <<activeKeys, fiber>>
  BY DEF Persist!Enqueue, MergeRequests
<1>2. WorkerTypeOK'
  <2>1. queuedKeys' \subseteq Terminals /\ queue' \in Seq(Terminals)
    <3>1. CASE t \in queuedKeys \cup activeKeys
      BY <3>1 DEF WorkerTypeOK, Persist!Enqueue
    <3>2. CASE t \notin queuedKeys \cup activeKeys
      <4>1. queuedKeys' = queuedKeys \cup {t} /\ queue' = Append(queue, t)
        BY <3>2 DEF Persist!Enqueue
      <4>2. Append(queue, t) \in Seq(Terminals)
        BY AppendProperties DEF WorkerTypeOK
      <4> QED
        BY <4>1, <4>2 DEF WorkerTypeOK
    <3> QED
      BY <3>1, <3>2
  <2>2. latest' \in [Terminals -> Nat]
    BY <1>1 DEF WorkerTypeOK
  <2> QED
    BY <1>1, <2>1, <2>2 DEF WorkerTypeOK
<1>3. CASE t \in queuedKeys \cup activeKeys
  <2>1. UNCHANGED <<queuedKeys, queue>>
    BY <1>3 DEF Persist!Enqueue
  <2> QED
    BY <1>1, <1>2, <1>3, <2>1 DEF Persist!NothingStranded, Persist!OnFiber, WorkerTypeOK
<1>4. CASE t \notin queuedKeys \cup activeKeys
  <2>1. queuedKeys' = queuedKeys \cup {t} /\ queue' = Append(queue, t)
    BY <1>4 DEF Persist!Enqueue
  <2>2. /\ DOMAIN queue = 1..Len(queue) /\ Len(queue) \in Nat
        /\ DOMAIN queue' = 1..(Len(queue) + 1)
        /\ \A i \in 1..Len(queue) : queue'[i] = queue[i]
        /\ queue'[Len(queue) + 1] = t
    BY <2>1 DEF WorkerTypeOK
  <2>3. ~Persist!OnFiber(t) /\ \A i \in DOMAIN queue : queue[i] # t
    BY <1>4 DEF Persist!NothingStranded, Persist!OnFiber
  <2>4. \A key \in Terminals : latest'[key] # NoRequest => key \in queuedKeys' \cup activeKeys'
    BY <1>1, <2>1 DEF Persist!NothingStranded, WorkerTypeOK
  <2>5. \A key \in queuedKeys' : Persist!OnFiber(key)' \/ \E i \in DOMAIN queue' : queue'[i] = key
    BY <1>1, <2>1, <2>2 DEF Persist!NothingStranded, Persist!OnFiber
  <2>6. (\A i \in DOMAIN queue : queue[i] \in queuedKeys /\ ~Persist!OnFiber(queue[i]))'
    <3>1. \A i \in 1..Len(queue) : queue'[i] \in queuedKeys' /\ ~Persist!OnFiber(queue[i])'
      BY <1>1, <2>1, <2>2 DEF Persist!NothingStranded, Persist!OnFiber
    <3>2. ~Persist!OnFiber(t)'
      BY <1>1, <2>3 DEF Persist!OnFiber
    <3>3. \A i \in 1..(Len(queue) + 1) : i \in 1..Len(queue) \/ i = Len(queue) + 1
      BY <2>2
    <3> SUFFICES ASSUME NEW i \in DOMAIN queue'
                 PROVE  queue'[i] \in queuedKeys' /\ ~Persist!OnFiber(queue[i])'
      OBVIOUS
    <3>4. CASE i \in 1..Len(queue)
      BY <3>1, <3>4
    <3>5. CASE i = Len(queue) + 1
      <4>1. queue'[i] = t
        BY <2>2, <3>5
      <4> QED
        BY <3>2, <4>1, <2>1 DEF Persist!OnFiber
    <3> QED
      BY <2>2, <3>3, <3>4, <3>5
  <2>7. \A i, j \in DOMAIN queue' : queue'[i] = queue'[j] => i = j
    BY <2>2, <2>3 DEF Persist!NothingStranded
  <2>8. activeKeys' = (IF fiber'.at = "processing" THEN {fiber'.key} ELSE {})
        /\ (fiber'.at # "idle" => fiber'.key \in Terminals)
        /\ (fiber'.at \in {"taken", "requeueing"} => fiber'.key \in queuedKeys')
    BY <1>1, <2>1 DEF Persist!NothingStranded
  <2> QED
    BY <1>1, <1>2, <2>4, <2>5, <2>6, <2>7, <2>8 DEF Persist!NothingStranded
<1> QED
  BY <1>3, <1>4

LEMMA TakeStrands ==
    ASSUME WorkerTypeOK, Persist!NothingStranded, Persist!Take
    PROVE  WorkerTypeOK' /\ Persist!NothingStranded' /\ fiber'.at = "taken" /\ fiber'.key \in Terminals
<1>1. /\ fiber = Persist!Idle /\ queue # <<>> /\ fiber' = Persist!Taken(Head(queue))
      /\ queue' = Tail(queue) /\ UNCHANGED <<latest, queuedKeys, activeKeys>>
  BY DEF Persist!Take
<1>2. /\ Head(queue) = queue[1] /\ Head(queue) \in Terminals /\ 1 \in DOMAIN queue
      /\ queue' \in Seq(Terminals) /\ Len(queue) \in Nat \ {0}
      /\ DOMAIN queue' = 1..(Len(queue) - 1) /\ DOMAIN queue = 1..Len(queue)
      /\ \A i \in 1..(Len(queue) - 1) : queue'[i] = queue[i + 1]
  BY <1>1, TailFacts DEF WorkerTypeOK
<1>3. fiber.at = "idle" /\ fiber'.at = "taken" /\ fiber'.key = queue[1]
  BY <1>1, <1>2 DEF Persist!Idle, Persist!Taken
<1>4. \A key : ~Persist!OnFiber(key) /\ (Persist!OnFiber(key)' <=> key = queue[1])
  BY <1>3 DEF Persist!OnFiber
<1>5. \A i \in DOMAIN queue' : i + 1 \in DOMAIN queue /\ queue'[i] = queue[i + 1] /\ queue'[i] # queue[1]
  <2>1. \A i \in 1..(Len(queue) - 1) : i + 1 \in DOMAIN queue /\ i + 1 # 1
    BY <1>2
  <2> QED
    BY <1>2, <2>1 DEF Persist!NothingStranded
<1>6. \A key \in queuedKeys : Persist!OnFiber(key)' \/ \E i \in DOMAIN queue' : queue'[i] = key
  <2> SUFFICES ASSUME NEW key \in queuedKeys, key # queue[1] PROVE \E i \in DOMAIN queue' : queue'[i] = key
    BY <1>4
  <2>1. PICK i \in DOMAIN queue : queue[i] = key
    BY <1>4 DEF Persist!NothingStranded
  <2>2. i - 1 \in DOMAIN queue' /\ queue'[i - 1] = key
    BY <1>2, <2>1
  <2> QED
    BY <2>2
<1>7. \A i, j \in DOMAIN queue' : queue'[i] = queue'[j] => i = j
  <2>1. \A i, j \in DOMAIN queue' : queue'[i] = queue'[j] => i + 1 = j + 1
    BY <1>5 DEF Persist!NothingStranded
  <2> QED
    BY <1>2, <2>1
<1> QED
  BY <1>1, <1>2, <1>3, <1>4, <1>5, <1>6, <1>7 DEF Persist!NothingStranded, WorkerTypeOK

LEMMA LookStrands ==
    ASSUME WorkerTypeOK, Persist!NothingStranded, Persist!Look
    PROVE  /\ WorkerTypeOK' /\ Persist!NothingStranded'
           /\ fiber.at = "taken" /\ fiber.key \in Terminals
           /\ latest' = [latest EXCEPT ![fiber.key] = NoRequest]
           /\ IF latest[fiber.key] = NoRequest THEN fiber' = Persist!Idle
              ELSE fiber' = Persist!Processing(fiber.key, latest[fiber.key])
<1>1. /\ fiber.at = "taken" /\ fiber.key \in Terminals /\ fiber.key \in queuedKeys
      /\ queuedKeys' = queuedKeys \ {fiber.key} /\ queue' = queue
      /\ latest' = [latest EXCEPT ![fiber.key] = NoRequest]
      /\ activeKeys = {}
  BY DEF Persist!Look, Persist!NothingStranded
<1>2. \A i \in DOMAIN queue : queue[i] # fiber.key
  BY <1>1 DEF Persist!NothingStranded, Persist!OnFiber
<1>3. CASE latest[fiber.key] = NoRequest
  <2>1. fiber' = Persist!Idle /\ activeKeys' = activeKeys /\ fiber'.at = "idle"
    BY <1>3 DEF Persist!Look, Persist!Idle
  <2> QED
    BY <1>1, <1>2, <1>3, <2>1 DEF Persist!NothingStranded, Persist!OnFiber, WorkerTypeOK
<1>4. CASE latest[fiber.key] # NoRequest
  <2>1. /\ fiber' = Persist!Processing(fiber.key, latest[fiber.key])
        /\ activeKeys' = {fiber.key} /\ fiber'.at = "processing" /\ fiber'.key = fiber.key
    BY <1>1, <1>4 DEF Persist!Look, Persist!Processing
  <2>2. WorkerTypeOK'
    <3>1. latest' \in [Terminals -> Nat]
      BY <1>1, <2>1 DEF WorkerTypeOK, NoRequest
    <3> QED
      BY <1>1, <2>1, <3>1 DEF WorkerTypeOK
  <2>3. \A key : ~Persist!OnFiber(key)'
    BY <2>1 DEF Persist!OnFiber
  <2>4. \A key \in queuedKeys' : \E i \in DOMAIN queue' : queue'[i] = key
    BY <1>1 DEF Persist!NothingStranded, Persist!OnFiber
  <2>5. \A key \in Terminals : latest'[key] # NoRequest => key \in queuedKeys' \cup activeKeys'
    BY <1>1, <2>1 DEF Persist!NothingStranded, WorkerTypeOK
  <2>6. \A i \in DOMAIN queue' : queue'[i] \in queuedKeys'
    BY <1>1, <1>2 DEF Persist!NothingStranded
  <2>7. \A i, j \in DOMAIN queue' : queue'[i] = queue'[j] => i = j
    BY <1>1 DEF Persist!NothingStranded
  <2> QED
    BY <1>1, <1>4, <2>1, <2>2, <2>3, <2>4, <2>5, <2>6, <2>7 DEF Persist!NothingStranded
<1> QED
  BY <1>3, <1>4

LEMMA FinishStrands ==
    ASSUME WorkerTypeOK, Persist!NothingStranded, Persist!Finish
    PROVE  /\ WorkerTypeOK' /\ Persist!NothingStranded'
           /\ fiber.at = "processing" /\ fiber.key \in Terminals
           /\ latest' = [latest EXCEPT ![fiber.key] = NoRequest]
           /\ IF latest[fiber.key] = NoRequest THEN fiber' = Persist!Idle
              ELSE fiber' = Persist!Processing(fiber.key, latest[fiber.key])
<1>1. /\ fiber.at = "processing" /\ fiber.key \in Terminals /\ activeKeys = {fiber.key}
      /\ UNCHANGED <<queuedKeys, queue>>
  BY DEF Persist!Finish, Persist!NothingStranded
<1>2. CASE latest[fiber.key] = NoRequest
  <2>1. /\ fiber' = Persist!Idle /\ activeKeys' = {} /\ fiber'.at = "idle"
        /\ latest' = latest /\ latest' = [latest EXCEPT ![fiber.key] = NoRequest]
    BY <1>1, <1>2 DEF Persist!Finish, Persist!Idle, WorkerTypeOK
  <2> QED
    BY <1>1, <1>2, <2>1 DEF Persist!NothingStranded, Persist!OnFiber, WorkerTypeOK
<1>3. CASE latest[fiber.key] # NoRequest
  <2>1. /\ fiber' = Persist!Processing(fiber.key, latest[fiber.key])
        /\ activeKeys' = activeKeys /\ fiber'.at = "processing" /\ fiber'.key = fiber.key
        /\ latest' = [latest EXCEPT ![fiber.key] = NoRequest]
    BY <1>3 DEF Persist!Finish, Persist!Processing
  <2>2. WorkerTypeOK'
    <3>1. latest' \in [Terminals -> Nat]
      BY <1>1, <2>1 DEF WorkerTypeOK, NoRequest
    <3> QED
      BY <1>1, <2>1, <3>1 DEF WorkerTypeOK
  <2>3. \A key : ~Persist!OnFiber(key)' /\ ~Persist!OnFiber(key)
    BY <1>1, <2>1 DEF Persist!OnFiber
  <2>4. \A key \in queuedKeys' : \E i \in DOMAIN queue' : queue'[i] = key
    BY <1>1, <2>3 DEF Persist!NothingStranded
  <2>5. \A key \in Terminals : latest'[key] # NoRequest => key \in queuedKeys' \cup activeKeys'
    BY <1>1, <2>1 DEF Persist!NothingStranded, WorkerTypeOK
  <2>6. \A i \in DOMAIN queue' : queue'[i] \in queuedKeys'
    BY <1>1 DEF Persist!NothingStranded
  <2>7. \A i, j \in DOMAIN queue' : queue'[i] = queue'[j] => i = j
    BY <1>1 DEF Persist!NothingStranded
  <2> QED
    BY <1>1, <1>3, <2>1, <2>2, <2>3, <2>4, <2>5, <2>6, <2>7 DEF Persist!NothingStranded
<1> QED
  BY <1>2, <1>3

LEMMA FailStrands ==
    ASSUME WorkerTypeOK, Persist!NothingStranded, Persist!Fail
    PROVE  /\ WorkerTypeOK' /\ Persist!NothingStranded'
           /\ fiber.at = "processing" /\ fiber.key \in Terminals /\ latest' = latest
           /\ fiber' \in {Persist!Idle, Persist!Requeueing(fiber.key)}
<1>1. /\ fiber.at = "processing" /\ fiber.key \in Terminals /\ activeKeys = {fiber.key}
      /\ UNCHANGED <<latest, queue>> /\ activeKeys' = {}
  BY DEF Persist!Fail, Persist!NothingStranded
<1>2. CASE latest[fiber.key] # NoRequest /\ fiber.key \notin queuedKeys
  <2>1. /\ fiber' = Persist!Requeueing(fiber.key) /\ queuedKeys' = queuedKeys \cup {fiber.key}
        /\ fiber'.at = "requeueing" /\ fiber'.key = fiber.key
    BY <1>2 DEF Persist!Fail, Persist!Requeueing
  <2>2. \A i \in DOMAIN queue : queue[i] # fiber.key
    BY <1>2 DEF Persist!NothingStranded
  <2> QED
    BY <1>1, <1>2, <2>1, <2>2 DEF Persist!NothingStranded, Persist!OnFiber, WorkerTypeOK
<1>3. CASE ~(latest[fiber.key] # NoRequest /\ fiber.key \notin queuedKeys)
  <2>1. fiber' = Persist!Idle /\ queuedKeys' = queuedKeys /\ fiber'.at = "idle"
    BY <1>3 DEF Persist!Fail, Persist!Idle
  <2> QED
    BY <1>1, <1>3, <2>1 DEF Persist!NothingStranded, Persist!OnFiber, WorkerTypeOK
<1> QED
  BY <1>2, <1>3

LEMMA RequeueStrands ==
    ASSUME WorkerTypeOK, Persist!NothingStranded, Persist!Requeue
    PROVE  /\ WorkerTypeOK' /\ Persist!NothingStranded'
           /\ fiber.at = "requeueing" /\ fiber' = Persist!Idle /\ latest' = latest
<1>1. /\ fiber.at = "requeueing" /\ fiber.key \in Terminals /\ fiber.key \in queuedKeys
      /\ queue' = Append(queue, fiber.key) /\ fiber' = Persist!Idle /\ fiber'.at = "idle"
      /\ UNCHANGED <<latest, queuedKeys, activeKeys>> /\ activeKeys = {}
  BY DEF Persist!Requeue, Persist!NothingStranded, Persist!Idle
<1>2. /\ DOMAIN queue = 1..Len(queue) /\ Len(queue) \in Nat
      /\ DOMAIN queue' = 1..(Len(queue) + 1)
      /\ \A i \in 1..Len(queue) : queue'[i] = queue[i]
      /\ queue'[Len(queue) + 1] = fiber.key
  BY <1>1 DEF WorkerTypeOK
<1>3. \A i \in DOMAIN queue : queue[i] # fiber.key
  BY <1>1 DEF Persist!NothingStranded, Persist!OnFiber
<1>4. \A key \in queuedKeys' : \E i \in DOMAIN queue' : queue'[i] = key
  <2> SUFFICES ASSUME NEW key \in queuedKeys PROVE \E i \in DOMAIN queue' : queue'[i] = key
    BY <1>1
  <2>1. CASE key = fiber.key
    BY <1>2, <2>1
  <2>2. CASE key # fiber.key
    <3>1. PICK i \in DOMAIN queue : queue[i] = key
      BY <1>1, <2>2 DEF Persist!NothingStranded, Persist!OnFiber
    <3> QED
      BY <1>2, <3>1
  <2> QED
    BY <2>1, <2>2
<1>5. \A i \in DOMAIN queue' : queue'[i] \in queuedKeys'
  BY <1>1, <1>2 DEF Persist!NothingStranded
<1>6. \A i, j \in DOMAIN queue' : queue'[i] = queue'[j] => i = j
  BY <1>2, <1>3 DEF Persist!NothingStranded
<1> QED
  BY <1>1, <1>4, <1>5, <1>6 DEF Persist!NothingStranded, Persist!OnFiber, WorkerTypeOK

-----------------------------------------------------------------------------
(* Session objects.                                                         *)

LEMMA ObjectTypes ==
    ASSUME TerminalTypeOK, NEW o \in 1..Len(objects)
    PROVE  /\ objects[o].terminal \in Terminals /\ objects[o].owner \in Incarnations
           /\ objects[o].history \in Seq(Incarnations) /\ objects[o].running \in BOOLEAN
           /\ objects[o] \in Objects /\ Len(objects) \in Nat
<1>1. objects[o] \in Objects /\ Len(objects) \in Nat
  BY DEF TerminalTypeOK
<1> QED
  BY <1>1 DEF Objects

\* An object is changed in place.
LEMMA ChangedObject ==
    ASSUME TerminalTypeOK, NEW o \in 1..Len(objects), NEW new \in Objects,
           objects' = [objects EXCEPT ![o] = new]
    PROVE  /\ objects' \in Seq(Objects) /\ Len(objects') = Len(objects)
           /\ objects'[o] = new
           /\ \A p \in 1..Len(objects) : p # o => objects'[p] = objects[p]
BY DEF TerminalTypeOK

LEMMA SetObject ==
    ASSUME TerminalTypeOK, NEW o \in 1..Len(objects), NEW running \in BOOLEAN,
           NEW history \in Seq(Incarnations), Set(o, running, history)
    PROVE  /\ objects' \in Seq(Objects) /\ Len(objects') = Len(objects)
           /\ objects'[o].terminal = objects[o].terminal /\ objects'[o].owner = objects[o].owner
           /\ objects'[o].running = running /\ objects'[o].history = history
           /\ \A p \in 1..Len(objects) : p # o => objects'[p] = objects[p]
<1> DEFINE new == [terminal |-> objects[o].terminal, owner |-> objects[o].owner,
                   history |-> history, running |-> running]
<1>1. new \in Objects
  BY ObjectTypes DEF Objects
<1>2. objects[o] = [terminal |-> objects[o].terminal, owner |-> objects[o].owner,
                    history |-> objects[o].history, running |-> objects[o].running]
  BY ObjectTypes DEF Objects
<1>3. objects' = [objects EXCEPT ![o] = new]
  <2>1. o \in DOMAIN objects
    BY DEF TerminalTypeOK
  <2> DEFINE Record(r, h) ==
           [terminal |-> objects[o].terminal, owner |-> objects[o].owner,
            history |-> h, running |-> r]
  <2>2. \A x : x = [objects[o] EXCEPT !.running = running]
              => objects' = [objects EXCEPT ![o] = [x EXCEPT !.history = history]]
    BY <2>1 DEF Set
  <2>3. [objects[o] EXCEPT !.running = running] = Record(running, objects[o].history)
    BY <1>2
  <2>4. [Record(running, objects[o].history) EXCEPT !.history = history] = new
    OBVIOUS
  <2> QED
    BY <2>2, <2>3, <2>4
<1>4. /\ objects' \in Seq(Objects) /\ Len(objects') = Len(objects) /\ objects'[o] = new
      /\ \A p \in 1..Len(objects) : p # o => objects'[p] = objects[p]
  BY <1>1, <1>3, ChangedObject
<1> QED
  BY <1>4

LEMMA AddedObject ==
    ASSUME TerminalTypeOK, NEW t \in Terminals, NEW owner \in Incarnations,
           NEW history \in Seq(Incarnations), objects' = NewObject(t, owner, history)
    PROVE  /\ objects' \in Seq(Objects) /\ Len(objects') = Len(objects) + 1 /\ Len(objects) \in Nat
           /\ objects'[Len(objects) + 1] =
                [terminal |-> t, owner |-> owner, history |-> history, running |-> FALSE]
           /\ \A p \in 1..Len(objects) : objects'[p] = objects[p]
<1> DEFINE new == [terminal |-> t, owner |-> owner, history |-> history, running |-> FALSE]
<1>1. new \in Objects
  BY DEF Objects
<1>2. objects' = Append(objects, new) /\ objects \in Seq(Objects)
  BY DEF NewObject, TerminalTypeOK
<1>3. /\ Append(objects, new) \in Seq(Objects) /\ Len(Append(objects, new)) = Len(objects) + 1
      /\ Append(objects, new)[Len(objects) + 1] = new
      /\ \A p \in 1..Len(objects) : Append(objects, new)[p] = objects[p]
  BY <1>1, <1>2, AppendProperties
<1> QED
  BY <1>2, <1>3

\* A history gets a line of the object's owner, and drops its oldest.
LEMMA LineHistory ==
    ASSUME TerminalTypeOK, NEW o \in 1..Len(objects)
    PROVE  /\ Line(o) \in Seq(Incarnations)
           /\ \A k \in DOMAIN Line(o) :
                 \/ Line(o)[k] = objects[o].owner
                 \/ \E j \in DOMAIN objects[o].history : Line(o)[k] = objects[o].history[j]
<1> DEFINE old == objects[o].history  owner == objects[o].owner  lines == Append(old, owner)
<1>1. old \in Seq(Incarnations) /\ owner \in Incarnations
  BY ObjectTypes
<1>2. /\ lines \in Seq(Incarnations) /\ Len(lines) = Len(old) + 1 /\ Len(old) \in Nat
      /\ lines[Len(old) + 1] = owner /\ \A k \in 1..Len(old) : lines[k] = old[k]
      /\ DOMAIN lines = 1..(Len(old) + 1) /\ DOMAIN old = 1..Len(old)
  BY <1>1, AppendProperties
<1>3. \A k \in DOMAIN lines : lines[k] = owner \/ \E j \in DOMAIN old : lines[k] = old[j]
  <2> SUFFICES ASSUME NEW k \in DOMAIN lines
               PROVE  lines[k] = owner \/ \E j \in DOMAIN old : lines[k] = old[j]
    OBVIOUS
  <2>1. CASE k = Len(old) + 1
    BY <1>2, <2>1
  <2>2. CASE k \in 1..Len(old)
    BY <1>2, <2>2
  <2> QED
    BY <1>2, <2>1, <2>2
<1>4. /\ Tail(lines) \in Seq(Incarnations) /\ DOMAIN Tail(lines) = 1..Len(old)
      /\ \A k \in 1..Len(old) : Tail(lines)[k] = lines[k + 1]
  <2>1. lines # <<>>
    BY <1>1, AppendProperties
  <2>2. /\ Tail(lines) \in Seq(Incarnations) /\ Len(Tail(lines)) = Len(lines) - 1
        /\ \A k \in 1..Len(Tail(lines)) : Tail(lines)[k] = lines[k + 1]
    BY <1>2, <2>1, HeadTailProperties
  <2> QED
    BY <1>2, <2>2
<1>5. \A k \in DOMAIN Tail(lines) : k + 1 \in DOMAIN lines
  BY <1>2, <1>4
<1>6. \A k \in DOMAIN Tail(lines) :
        Tail(lines)[k] = owner \/ \E j \in DOMAIN old : Tail(lines)[k] = old[j]
  BY <1>3, <1>4, <1>5
<1>7. CASE Len(lines) > HistoryLimit
  <2>1. Line(o) = Tail(lines)
    BY <1>7 DEF Line
  <2> QED
    BY <1>4, <1>6, <2>1
<1>8. CASE ~(Len(lines) > HistoryLimit)
  <2>1. Line(o) = lines
    BY <1>8 DEF Line
  <2> QED
    BY <1>2, <1>3, <2>1
<1> QED
  BY <1>7, <1>8

-----------------------------------------------------------------------------
(* What the invariant says of a terminal, unfolded.                         *)

LEMMA InvTypes ==
    ASSUME TerminalInv
    PROVE  /\ WorkerTypeOK /\ Len(objects) \in Nat /\ fiber \in Fibers
           /\ \A t \in Terminals : /\ sessions[t] \in 0..Len(objects) /\ latest[t] \in 0..Len(objects)
                                   /\ shown[t] \in 0..Len(objects)
           /\ \A t \in Terminals : BeingWritten(t) => fiber.value \in 1..Len(objects)
<1>1. /\ objects \in Seq(Objects) /\ Len(objects) \in Nat
      /\ sessions \in [Terminals -> 0..Len(objects)] /\ latest \in [Terminals -> 0..Len(objects)]
      /\ shown \in [Terminals -> 0..Len(objects)]
  BY DEF TerminalInv, TerminalTypeOK
<1>2. /\ queuedKeys \subseteq Terminals /\ activeKeys \subseteq Terminals /\ queue \in Seq(Terminals)
      /\ fiber \in Fibers
  BY DEF TerminalInv, WorkTypeOK
<1>3. latest \in [Terminals -> Nat]
  BY <1>1
<1>4. fiber.at = "processing" => fiber.value \in 1..Len(objects)
  BY <1>2 DEF Fibers, Persist!Idle
<1> QED
  BY <1>1, <1>2, <1>3, <1>4 DEF WorkerTypeOK, BeingWritten

LEMMA Owned ==
    ASSUME TerminalInv, NEW t \in Terminals
    PROVE  /\ sessions[t] # 0 => objects[sessions[t]].terminal = t
           /\ latest[t] # 0 => objects[latest[t]].terminal = t
           /\ shown[t] # 0 => objects[shown[t]].terminal = t
           /\ BeingWritten(t) => objects[fiber.value].terminal = t
BY InvTypes DEF TerminalInv, SessionsOwned, References

\* A terminal that is drained is not being written.
LEMMA DrainedIsQuiet ==
    ASSUME TerminalInv, NEW t \in Terminals, Persist!Drained(t)
    PROVE  latest[t] = 0 /\ ~BeingWritten(t) /\ t \notin queuedKeys /\ t \notin activeKeys
BY DEF TerminalInv, HistoriesGetWritten, Persist!NothingStranded, Persist!Drained, BeingWritten, NoRequest

\* A running process is its terminal's session, unless it was abandoned.
LEMMA RunningIsSession ==
    ASSUME TerminalInv, NEW o \in 1..Len(objects), objects[o].running
    PROVE  /\ o \notin abandoned => sessions[objects[o].terminal] = o
           /\ objects[o].terminal \notin forgotten => sessions[objects[o].terminal] = o
BY DEF TerminalInv, NoOrphanProcess, Orphans, AbandonedForgotten

\* Objects keep their terminal, and terminals stay forgotten.
LEMMA AbandonedStays ==
    ASSUME TerminalInv, abandoned' = abandoned, forgotten \subseteq forgotten',
           \A o \in 1..Len(objects) : objects'[o].terminal = objects[o].terminal
    PROVE  AbandonedForgotten'
BY DEF TerminalInv, TerminalTypeOK, AbandonedForgotten

\* Operations of clients and of the clean-up, told by their kind.
LEMMA Kinds ==
    ASSUME WorkTypeOK
    PROVE  /\ operation.kind \in {"open", "restart"} => operation \in Works
           /\ Closing => operation \in Closings
           /\ operation \in Works =>
                 /\ operation = Work(operation.kind, operation.terminal, operation.object,
                                     operation.owner, operation.at)
                 /\ operation.kind \in {"open", "restart"} /\ operation.terminal \in Terminals
                 /\ operation.object \in 0..Len(objects) /\ operation.owner \in Incarnations
           /\ operation \in Closings =>
                 /\ operation.kind \in {"close", "cleanUp"} /\ operation.terminals \subseteq Terminals
                 /\ operation.closed \subseteq Terminals /\ operation.deleted \subseteq Terminals
                 /\ operation.at = "flush" => operation.terminal \in Terminals
           /\ NoOperation \notin Works /\ NoOperation \notin Closings
<1>1. operation \in {NoOperation} \cup Works \cup Closings
  BY DEF WorkTypeOK
<1>2. operation \in Works => operation.kind \in {"open", "restart"}
  BY DEF Works
<1>3. operation \in Closings => operation.kind \in {"close", "cleanUp"}
  BY DEF Closings
<1>4. NoOperation.kind = "none"
  BY DEF NoOperation
<1>5. NoOperation \notin Works /\ NoOperation \notin Closings
  BY <1>4 DEF Works, Closings
<1>6. operation \in Works =>
        /\ operation = Work(operation.kind, operation.terminal, operation.object,
                            operation.owner, operation.at)
        /\ operation.terminal \in Terminals
        /\ operation.object \in 0..Len(objects) /\ operation.owner \in Incarnations
  BY DEF Works, Work
<1>7. operation \in Closings =>
        /\ operation.terminals \subseteq Terminals
        /\ operation.closed \subseteq Terminals /\ operation.deleted \subseteq Terminals
        /\ operation.at = "flush" => operation.terminal \in Terminals
  BY DEF Closings
<1> QED
  BY <1>1, <1>2, <1>3, <1>4, <1>5, <1>6, <1>7 DEF Closing

-----------------------------------------------------------------------------
(* The steps of processes and of the persist worker.                        *)

LEMMA OutputKeeps ==
    ASSUME TerminalInv, NEW o, Output(o)
    PROVE  TerminalInv'
<1> DEFINE t == objects[o].terminal
<1>1. /\ o \in 1..Len(objects) /\ o \in Nat /\ objects[o].running /\ t \in Terminals
      /\ UNCHANGED <<sessions, files, operation, faults, shown, abandoned, forgotten>>
  BY ObjectTypes DEF TerminalInv, Output
<1>2. /\ objects' \in Seq(Objects) /\ Len(objects') = Len(objects)
      /\ objects'[o].terminal = t /\ objects'[o].running = TRUE
      /\ \A p \in 1..Len(objects) : p # o => objects'[p] = objects[p]
  <2>1. Set(o, TRUE, Line(o)) /\ Line(o) \in Seq(Incarnations)
    BY <1>1, LineHistory DEF Output, TerminalInv
  <2> QED
    BY <1>1, <2>1, SetObject DEF TerminalInv
<1>3. /\ WorkerTypeOK' /\ Persist!NothingStranded'
      /\ latest' = [latest EXCEPT ![t] = o] /\ fiber' = fiber /\ activeKeys' = activeKeys
  <2>1. Persist!Enqueue(t, o)
    BY DEF Output
  <2> QED
    BY <1>1, <2>1, InvTypes, EnqueueStrands DEF TerminalInv, HistoriesGetWritten
<1>4. t \notin forgotten => sessions[t] = o
  BY <1>1, RunningIsSession
<1>5. TerminalTypeOK'
  <2>1. latest' \in [Terminals -> 0..Len(objects)]
    BY <1>1, <1>3 DEF TerminalInv, TerminalTypeOK
  <2> QED
    BY <1>1, <1>2, <2>1 DEF TerminalInv, TerminalTypeOK
<1>6. WorkTypeOK'
  BY <1>1, <1>2, <1>3 DEF TerminalInv, WorkTypeOK, WorkerTypeOK, Works, Fibers
<1>7. SessionsOwned'
  <2>1. \A t1 \in Terminals : \A p \in References(t1)' \cup ({shown'[t1]} \ {0}) : objects'[p].terminal = t1
    BY <1>1, <1>2, <1>3, InvTypes, Owned DEF References, BeingWritten
  <2>2. Works' = Works
    BY <1>2 DEF Works
  <2>3. operation \in Works =>
          IF operation.at = "read" THEN sessions[operation.terminal] = 0
          ELSE /\ operation.object # 0
               /\ objects'[operation.object].terminal = operation.terminal
               /\ ~objects'[operation.object].running
               /\ operation.object \notin abandoned => sessions[operation.terminal] = operation.object
    <3> SUFFICES ASSUME operation \in Works, operation.at # "read"
                 PROVE  operation.object # o /\ operation.object \in 1..Len(objects)
      BY <1>2 DEF TerminalInv, SessionsOwned
    <3> QED
      BY <1>1 DEF TerminalInv, SessionsOwned, Works
  <2> QED
    BY <1>1, <2>1, <2>2, <2>3 DEF SessionsOwned
<1>8. NoOrphanProcess'
  BY <1>1, <1>2 DEF TerminalInv, NoOrphanProcess, Orphans
<1>9. ClosingProgress'
  <2> SUFFICES ASSUME operation \in Closings PROVE ClosingProgress'
    BY <1>1 DEF ClosingProgress, Closings
  <2>1. t \notin operation.closed \ forgotten
    BY <1>1, <1>4 DEF TerminalInv, ClosingProgress
  <2>2. \A t1 \in operation.closed \ forgotten : Persist!Drained(t1)'
    BY <1>1, <1>3, <2>1 DEF TerminalInv, ClosingProgress, Persist!Drained, Output, Persist!Enqueue
  <2>3. operation.at = "flush" =>
          (sessions[operation.terminal] # 0 => ~objects'[sessions[operation.terminal]].running)
    BY <1>1, <1>2, InvTypes, SMTT(30) DEF TerminalInv, ClosingProgress, Closings
  <2> QED
    BY <1>1, <2>2, <2>3 DEF TerminalInv, ClosingProgress
<1>10. LastShownIsKept'
  <2> SUFFICES ASSUME NEW t1 \in Terminals \ forgotten
               PROVE  /\ sessions[t1] \in {0, shown[t1]} /\ latest'[t1] \in {0, shown[t1]}
                      /\ BeingWritten(t1) => shown[t1] # 0 /\ shown[t1] \in {fiber.value, latest'[t1]}
                      /\ shown[t1] # 0 =>
                          \/ latest'[t1] = shown[t1]
                          \/ BeingWritten(t1) /\ fiber.value = shown[t1]
                          \/ FileHistory(t1) = objects'[shown[t1]].history
    BY <1>1, <1>3 DEF LastShownIsKept, BeingWritten, FileHistory
  <2>1. CASE t1 = t
    <3>1. latest'[t1] = o
      BY <1>1, <1>3, <2>1, InvTypes DEF WorkerTypeOK
    <3>2. shown[t1] = o /\ o # 0
      BY <1>1, <1>4, <2>1 DEF TerminalInv, LastShownIsKept
    <3> QED
      BY <1>4, <2>1, <3>1, <3>2
  <2>2. CASE t1 # t
    <3>1. latest'[t1] = latest[t1] /\ (shown[t1] # 0 => objects'[shown[t1]] = objects[shown[t1]])
      BY <1>1, <1>2, <1>3, <2>2, InvTypes, Owned
    <3> QED
      BY <3>1 DEF TerminalInv, LastShownIsKept
  <2> QED
    BY <2>1, <2>2
<1>11. AbandonedForgotten'
  BY <1>1, <1>2, AbandonedStays
<1> QED
  BY <1>11, <1>3, <1>5, <1>6, <1>7, <1>8, <1>9, <1>10 DEF TerminalInv, HistoriesGetWritten

LEMMA ProcessExitsKeeps ==
    ASSUME TerminalInv, NEW o, ProcessExits(o)
    PROVE  TerminalInv'
<1>1. /\ o \in 1..Len(objects) /\ objects[o].history \in Seq(Incarnations)
      /\ UNCHANGED <<sessions, files, operation, faults, shown, abandoned, forgotten, persistVars>>
  BY ObjectTypes DEF TerminalInv, ProcessExits
<1>2. /\ objects' \in Seq(Objects) /\ Len(objects') = Len(objects)
      /\ \A p \in 1..Len(objects) :
            /\ objects'[p].terminal = objects[p].terminal /\ objects'[p].history = objects[p].history
            /\ objects'[p].running => objects[p].running
  BY <1>1, SetObject DEF TerminalInv, ProcessExits
<1>3. HistoriesGetWritten' /\ Works' = Works /\ Closings' = Closings /\ Fibers' = Fibers
  BY <1>1, <1>2 DEF TerminalInv, HistoriesGetWritten, Persist!NothingStranded, persistVars,
                    Persist!OnFiber, Works, Closings, Fibers
<1>4. TerminalTypeOK' /\ WorkTypeOK'
  BY <1>1, <1>2, <1>3 DEF TerminalInv, TerminalTypeOK, WorkTypeOK, persistVars
<1>5. SessionsOwned'
  <2>1. \A t \in Terminals : \A p \in References(t)' \cup ({shown'[t]} \ {0}) : objects'[p].terminal = t
    BY <1>1, <1>2, InvTypes, Owned DEF References, BeingWritten, persistVars
  <2>2. operation \in Works /\ operation.at # "read" => operation.object \in 1..Len(objects)
    BY DEF TerminalInv, SessionsOwned, Works
  <2> QED
    BY <1>1, <1>2, <1>3, <2>1, <2>2 DEF TerminalInv, SessionsOwned
<1>6. NoOrphanProcess'
  BY <1>1, <1>2 DEF TerminalInv, NoOrphanProcess, Orphans
<1>7. ClosingProgress'
  <2>1. operation \in Closings /\ operation.at = "flush" => operation.terminal \in Terminals
    BY DEF Closings
  <2> QED
    BY <1>1, <1>2, <1>3, <2>1, InvTypes DEF TerminalInv, ClosingProgress, Persist!Drained, persistVars
<1>8. LastShownIsKept'
  BY <1>1, <1>2, InvTypes DEF TerminalInv, LastShownIsKept, BeingWritten, FileHistory, persistVars
<1>9. AbandonedForgotten'
  BY <1>1, <1>2, AbandonedStays
<1> QED
  BY <1>9, <1>3, <1>4, <1>5, <1>6, <1>7, <1>8 DEF TerminalInv

LEMMA EvictKeeps ==
    ASSUME TerminalInv, NEW t \in Terminals, Evict(t)
    PROVE  TerminalInv'
<1>1. /\ sessions[t] # 0 /\ ~objects[sessions[t]].running
      /\ sessions' = [sessions EXCEPT ![t] = 0]
      /\ forgotten \subseteq forgotten' /\ forgotten' \subseteq Terminals
      /\ abandoned \subseteq abandoned' /\ abandoned' \subseteq 0..Len(objects)
      /\ UNCHANGED <<objects, files, operation, persistVars, faults, shown>>
  <2>1. operation.kind \in {"open", "restart"} => operation.object \in 0..Len(objects)
    BY Kinds DEF TerminalInv
  <2> QED
    BY <2>1 DEF TerminalInv, TerminalTypeOK, Evict
<1>2. sessions \in [Terminals -> 0..Len(objects)]
  BY DEF TerminalInv, TerminalTypeOK
<1>3. HistoriesGetWritten' /\ Works' = Works /\ Closings' = Closings /\ Fibers' = Fibers
  BY <1>1 DEF TerminalInv, HistoriesGetWritten, Persist!NothingStranded, persistVars,
              Persist!OnFiber, Works, Closings, Fibers
<1>4. TerminalTypeOK' /\ WorkTypeOK'
  BY <1>1, <1>2, <1>3 DEF TerminalInv, TerminalTypeOK, WorkTypeOK, persistVars
<1>5. SessionsOwned'
  <2>1. \A t1 \in Terminals : \A p \in References(t1)' \cup ({shown'[t1]} \ {0}) : objects'[p].terminal = t1
    BY <1>1, <1>2, InvTypes, Owned DEF References, BeingWritten, persistVars
  <2>2. operation \in Works => operation.terminal \in Terminals /\ operation.kind \in {"open", "restart"}
    BY DEF Works
  <2>3. operation \in Works /\ operation.terminal = t => operation.object \in abandoned'
    BY <2>2 DEF Evict
  <2>4. operation \in Works => sessions'[operation.terminal] =
            IF operation.terminal = t THEN 0 ELSE sessions[operation.terminal]
    BY <1>1, <1>2, <2>2
  <2>5. operation \in Works =>
          IF operation.at = "read" THEN sessions'[operation.terminal] = 0
          ELSE /\ operation.object # 0
               /\ objects[operation.object].terminal = operation.terminal
               /\ ~objects[operation.object].running
               /\ operation.object \notin abandoned' => sessions'[operation.terminal] = operation.object
    BY <1>1, <2>3, <2>4 DEF TerminalInv, SessionsOwned
  <2> QED
    BY <1>1, <1>3, <2>1, <2>5 DEF SessionsOwned
<1>6. NoOrphanProcess'
  <2> SUFFICES ASSUME NEW o \in 1..Len(objects), objects[o].running,
                      sessions'[objects[o].terminal] # o, o \notin abandoned
               PROVE  FALSE
    BY <1>1 DEF NoOrphanProcess, Orphans
  <2>1. sessions[objects[o].terminal] = o /\ objects[o].terminal \in Terminals
    BY RunningIsSession, ObjectTypes DEF TerminalInv
  <2> QED
    BY <1>1, <1>2, <2>1
<1>7. ClosingProgress'
  <2>1. operation \in Closings => /\ operation.closed \subseteq Terminals /\ operation.deleted \subseteq Terminals
                                  /\ operation.at = "flush" => operation.terminal \in Terminals
    BY DEF Closings
  <2>2. operation \in Closings /\ operation.at = "flush" =>
            (sessions'[operation.terminal] # 0 => ~objects[sessions'[operation.terminal]].running)
    BY <1>1, <1>2, <2>1 DEF TerminalInv, ClosingProgress
  <2>3. operation \in Closings =>
            \A t1 \in (operation.deleted \ operation.terminals) \cup operation.closed : sessions'[t1] = 0
    BY <1>1, <1>2, <2>1 DEF TerminalInv, ClosingProgress
  <2> QED
    BY <1>1, <1>3, <2>2, <2>3 DEF TerminalInv, ClosingProgress, Persist!Drained, persistVars
<1>8. LastShownIsKept'
  <2>1. \A t1 \in Terminals : sessions'[t1] \in {0, sessions[t1]}
    BY <1>1, <1>2
  <2> QED
    BY <1>1, <2>1 DEF TerminalInv, LastShownIsKept, BeingWritten, FileHistory, persistVars
<1>9. AbandonedForgotten'
  <2>1. CASE abandoned' = abandoned
    BY <1>1, <2>1, AbandonedStays
  <2>2. CASE operation.kind \in {"open", "restart"} /\ operation.terminal = t
    <3>1. operation \in Works /\ operation.at # "read"
      BY <1>1, <2>2, Kinds DEF TerminalInv, SessionsOwned
    <3>2. objects[operation.object].terminal = t /\ t \in forgotten'
      BY <2>2, <3>1 DEF TerminalInv, SessionsOwned, Evict
    <3> QED
      BY <1>1, <2>2, <3>2 DEF TerminalInv, AbandonedForgotten, Evict
  <2> QED
    BY <2>1, <2>2 DEF Evict
<1> QED
  BY <1>9, <1>3, <1>4, <1>5, <1>6, <1>7, <1>8 DEF TerminalInv

\* What the steps of the worker have in common: they leave the sessions alone,
\* and strand nothing.
LEMMA WorkerStepKeeps ==
    ASSUME TerminalInv, UNCHANGED <<objects, sessions, operation, shown>>,
           WorkerTypeOK', Persist!NothingStranded',
           files' \in [Terminals -> Seq(Incarnations) \cup {NoFile}],
           faults' \in Nat, forgotten \subseteq forgotten', forgotten' \subseteq Terminals,
           abandoned' = abandoned,
           fiber' \in Fibers,
           \A t \in Terminals : latest'[t] \in {0, latest[t]},
           \A t \in Terminals : BeingWritten(t)' =>
               \/ latest[t] # 0 /\ fiber'.value = latest[t]
               \/ BeingWritten(t) /\ fiber'.value = fiber.value,
           \A t \in Terminals : Persist!Drained(t) => Persist!Drained(t)',
           LastShownIsKept'
    PROVE  TerminalInv'
<1>1. HistoriesGetWritten' /\ Works' = Works /\ Closings' = Closings /\ Fibers' = Fibers
  BY DEF HistoriesGetWritten, Works, Closings, Fibers
<1>2. TerminalTypeOK'
  <2>1. \A t \in Terminals : latest'[t] \in 0..Len(objects)
    BY InvTypes
  <2>2. latest' \in [Terminals -> 0..Len(objects)]
    BY <2>1 DEF WorkerTypeOK
  <2> QED
    BY <2>2 DEF TerminalInv, TerminalTypeOK
<1>3. WorkTypeOK'
  BY <1>1 DEF TerminalInv, WorkTypeOK, WorkerTypeOK
<1>4. SessionsOwned'
  <2>1. \A t \in Terminals : \A p \in References(t)' \cup ({shown'[t]} \ {0}) : objects'[p].terminal = t
    BY InvTypes, Owned DEF References, BeingWritten
  <2> QED
    BY <1>1, <2>1 DEF TerminalInv, SessionsOwned
<1>5. NoOrphanProcess' 
  BY DEF TerminalInv, NoOrphanProcess, Orphans
<1>6. ClosingProgress'
  <2>1. operation \in Closings => operation.closed \subseteq Terminals
    BY DEF Closings
  <2> QED
    BY <1>1, <2>1 DEF TerminalInv, ClosingProgress
<1>7. AbandonedForgotten'
  BY AbandonedStays
<1> QED
  BY <1>7, <1>1, <1>2, <1>3, <1>4, <1>5, <1>6 DEF TerminalInv

LEMMA PersistTakeKeeps ==
    ASSUME TerminalInv, PersistTake
    PROVE  TerminalInv'
<1>1. /\ UNCHANGED <<objects, sessions, files, operation, faults, shown, abandoned, forgotten>>
      /\ WorkerTypeOK /\ Persist!NothingStranded
  BY InvTypes DEF PersistTake, sessionVars, TerminalInv, HistoriesGetWritten
<1>2. /\ files \in [Terminals -> Seq(Incarnations) \cup {NoFile}] /\ faults \in Nat
      /\ forgotten \subseteq Terminals
  BY DEF TerminalInv, TerminalTypeOK, WorkTypeOK
<1>3. CASE Persist!Take \/ Persist!Requeue
  <2>1. /\ WorkerTypeOK' /\ Persist!NothingStranded' /\ UNCHANGED <<latest, queuedKeys, activeKeys>>
        /\ fiber' \in Fibers /\ fiber.at # "processing" /\ fiber'.at # "processing"
    <3>1. CASE Persist!Take
      <4>1. /\ WorkerTypeOK' /\ Persist!NothingStranded' /\ fiber'.at = "taken" /\ fiber'.key \in Terminals
            /\ UNCHANGED <<latest, queuedKeys, activeKeys>> /\ fiber.at = "idle"
            /\ fiber' = Persist!Taken(Head(queue))
        BY <1>1, <3>1, TakeStrands DEF Persist!Take, Persist!Idle
      <4> QED
        BY <4>1 DEF Fibers, Persist!Taken
    <3>2. CASE Persist!Requeue
      BY <1>1, <3>2, RequeueStrands DEF Persist!Requeue, Fibers, Persist!Idle
    <3> QED
      BY <1>3, <3>1, <3>2
  <2>2. LastShownIsKept'
    BY <1>1, <2>1 DEF TerminalInv, LastShownIsKept, BeingWritten, FileHistory
  <2> QED
    BY <1>1, <1>2, <2>1, <2>2, WorkerStepKeeps DEF BeingWritten, Persist!Drained
<1>4. CASE Persist!Look
  <2> DEFINE t == fiber.key
  <2>1. /\ WorkerTypeOK' /\ Persist!NothingStranded' /\ fiber.at = "taken" /\ t \in Terminals
        /\ latest' = [latest EXCEPT ![t] = 0]
        /\ IF latest[t] = 0 THEN fiber' = Persist!Idle ELSE fiber' = Persist!Processing(t, latest[t])
    BY <1>1, <1>4, LookStrands DEF NoRequest
  <2>2. \A t1 \in Terminals : latest'[t1] = IF t1 = t THEN 0 ELSE latest[t1]
    BY <1>1, <2>1 DEF WorkerTypeOK
  <2>3. \A t1 \in Terminals : /\ ~BeingWritten(t1)
                              /\ BeingWritten(t1)' => t1 = t /\ latest[t] # 0 /\ fiber'.value = latest[t]
                              /\ t1 = t /\ latest[t] # 0 => BeingWritten(t1)'
    BY <2>1 DEF BeingWritten, Persist!Idle, Persist!Processing
  <2>4. fiber' \in Fibers
    BY <2>1, InvTypes DEF Fibers, Persist!Idle, Persist!Processing
  <2>5. \A t1 \in Terminals : Persist!Drained(t1) => Persist!Drained(t1)'
    <3>1. \A t1 \in Terminals : Persist!Drained(t1) => t1 # t
      BY <1>1, <2>1 DEF Persist!NothingStranded, Persist!Drained
    <3>2. queuedKeys' \subseteq queuedKeys /\ activeKeys' \subseteq activeKeys \cup {t}
      BY <1>4 DEF Persist!Look
    <3> QED
      BY <2>2, <3>1, <3>2 DEF Persist!Drained
  <2>6. LastShownIsKept'
    <3> SUFFICES ASSUME NEW t1 \in Terminals \ forgotten
                 PROVE  /\ sessions[t1] \in {0, shown[t1]} /\ latest'[t1] \in {0, shown[t1]}
                        /\ BeingWritten(t1)' => shown[t1] # 0 /\ shown[t1] \in {fiber'.value, latest'[t1]}
                        /\ shown[t1] # 0 =>
                            \/ latest'[t1] = shown[t1]
                            \/ BeingWritten(t1)' /\ fiber'.value = shown[t1]
                            \/ FileHistory(t1) = objects[shown[t1]].history
      BY <1>1 DEF LastShownIsKept, FileHistory
    <3> QED
      BY <2>2, <2>3 DEF TerminalInv, LastShownIsKept
  <2> QED
    BY <1>1, <1>2, <2>1, <2>2, <2>3, <2>4, <2>5, <2>6, WorkerStepKeeps
<1> QED
  BY <1>3, <1>4 DEF PersistTake

\* A write that is over lets the worker go on with what was queued meanwhile.
LEMMA FinishedWrite ==
    ASSUME TerminalInv, Persist!Finish
    PROVE  /\ WorkerTypeOK' /\ Persist!NothingStranded' /\ fiber' \in Fibers
           /\ BeingWritten(fiber.key) /\ fiber.key \in Terminals
           /\ \A t \in Terminals : latest'[t] = IF t = fiber.key THEN 0 ELSE latest[t]
           /\ \A t \in Terminals : BeingWritten(t)' =>
                  t = fiber.key /\ latest[t] # 0 /\ fiber'.value = latest[t]
           /\ \A t \in Terminals : t = fiber.key /\ latest[t] # 0 => BeingWritten(t)'
           /\ \A t \in Terminals : Persist!Drained(t) => Persist!Drained(t)'
<1> DEFINE t == fiber.key
<1>1. /\ WorkerTypeOK' /\ Persist!NothingStranded' /\ fiber.at = "processing" /\ t \in Terminals
      /\ latest' = [latest EXCEPT ![t] = 0]
      /\ IF latest[t] = 0 THEN fiber' = Persist!Idle ELSE fiber' = Persist!Processing(t, latest[t])
  BY InvTypes, FinishStrands DEF NoRequest, TerminalInv, HistoriesGetWritten
<1>2. \A t1 \in Terminals : latest'[t1] = IF t1 = t THEN 0 ELSE latest[t1]
  BY <1>1, InvTypes DEF WorkerTypeOK
<1>3. \A t1 \in Terminals : /\ BeingWritten(t1)' => t1 = t /\ latest[t] # 0 /\ fiber'.value = latest[t]
                            /\ t1 = t /\ latest[t] # 0 => BeingWritten(t1)'
  BY <1>1 DEF BeingWritten, Persist!Idle, Persist!Processing
<1>4. fiber' \in Fibers
  BY <1>1, InvTypes DEF Fibers, Persist!Idle, Persist!Processing
<1>5. \A t1 \in Terminals : Persist!Drained(t1) => Persist!Drained(t1)'
  <2>1. \A t1 \in Terminals : Persist!Drained(t1) => t1 # t
    BY <1>1, DrainedIsQuiet DEF BeingWritten
  <2>2. queuedKeys' = queuedKeys /\ activeKeys' \subseteq activeKeys
    BY DEF Persist!Finish
  <2> QED
    BY <1>2, <2>1, <2>2 DEF Persist!Drained
<1> QED
  BY <1>1, <1>2, <1>3, <1>4, <1>5 DEF BeingWritten

LEMMA PersistWriteKeeps ==
    ASSUME TerminalInv, PersistWrite
    PROVE  TerminalInv'
<1> DEFINE t == fiber.key  written == objects[fiber.value].history
<1>1. /\ UNCHANGED <<objects, sessions, operation, faults, shown, abandoned, forgotten>>
      /\ files' = [files EXCEPT ![t] = written]
      /\ files \in [Terminals -> Seq(Incarnations) \cup {NoFile}] /\ faults \in Nat
      /\ forgotten \subseteq Terminals
  BY DEF PersistWrite, sessionVars, TerminalInv, TerminalTypeOK, WorkTypeOK
<1>2. /\ WorkerTypeOK' /\ Persist!NothingStranded' /\ fiber' \in Fibers
      /\ BeingWritten(t) /\ t \in Terminals
      /\ \A t1 \in Terminals : latest'[t1] = IF t1 = t THEN 0 ELSE latest[t1]
      /\ \A t1 \in Terminals : BeingWritten(t1)' =>
             t1 = t /\ latest[t1] # 0 /\ fiber'.value = latest[t1]
      /\ \A t1 \in Terminals : t1 = t /\ latest[t1] # 0 => BeingWritten(t1)'
      /\ \A t1 \in Terminals : Persist!Drained(t1) => Persist!Drained(t1)'
  BY FinishedWrite DEF PersistWrite
<1>3. fiber.value \in 1..Len(objects) /\ written \in Seq(Incarnations)
  BY <1>2, InvTypes, ObjectTypes DEF TerminalInv
<1>4. files' \in [Terminals -> Seq(Incarnations) \cup {NoFile}]
  BY <1>1, <1>3
<1>5. files'[t] = written /\ written # NoFile
  <2>1. 0 \notin Incarnations /\ Len(<<0>>) = 1 /\ <<0>>[1] = 0
    BY DEF Incarnations
  <2>2. written # <<0>>
    BY <1>3, <2>1, SMTT(30)
  <2> QED
    BY <1>1, <1>2, <2>2 DEF NoFile
<1>6. LastShownIsKept'
  <2> SUFFICES ASSUME NEW t1 \in Terminals \ forgotten
               PROVE  /\ sessions[t1] \in {0, shown[t1]} /\ latest'[t1] \in {0, shown[t1]}
                      /\ BeingWritten(t1)' => shown[t1] # 0 /\ shown[t1] \in {fiber'.value, latest'[t1]}
                      /\ shown[t1] # 0 =>
                          \/ latest'[t1] = shown[t1]
                          \/ BeingWritten(t1)' /\ fiber'.value = shown[t1]
                          \/ FileHistory(t1)' = objects[shown[t1]].history
    BY <1>1 DEF LastShownIsKept
  <2>1. CASE t1 = t
    <3>1. FileHistory(t1)' = written
      BY <1>5, <2>1 DEF FileHistory
    <3>2. /\ sessions[t1] \in {0, shown[t1]} /\ latest[t1] \in {0, shown[t1]}
          /\ shown[t1] # 0 /\ shown[t1] \in {fiber.value, latest[t1]}
      BY <1>2, <2>1 DEF TerminalInv, LastShownIsKept
    <3>3. latest'[t1] = 0 /\ (BeingWritten(t1)' => latest[t1] # 0 /\ fiber'.value = latest[t1])
      BY <1>2, <2>1
    <3>4. CASE latest[t1] = 0
      BY <3>1, <3>2, <3>3, <3>4
    <3>5. CASE latest[t1] # 0
      <4>1. BeingWritten(t1)'
        BY <1>2, <2>1, <3>5
      <4> QED
        BY <3>2, <3>3, <3>5, <4>1
    <3> QED
      BY <3>4, <3>5
  <2>2. CASE t1 # t
    <3>1. FileHistory(t1)' = FileHistory(t1)
      BY <1>1, <2>2 DEF FileHistory
    <3>2. ~BeingWritten(t1)
      BY <2>2 DEF BeingWritten
    <3> QED
      BY <1>2, <2>2, <3>1, <3>2 DEF TerminalInv, LastShownIsKept
  <2> QED
    BY <2>1, <2>2
<1> QED
  BY <1>1, <1>2, <1>4, <1>6, WorkerStepKeeps

\* A terminal whose write failed is forgotten; the others are left alone.
LEMMA PersistFailsKeeps ==
    ASSUME TerminalInv, PersistRefused \/ PersistDies
    PROVE  TerminalInv'
<1> DEFINE t == fiber.key
<1>1. /\ UNCHANGED <<objects, sessions, files, operation, shown>>
      /\ forgotten' = forgotten \cup {t} /\ abandoned' = abandoned /\ faults' = faults + 1
      /\ files \in [Terminals -> Seq(Incarnations) \cup {NoFile}] /\ faults \in Nat
      /\ forgotten \subseteq Terminals
  BY DEF PersistRefused, PersistDies, sessionVars, TerminalInv, TerminalTypeOK, WorkTypeOK
<1>2. /\ WorkerTypeOK' /\ Persist!NothingStranded' /\ fiber' \in Fibers
      /\ BeingWritten(t) /\ t \in Terminals
      /\ \A t1 \in Terminals : latest'[t1] \in {0, latest[t1]} /\ (t1 # t => latest'[t1] = latest[t1])
      /\ \A t1 \in Terminals : BeingWritten(t1)' =>
             t1 = t /\ latest[t1] # 0 /\ fiber'.value = latest[t1]
      /\ \A t1 \in Terminals : Persist!Drained(t1) => Persist!Drained(t1)'
  <2>1. CASE PersistRefused
    BY <2>1, FinishedWrite DEF PersistRefused
  <2>2. CASE PersistDies
    <3>1. /\ WorkerTypeOK' /\ Persist!NothingStranded' /\ latest' = latest
          /\ fiber.at = "processing" /\ t \in Terminals
          /\ fiber' \in {Persist!Idle, Persist!Requeueing(t)}
      BY <2>2, InvTypes, FailStrands DEF PersistDies, TerminalInv, HistoriesGetWritten
    <3>2. fiber' \in Fibers /\ \A t1 \in Terminals : ~BeingWritten(t1)'
      BY <3>1 DEF Fibers, Persist!Idle, Persist!Requeueing, BeingWritten
    <3>3. \A t1 \in Terminals : Persist!Drained(t1) => Persist!Drained(t1)'
      <4>1. \A t1 \in Terminals : Persist!Drained(t1) => t1 # t
        BY <3>1, DrainedIsQuiet DEF BeingWritten
      <4>2. queuedKeys' \subseteq queuedKeys \cup {t} /\ activeKeys' \subseteq activeKeys
        BY <2>2 DEF PersistDies, Persist!Fail
      <4> QED
        BY <3>1, <4>1, <4>2 DEF Persist!Drained
    <3> QED
      BY <3>1, <3>2, <3>3 DEF BeingWritten
  <2> QED
    BY <2>1, <2>2
<1>3. LastShownIsKept'
  <2> SUFFICES ASSUME NEW t1 \in Terminals, t1 \notin forgotten, t1 # t
               PROVE  /\ sessions[t1] \in {0, shown[t1]} /\ latest'[t1] \in {0, shown[t1]}
                      /\ BeingWritten(t1)' => shown[t1] # 0 /\ shown[t1] \in {fiber'.value, latest'[t1]}
                      /\ shown[t1] # 0 =>
                          \/ latest'[t1] = shown[t1]
                          \/ BeingWritten(t1)' /\ fiber'.value = shown[t1]
                          \/ FileHistory(t1) = objects[shown[t1]].history
    BY <1>1 DEF LastShownIsKept, FileHistory
  <2>1. ~BeingWritten(t1)
    BY DEF BeingWritten
  <2> QED
    BY <1>2, <2>1 DEF TerminalInv, LastShownIsKept
<1> QED
  BY <1>1, <1>2, <1>3, WorkerStepKeeps

-----------------------------------------------------------------------------
(* The operations.                                                          *)

\* What a new operation owes its terminal.
Owes(work) ==
    work \in Works =>
        IF work.at = "read" THEN sessions[work.terminal] = 0
        ELSE /\ work.object # 0
             /\ objects[work.object].terminal = work.terminal
             /\ ~objects[work.object].running
             /\ work.object \notin abandoned => sessions[work.terminal] = work.object

LEMMA OperationStepKeeps ==
    ASSUME TerminalInv, UNCHANGED <<sessionVars, files, persistVars, faults, shown, abandoned, forgotten>>,
           operation' \in {NoOperation} \cup Works \cup Closings,
           Owes(operation'), ClosingProgress'
    PROVE  TerminalInv'
<1>1. HistoriesGetWritten' /\ Works' = Works /\ Closings' = Closings /\ Fibers' = Fibers
  BY DEF TerminalInv, HistoriesGetWritten, Persist!NothingStranded, persistVars, sessionVars,
         Persist!OnFiber, Works, Closings, Fibers
<1>2. TerminalTypeOK' /\ WorkTypeOK'
  BY <1>1 DEF TerminalInv, TerminalTypeOK, WorkTypeOK, persistVars, sessionVars
<1>3. SessionsOwned'
  <2>1. \A t \in Terminals : \A p \in References(t)' \cup ({shown'[t]} \ {0}) : objects'[p].terminal = t
    BY InvTypes, Owned DEF References, BeingWritten, persistVars, sessionVars
  <2>2. Owes(operation') => (operation' \in Works =>
          IF operation'.at = "read" THEN sessions'[operation'.terminal] = 0
          ELSE /\ operation'.object # 0
               /\ objects'[operation'.object].terminal = operation'.terminal
               /\ ~objects'[operation'.object].running
               /\ operation'.object \notin abandoned' => sessions'[operation'.terminal] = operation'.object)
    BY DEF Owes, sessionVars
  <2> QED
    BY <1>1, <2>1, <2>2 DEF SessionsOwned
<1>4. NoOrphanProcess' 
  BY DEF TerminalInv, NoOrphanProcess, Orphans, sessionVars
<1>5. LastShownIsKept'
  BY DEF TerminalInv, LastShownIsKept, BeingWritten, FileHistory, persistVars, sessionVars
<1>6. AbandonedForgotten'
  BY AbandonedStays DEF sessionVars
<1> QED
  BY <1>6, <1>1, <1>2, <1>3, <1>4, <1>5 DEF TerminalInv

LEMMA OpenWithoutSessionKeeps ==
    ASSUME TerminalInv, NEW t \in Terminals, NEW owner \in Incarnations, OpenWithoutSession(t, owner)
    PROVE  TerminalInv'
<1> DEFINE work == Work("open", t, 0, owner, "read")
<1>1. /\ operation' = work /\ sessions[t] = 0
      /\ UNCHANGED <<sessionVars, files, persistVars, faults, shown, abandoned, forgotten>>
  BY DEF OpenWithoutSession
<1>2. work \in Works /\ work.at = "read" /\ work.terminal = t /\ work.kind = "open"
  BY InvTypes DEF Works, Work
<1>3. operation' \notin Closings'
  BY <1>1, <1>2 DEF Closings
<1> QED
  BY <1>1, <1>2, <1>3, OperationStepKeeps DEF Owes, ClosingProgress

LEMMA RestartFlushedKeeps ==
    ASSUME TerminalInv, RestartFlushed
    PROVE  TerminalInv'
<1> DEFINE work == Work("restart", operation.terminal, operation.object, operation.owner, "spawn")
<1>1. operation \in Works /\ operation.kind = "restart" /\ operation.at = "flush"
  BY Kinds DEF RestartFlushed, TerminalInv
<1>2. operation' = work /\ UNCHANGED <<sessionVars, files, persistVars, faults, shown, abandoned, forgotten>>
  <2>1. operation = Work("restart", operation.terminal, operation.object, operation.owner, "flush")
    BY <1>1, Kinds DEF TerminalInv
  <2> QED
    BY <2>1 DEF RestartFlushed, Work
<1>3. /\ work \in Works /\ work.at = "spawn" /\ work.kind = "restart"
      /\ work.terminal = operation.terminal /\ work.object = operation.object
  BY <1>1, Kinds DEF TerminalInv, Works, Work
<1>4. operation' \notin Closings'
  BY <1>2, <1>3 DEF Closings
<1>5. Owes(work)
  BY <1>1, <1>3 DEF Owes, TerminalInv, SessionsOwned
<1> QED
  BY <1>2, <1>3, <1>4, <1>5, OperationStepKeeps DEF ClosingProgress

LEMMA CloseKeeps ==
    ASSUME TerminalInv, NEW kind \in {"close", "cleanUp"}, NEW terminals \in SUBSET Terminals,
           NEW deleted \in SUBSET Terminals, \A t \in deleted \ terminals : sessions[t] = 0,
           Close(kind, terminals, deleted)
    PROVE  TerminalInv'
<1> DEFINE work == CloseWork(kind, terminals, {}, deleted)
<1>1. operation' = work /\ UNCHANGED <<sessionVars, files, persistVars, faults, shown, abandoned, forgotten>>
  BY DEF Close
<1>2. /\ work \in Closings /\ work.kind = kind /\ work.at = "next" /\ work.closed = {}
      /\ work.terminals = terminals /\ work.deleted = deleted
  BY DEF Closings, CloseWork
<1>3. work \notin Works
  BY <1>2 DEF Works
<1>4. ClosingProgress'
  BY <1>1, <1>2 DEF ClosingProgress, sessionVars
<1> QED
  BY <1>1, <1>2, <1>3, <1>4, OperationStepKeeps DEF Owes

\* A process is started for the session of its terminal, or for one that was
\* evicted, which is abandoned.
LEMMA SpawnKeeps ==
    ASSUME TerminalInv, Spawn
    PROVE  TerminalInv'
<1> DEFINE o == operation.object  t == operation.terminal
<1>1. /\ operation \in Works /\ operation.at # "read" /\ t \in Terminals
      /\ operation' = NoOperation
      /\ UNCHANGED <<sessions, files, persistVars, faults, shown, abandoned, forgotten>>
  BY Kinds DEF Spawn, TerminalInv
<1>2. /\ o \in 1..Len(objects) /\ objects[o].terminal = t
      /\ o \notin abandoned => sessions[t] = o
  BY <1>1, Kinds DEF TerminalInv, SessionsOwned
<1>3. /\ objects' \in Seq(Objects) /\ Len(objects') = Len(objects)
      /\ \A p \in 1..Len(objects) :
            /\ objects'[p].terminal = objects[p].terminal /\ objects'[p].history = objects[p].history
            /\ p # o => objects'[p].running = objects[p].running
  <2>1. PICK running \in BOOLEAN : Set(o, running, objects[o].history)
    BY DEF Spawn
  <2>2. objects[o].history \in Seq(Incarnations)
    BY <1>2, ObjectTypes DEF TerminalInv
  <2> QED
    BY <1>2, <2>1, <2>2, SetObject DEF TerminalInv
<1>4. HistoriesGetWritten' /\ Fibers' = Fibers
  BY <1>1, <1>3 DEF TerminalInv, HistoriesGetWritten, Persist!NothingStranded, persistVars,
                    Persist!OnFiber, Fibers
<1>5. TerminalTypeOK' /\ WorkTypeOK'
  BY <1>1, <1>3, <1>4 DEF TerminalInv, TerminalTypeOK, WorkTypeOK, persistVars
<1>6. operation' \notin Works' /\ operation' \notin Closings'
  BY <1>1 DEF NoOperation, Works, Closings
<1>7. SessionsOwned' /\ ClosingProgress'
  <2>1. \A t1 \in Terminals : \A p \in References(t1)' \cup ({shown'[t1]} \ {0}) : objects'[p].terminal = t1
    BY <1>1, <1>3, InvTypes, Owned DEF References, BeingWritten, persistVars
  <2> QED
    BY <1>6, <2>1 DEF SessionsOwned, ClosingProgress
<1>8. NoOrphanProcess'
  <2> SUFFICES ASSUME NEW p \in 1..Len(objects), objects'[p].running,
                      sessions[objects[p].terminal] # p
               PROVE  p \in abandoned
    BY <1>1, <1>3 DEF NoOrphanProcess, Orphans
  <2>1. CASE p = o
    BY <1>2, <2>1
  <2>2. CASE p # o
    BY <1>3, <2>2, RunningIsSession
  <2> QED
    BY <2>1, <2>2
<1>9. LastShownIsKept'
  BY <1>1, <1>3, InvTypes DEF TerminalInv, LastShownIsKept, BeingWritten, FileHistory, persistVars
<1>10. AbandonedForgotten'
  BY <1>1, <1>3, AbandonedStays
<1> QED
  BY <1>10, <1>4, <1>5, <1>7, <1>8, <1>9 DEF TerminalInv

\* Closing a terminal that has a session stops its process and queues its history.
LEMMA CloseNextKeeps ==
    ASSUME TerminalInv, CloseNext
    PROVE  TerminalInv'
<1>1. PICK t \in operation.terminals \ operation.closed :
        /\ operation' = FlushWork(t)
        /\ IF sessions[t] = 0
           THEN UNCHANGED <<objects, persistVars>>
           ELSE Set(sessions[t], FALSE, objects[sessions[t]].history) /\ Persist!Enqueue(t, sessions[t])
  BY DEF CloseNext
<1>2. /\ operation \in Closings /\ t \in Terminals
      /\ UNCHANGED <<sessions, files, faults, shown, abandoned, forgotten>>
  BY Kinds DEF CloseNext, TerminalInv
<1>3. sessions[t] # 0 => /\ sessions[t] \in 1..Len(objects) /\ objects[sessions[t]].terminal = t
                         /\ objects[sessions[t]].history \in Seq(Incarnations)
  BY <1>2, InvTypes, Owned, ObjectTypes DEF TerminalInv
<1>4. /\ objects' \in Seq(Objects) /\ Len(objects') = Len(objects)
      /\ \A p \in 1..Len(objects) :
            /\ objects'[p].terminal = objects[p].terminal /\ objects'[p].history = objects[p].history
            /\ objects'[p].running => objects[p].running
      /\ sessions[t] # 0 => ~objects'[sessions[t]].running
  <2>1. CASE sessions[t] = 0
    BY <1>1, <2>1 DEF TerminalInv, TerminalTypeOK
  <2>2. CASE sessions[t] # 0
    BY <1>1, <1>3, <2>2, SetObject, ZenonT(60) DEF TerminalInv
  <2> QED
    BY <2>1, <2>2
<1>5. /\ WorkerTypeOK' /\ Persist!NothingStranded' /\ fiber' = fiber
      /\ latest' = [latest EXCEPT ![t] = IF sessions[t] = 0 THEN @ ELSE sessions[t]]
      /\ \A t1 \in Terminals : t1 # t /\ Persist!Drained(t1) => Persist!Drained(t1)'
  <2>1. CASE sessions[t] = 0
    <3>1. UNCHANGED <<latest, queuedKeys, activeKeys, queue, fiber>>
      BY <1>1, <2>1 DEF persistVars
    <3>2. latest' = [latest EXCEPT ![t] = IF sessions[t] = 0 THEN @ ELSE sessions[t]]
      BY <2>1, <3>1, InvTypes DEF WorkerTypeOK
    <3> QED
      BY <3>1, <3>2, InvTypes DEF WorkerTypeOK, TerminalInv, HistoriesGetWritten, Persist!NothingStranded,
                                  Persist!OnFiber, Persist!Drained
  <2>2. CASE sessions[t] # 0
    <3>1. Persist!Enqueue(t, sessions[t]) /\ sessions[t] \in Nat
      BY <1>1, <1>3, <2>2
    <3>2. /\ WorkerTypeOK' /\ Persist!NothingStranded' /\ fiber' = fiber /\ activeKeys' = activeKeys
          /\ latest' = [latest EXCEPT ![t] = sessions[t]]
      BY <1>2, <3>1, InvTypes, EnqueueStrands DEF TerminalInv, HistoriesGetWritten
    <3>3. queuedKeys' \subseteq queuedKeys \cup {t}
      BY <3>1 DEF Persist!Enqueue
    <3> QED
      BY <2>2, <3>2, <3>3, InvTypes DEF Persist!Drained, WorkerTypeOK
  <2> QED
    BY <2>1, <2>2
<1>6. \A t1 \in Terminals : latest'[t1] = IF t1 = t /\ sessions[t] # 0 THEN sessions[t] ELSE latest[t1]
  BY <1>5, InvTypes DEF WorkerTypeOK
<1>7. /\ operation' \in Closings /\ operation'.at = "flush" /\ operation'.terminal = t
      /\ operation'.terminals = operation.terminals /\ operation'.closed = operation.closed
      /\ operation'.deleted = operation.deleted /\ operation' \notin Works
  <2>1. operation' \in Closings
    BY <1>1, <1>2, Kinds DEF TerminalInv, Closings, FlushWork
  <2>2. operation'.kind = operation.kind
    BY <1>1 DEF FlushWork
  <2> QED
    BY <1>1, <1>2, <2>1, <2>2, Kinds DEF TerminalInv, FlushWork, Works
<1>8. Works' = Works /\ Closings' = Closings /\ Fibers' = Fibers
  BY <1>4 DEF Works, Closings, Fibers
<1>9. TerminalTypeOK' /\ WorkTypeOK'
  <2>1. \A t1 \in Terminals : latest'[t1] \in 0..Len(objects)
    BY <1>6, InvTypes
  <2>2. latest' \in [Terminals -> 0..Len(objects)]
    BY <1>5, <2>1 DEF WorkerTypeOK
  <2>3. TerminalTypeOK'
    BY <1>2, <1>4, <2>2 DEF TerminalInv, TerminalTypeOK
  <2>4. WorkTypeOK'
    BY <1>2, <1>5, <1>7, <1>8 DEF TerminalInv, WorkTypeOK, WorkerTypeOK
  <2> QED
    BY <2>3, <2>4
<1>10. SessionsOwned'
  <2>1. \A t1 \in Terminals : \A p \in References(t1)' \cup ({shown'[t1]} \ {0}) : objects'[p].terminal = t1
    BY <1>2, <1>4, <1>5, <1>6, InvTypes, Owned DEF References, BeingWritten
  <2> QED
    BY <1>7, <1>8, <2>1 DEF SessionsOwned
<1>11. NoOrphanProcess'
  BY <1>2, <1>4 DEF TerminalInv, NoOrphanProcess, Orphans
<1>12. ClosingProgress'
  <2>1. \A t1 \in operation.closed \ forgotten : Persist!Drained(t1)'
    BY <1>1, <1>2, <1>5, Kinds DEF TerminalInv, ClosingProgress
  <2> QED
    BY <1>2, <1>4, <1>7, <2>1 DEF TerminalInv, ClosingProgress
<1>13. LastShownIsKept'
  <2> SUFFICES ASSUME NEW t1 \in Terminals \ forgotten
               PROVE  /\ sessions[t1] \in {0, shown[t1]} /\ latest'[t1] \in {0, shown[t1]}
                      /\ BeingWritten(t1) => shown[t1] # 0 /\ shown[t1] \in {fiber.value, latest'[t1]}
                      /\ shown[t1] # 0 =>
                          \/ latest'[t1] = shown[t1]
                          \/ BeingWritten(t1) /\ fiber.value = shown[t1]
                          \/ FileHistory(t1) = objects'[shown[t1]].history
    BY <1>2, <1>5 DEF LastShownIsKept, BeingWritten, FileHistory
  <2>1. shown[t1] # 0 => objects'[shown[t1]].history = objects[shown[t1]].history
    BY <1>4, InvTypes
  <2> QED
    BY <1>6, <2>1 DEF TerminalInv, LastShownIsKept
<1>14. AbandonedForgotten'
  BY <1>2, <1>4, AbandonedStays
<1> QED
  BY <1>14, <1>5, <1>9, <1>10, <1>11, <1>12, <1>13 DEF TerminalInv, HistoriesGetWritten

LEMMA CloseFlushedKeeps ==
    ASSUME TerminalInv, CloseFlushed
    PROVE  TerminalInv'
<1> DEFINE t == operation.terminal  work == Flushed
<1>1. /\ operation \in Closings /\ operation.at = "flush" /\ t \in Terminals /\ Persist!Drained(t)
      /\ sessions' = [sessions EXCEPT ![t] = 0] /\ operation' = work
      /\ UNCHANGED <<objects, files, persistVars, faults, shown, abandoned, forgotten>>
  BY Kinds DEF CloseFlushed, TerminalInv
<1>2. \A t1 \in Terminals : sessions'[t1] = IF t1 = t THEN 0 ELSE sessions[t1]
  BY <1>1 DEF TerminalInv, TerminalTypeOK
<1>3. HistoriesGetWritten' /\ Works' = Works /\ Closings' = Closings /\ Fibers' = Fibers
  BY <1>1 DEF TerminalInv, HistoriesGetWritten, Persist!NothingStranded, persistVars,
              Persist!OnFiber, Works, Closings, Fibers
<1>4. /\ work \in Closings /\ work.at = "next" /\ work.terminals = operation.terminals
      /\ work.closed = operation.closed \cup {t} /\ work.deleted = operation.deleted
      /\ work \notin Works
  <2>1. operation.kind \in {"close", "cleanUp"} /\ operation.terminals \subseteq Terminals
        /\ operation.closed \subseteq Terminals /\ operation.deleted \subseteq Terminals
    BY <1>1, Kinds DEF TerminalInv
  <2> QED
    BY <1>1, <2>1 DEF Flushed, CloseWork, Closings, Works
<1>5. TerminalTypeOK' /\ WorkTypeOK'
  <2>1. sessions' \in [Terminals -> 0..Len(objects)]
    BY <1>1, InvTypes DEF TerminalInv, TerminalTypeOK
  <2> QED
    BY <1>1, <1>3, <1>4, <2>1 DEF TerminalInv, TerminalTypeOK, WorkTypeOK, persistVars
<1>6. SessionsOwned'
  <2>1. \A t1 \in Terminals : \A p \in References(t1)' \cup ({shown'[t1]} \ {0}) : objects'[p].terminal = t1
    BY <1>1, <1>2, InvTypes, Owned DEF References, BeingWritten, persistVars
  <2> QED
    BY <1>1, <1>3, <1>4, <2>1 DEF SessionsOwned
<1>7. NoOrphanProcess'
  <2> SUFFICES ASSUME NEW o \in 1..Len(objects), objects[o].running,
                      sessions'[objects[o].terminal] # o, o \notin abandoned
               PROVE  FALSE
    BY <1>1 DEF NoOrphanProcess, Orphans
  <2>1. sessions[objects[o].terminal] = o /\ objects[o].terminal \in Terminals
    BY RunningIsSession, ObjectTypes DEF TerminalInv
  <2>2. objects[o].terminal = t
    BY <1>2, <2>1
  <2> QED
    BY <1>1, <2>1, <2>2 DEF TerminalInv, ClosingProgress
<1>8. ClosingProgress'
  <2>1. \A t1 \in (operation.deleted \ operation.terminals) \cup operation.closed \cup {t} : sessions'[t1] = 0
    BY <1>1, <1>2, Kinds DEF TerminalInv, ClosingProgress
  <2>2. \A t1 \in (operation.closed \cup {t}) \ forgotten : Persist!Drained(t1)'
    BY <1>1, <1>2 DEF TerminalInv, ClosingProgress, Persist!Drained, persistVars
  <2> QED
    BY <1>1, <1>4, <2>1, <2>2 DEF ClosingProgress
<1>9. LastShownIsKept'
  BY <1>1, <1>2 DEF TerminalInv, LastShownIsKept, BeingWritten, FileHistory, persistVars
<1>10. AbandonedForgotten'
  BY <1>1, AbandonedStays
<1> QED
  BY <1>10, <1>3, <1>5, <1>6, <1>7, <1>8, <1>9 DEF TerminalInv

\* A terminal whose history was deleted has neither a session nor a write that
\* is still to come.
LEMMA CloseEndsFacts ==
    ASSUME TerminalInv, CloseEnds
    PROVE  /\ operation \in Closings /\ operation' = NoOperation
           /\ UNCHANGED <<sessionVars, persistVars>>
           /\ faults' \in Nat /\ forgotten \subseteq forgotten' /\ forgotten' \subseteq Terminals
           /\ abandoned' = abandoned
           /\ files' \in [Terminals -> Seq(Incarnations) \cup {NoFile}]
           /\ shown' \in [Terminals -> 0..Len(objects)]
           /\ \A t \in Terminals : t \notin operation.deleted =>
                 files'[t] = files[t] /\ shown'[t] = shown[t]
           /\ \A t \in operation.deleted \ forgotten' :
                 /\ files'[t] = NoFile /\ shown'[t] = 0
                 /\ sessions[t] = 0 /\ Persist!Drained(t)
<1>1. PICK kept \in SUBSET operation.deleted :
        /\ kept # {} => faults < MaxFaults
        /\ faults' = faults + (IF kept = {} THEN 0 ELSE 1)
        /\ files' = [t \in Terminals |-> IF t \in operation.deleted \ kept THEN NoFile ELSE files[t]]
        /\ forgotten' = forgotten \cup kept \cup
               {t \in operation.deleted \ operation.closed : ~Persist!Drained(t)}
  BY DEF CloseEnds
<1>2. /\ operation \in Closings /\ operation' = NoOperation /\ UNCHANGED <<sessionVars, persistVars, abandoned>>
      /\ operation.deleted \subseteq Terminals /\ operation.terminals \subseteq operation.closed
      /\ shown' = [t \in Terminals |-> IF t \in operation.deleted THEN 0 ELSE shown[t]]
  BY Kinds DEF CloseEnds, TerminalInv
<1>3. /\ faults \in Nat /\ forgotten \subseteq Terminals
      /\ files \in [Terminals -> Seq(Incarnations) \cup {NoFile}]
      /\ shown \in [Terminals -> 0..Len(objects)] /\ Len(objects) \in Nat
  BY DEF TerminalInv, TerminalTypeOK, WorkTypeOK
<1>4. faults' \in Nat
  BY <1>1, <1>3
<1>5. forgotten \subseteq forgotten' /\ forgotten' \subseteq Terminals
  BY <1>1, <1>2, <1>3
<1>6. /\ files' \in [Terminals -> Seq(Incarnations) \cup {NoFile}]
      /\ shown' \in [Terminals -> 0..Len(objects)]
  BY <1>1, <1>2, <1>3
<1>7. \A t \in operation.deleted \ forgotten' :
        /\ files'[t] = NoFile /\ shown'[t] = 0 /\ sessions[t] = 0 /\ Persist!Drained(t)
  BY <1>1, <1>2 DEF TerminalInv, ClosingProgress
<1> QED
  BY <1>1, <1>2, <1>4, <1>5, <1>6, <1>7

LEMMA CloseEndsKeeps ==
    ASSUME TerminalInv, CloseEnds
    PROVE  TerminalInv'
<1>1. /\ operation \in Closings /\ operation' = NoOperation
      /\ UNCHANGED <<objects, sessions, persistVars, abandoned>>
      /\ faults' \in Nat /\ forgotten \subseteq forgotten' /\ forgotten' \subseteq Terminals
      /\ files' \in [Terminals -> Seq(Incarnations) \cup {NoFile}]
      /\ shown' \in [Terminals -> 0..Len(objects)]
      /\ \A t \in Terminals : t \notin operation.deleted => files'[t] = files[t] /\ shown'[t] = shown[t]
      /\ \A t \in operation.deleted \ forgotten' :
            files'[t] = NoFile /\ shown'[t] = 0 /\ sessions[t] = 0 /\ Persist!Drained(t)
      /\ \A t \in Terminals : shown'[t] \in {0, shown[t]}
  BY CloseEndsFacts DEF CloseEnds, sessionVars, TerminalInv
<1>2. HistoriesGetWritten' /\ Fibers' = Fibers
  BY <1>1 DEF TerminalInv, HistoriesGetWritten, Persist!NothingStranded, persistVars,
              Persist!OnFiber, Fibers
<1>3. TerminalTypeOK' /\ WorkTypeOK'
  BY <1>1, <1>2 DEF TerminalInv, TerminalTypeOK, WorkTypeOK, persistVars
<1>4. operation' \notin Works' /\ operation' \notin Closings'
  BY <1>1 DEF NoOperation, Works, Closings
<1>5. SessionsOwned' /\ ClosingProgress'
  <2>1. \A t \in Terminals : \A p \in References(t)' \cup ({shown'[t]} \ {0}) : objects'[p].terminal = t
    BY <1>1, InvTypes, Owned DEF References, BeingWritten, persistVars
  <2> QED
    BY <1>4, <2>1 DEF SessionsOwned, ClosingProgress
<1>6. NoOrphanProcess' 
  BY <1>1 DEF TerminalInv, NoOrphanProcess, Orphans
<1>7. LastShownIsKept'
  <2> SUFFICES ASSUME NEW t \in Terminals, t \notin forgotten'
               PROVE  /\ sessions[t] \in {0, shown'[t]} /\ latest[t] \in {0, shown'[t]}
                      /\ BeingWritten(t) => shown'[t] # 0 /\ shown'[t] \in {fiber.value, latest[t]}
                      /\ shown'[t] # 0 =>
                          \/ latest[t] = shown'[t]
                          \/ BeingWritten(t) /\ fiber.value = shown'[t]
                          \/ FileHistory(t)' = objects[shown'[t]].history
    BY <1>1 DEF LastShownIsKept, BeingWritten, persistVars
  <2>1. CASE t \in operation.deleted
    BY <1>1, <2>1, DrainedIsQuiet
  <2>2. CASE t \notin operation.deleted
    BY <1>1, <2>2 DEF TerminalInv, LastShownIsKept, FileHistory
  <2> QED
    BY <2>1, <2>2
<1>8. AbandonedForgotten'
  BY <1>1, AbandonedStays
<1> QED
  BY <1>8, <1>2, <1>3, <1>5, <1>6, <1>7 DEF TerminalInv

LEMMA CrashKeeps ==
    ASSUME TerminalInv, NEW lost \in SUBSET Terminals, TerminalCrash(lost)
    PROVE  TerminalInv'
<1>1. /\ objects' = <<>> /\ sessions' = [t \in Terminals |-> 0] /\ operation' = NoOperation
      /\ latest' = [t \in Terminals |-> 0] /\ queuedKeys' = {} /\ activeKeys' = {} /\ queue' = <<>>
      /\ fiber' = Persist!Idle /\ fiber'.at = "idle" /\ shown' = [t \in Terminals |-> 0]
      /\ forgotten' \subseteq Terminals /\ abandoned' = {} /\ faults' \in Nat /\ files' = files
  BY DEF TerminalCrash, Persist!Restart, Persist!Idle, NoRequest, TerminalInv, TerminalTypeOK, WorkTypeOK
<1>2. /\ objects' \in Seq(Objects) /\ Len(objects') = 0 /\ queue' \in Seq(Terminals)
      /\ DOMAIN queue' = {}
  BY <1>1
<1>3. HistoriesGetWritten'
  BY <1>1, <1>2 DEF HistoriesGetWritten, Persist!NothingStranded, Persist!OnFiber, NoRequest
<1>4. TerminalTypeOK' /\ WorkTypeOK'
  BY <1>1, <1>2 DEF TerminalInv, TerminalTypeOK, WorkTypeOK, Fibers
<1>5. operation' \notin Works' /\ operation' \notin Closings'
  BY <1>1 DEF NoOperation, Works, Closings
<1>6. SessionsOwned' /\ AbandonedForgotten' /\ ClosingProgress'
  BY <1>1, <1>5 DEF SessionsOwned, AbandonedForgotten, ClosingProgress, References, BeingWritten
<1>7. NoOrphanProcess' 
  BY <1>2 DEF NoOrphanProcess, Orphans
<1>8. LastShownIsKept'
  BY <1>1 DEF LastShownIsKept, BeingWritten
<1> QED
  BY <1>3, <1>4, <1>6, <1>7, <1>8 DEF TerminalInv

\* An object is added for a terminal without a session, and becomes its session.
LEMMA AddedSessionKeeps ==
    ASSUME TerminalInv, NEW t \in Terminals, NEW owner \in Incarnations,
           NEW history \in Seq(Incarnations), objects' = NewObject(t, owner, history), sessions[t] = 0,
           sessions' = [sessions EXCEPT ![t] = Len(objects) + 1],
           shown' = [shown EXCEPT ![t] = Len(objects) + 1],
           operation' \in {Work("open", t, Len(objects) + 1, owner, "spawn"),
                           Work("restart", t, Len(objects) + 1, owner, "flush")},
           WorkerTypeOK', Persist!NothingStranded', fiber' = fiber,
           \A t1 \in Terminals : t1 # t => latest'[t1] = latest[t1],
           \/ latest'[t] = Len(objects) + 1
           \/ latest'[t] = 0 /\ ~BeingWritten(t) /\ FileHistory(t) = history,
           UNCHANGED <<files, faults, abandoned, forgotten>>
    PROVE  TerminalInv'
<1> DEFINE o == Len(objects) + 1
<1>1. /\ objects' \in Seq(Objects) /\ Len(objects') = o /\ Len(objects) \in Nat
      /\ objects'[o].terminal = t /\ ~objects'[o].running /\ objects'[o].history = history
      /\ \A p \in 1..Len(objects) : objects'[p] = objects[p]
  <2>1. TerminalTypeOK
    BY DEF TerminalInv
  <2>2. /\ objects' \in Seq(Objects) /\ Len(objects') = o /\ Len(objects) \in Nat
        /\ objects'[o] = [terminal |-> t, owner |-> owner, history |-> history, running |-> FALSE]
        /\ \A p \in 1..Len(objects) : objects'[p] = objects[p]
    BY <2>1, AddedObject
  <2> QED
    BY <2>2
<1>2. /\ \A t1 \in Terminals : sessions'[t1] = IF t1 = t THEN o ELSE sessions[t1]
      /\ \A t1 \in Terminals : shown'[t1] = IF t1 = t THEN o ELSE shown[t1]
      /\ \A t1 \in Terminals : latest'[t1] \in 0..Len(objects')
  BY <1>1, InvTypes, SMTT(30) DEF TerminalInv, TerminalTypeOK
<1>3. HistoriesGetWritten'
  BY DEF HistoriesGetWritten
<1>4. TerminalTypeOK'
  <2>1. /\ sessions' \in [Terminals -> 0..Len(objects')] /\ shown' \in [Terminals -> 0..Len(objects')]
    BY <1>1 DEF TerminalInv, TerminalTypeOK
  <2>2. latest' \in [Terminals -> 0..Len(objects')]
    BY <1>2 DEF WorkerTypeOK
  <2> QED
    BY <1>1, <2>1, <2>2 DEF TerminalInv, TerminalTypeOK
<1>5. /\ operation' \in Works' /\ operation' \notin Closings' /\ operation'.at # "read"
      /\ operation'.terminal = t /\ operation'.object = o
  BY <1>1 DEF Work, Works, Closings
<1>6. WorkTypeOK'
  <2>1. fiber' \in Fibers'
    BY <1>1, InvTypes DEF Fibers
  <2> QED
    BY <1>5, <2>1 DEF TerminalInv, WorkTypeOK, WorkerTypeOK
<1>7. SessionsOwned'
  <2>1. \A t1 \in Terminals : \A p \in References(t1)' \cup ({shown'[t1]} \ {0}) : objects'[p].terminal = t1
    <3> SUFFICES ASSUME NEW t1 \in Terminals, NEW p \in References(t1)' \cup ({shown'[t1]} \ {0})
                 PROVE  objects'[p].terminal = t1
      OBVIOUS
    <3>1. \/ p \in {sessions'[t1], latest'[t1], shown'[t1]} /\ p # 0
          \/ BeingWritten(t1) /\ p = fiber.value
      BY DEF References, BeingWritten
    <3>2. CASE BeingWritten(t1) /\ p = fiber.value
      BY <1>1, <3>2, InvTypes, Owned
    <3>3. CASE t1 # t /\ p # 0 /\ p \in {sessions[t1], latest[t1], shown[t1]}
      <4>1. p \in 1..Len(objects) /\ objects[p].terminal = t1
        BY <3>3, InvTypes, Owned
      <4> QED
        BY <1>1, <4>1
    <3>4. CASE t1 = t /\ p = o
      BY <1>1, <3>4
    <3> QED
      BY <1>2, <3>1, <3>2, <3>3, <3>4
  <2> QED
    BY <1>1, <1>2, <1>5, <2>1 DEF SessionsOwned
<1>8. NoOrphanProcess'
  <2> SUFFICES ASSUME NEW p \in 1..o, objects'[p].running, sessions'[objects'[p].terminal] # p
               PROVE  p \in abandoned
    BY <1>1 DEF NoOrphanProcess, Orphans
  <2>1. p \in 1..Len(objects) /\ objects'[p] = objects[p]
    BY <1>1
  <2>2. objects[p].terminal \in Terminals /\ objects[p].running /\ p # 0
    BY <2>1, ObjectTypes DEF TerminalInv
  <2>3. sessions[objects[p].terminal] # p
    BY <1>2, <2>1, <2>2
  <2> QED
    BY <2>1, <2>2, <2>3, RunningIsSession
<1>9. ClosingProgress'
  BY <1>5 DEF ClosingProgress
<1>10. LastShownIsKept'
  <2> SUFFICES ASSUME NEW t1 \in Terminals \ forgotten
               PROVE  /\ sessions'[t1] \in {0, shown'[t1]} /\ latest'[t1] \in {0, shown'[t1]}
                      /\ BeingWritten(t1) => shown'[t1] # 0 /\ shown'[t1] \in {fiber.value, latest'[t1]}
                      /\ shown'[t1] # 0 =>
                          \/ latest'[t1] = shown'[t1]
                          \/ BeingWritten(t1) /\ fiber.value = shown'[t1]
                          \/ FileHistory(t1) = objects'[shown'[t1]].history
    BY DEF LastShownIsKept, BeingWritten, FileHistory
  <2>1. CASE t1 = t
    BY <1>1, <1>2, <2>1
  <2>2. CASE t1 # t
    <3>1. shown[t1] # 0 => objects'[shown[t1]] = objects[shown[t1]]
      BY <1>1, InvTypes
    <3> QED
      BY <1>2, <2>2, <3>1 DEF TerminalInv, LastShownIsKept
  <2> QED
    BY <2>1, <2>2
<1>11. AbandonedForgotten'
  BY <1>1, AbandonedStays
<1> QED
  BY <1>11, <1>3, <1>4, <1>6, <1>7, <1>8, <1>9, <1>10 DEF TerminalInv

\* Reading the file of a terminal finds what it showed last.
LEMMA OpenReadFacts ==
    ASSUME TerminalInv, OpenRead
    PROVE  /\ operation \in Works /\ operation.terminal \in Terminals
           /\ operation.owner \in Incarnations /\ sessions[operation.terminal] = 0
           /\ FileHistory(operation.terminal) \in Seq(Incarnations)
           /\ objects' = NewObject(operation.terminal, operation.owner, FileHistory(operation.terminal))
           /\ sessions' = [sessions EXCEPT ![operation.terminal] = Len(objects) + 1]
           /\ shown' = [shown EXCEPT ![operation.terminal] = Len(objects) + 1]
           /\ operation' = Work("open", operation.terminal, Len(objects) + 1, operation.owner, "spawn")
           /\ UNCHANGED <<files, persistVars, faults, abandoned, forgotten>>
           /\ latest[operation.terminal] = 0 /\ ~BeingWritten(operation.terminal)
<1> DEFINE t == operation.terminal
<1>1. /\ operation.kind = "open" /\ operation.at = "read" /\ Persist!Drained(t)
      /\ objects' = NewObject(t, operation.owner, FileHistory(t))
      /\ shown' = [shown EXCEPT ![t] = Len(objects) + 1]
      /\ operation' = [operation EXCEPT !.at = "spawn", !.object = Len(objects) + 1]
      /\ sessions' = [sessions EXCEPT ![t] = Len(objects) + 1]
      /\ UNCHANGED <<files, persistVars, faults, abandoned, forgotten>>
  BY DEF OpenRead, FileHistory
<1>2. /\ operation \in Works /\ t \in Terminals /\ operation.owner \in Incarnations
      /\ operation = Work("open", t, operation.object, operation.owner, "read")
  BY <1>1, Kinds DEF TerminalInv
<1>3. operation' = Work("open", t, Len(objects) + 1, operation.owner, "spawn")
  BY <1>1, <1>2 DEF Work
<1>4. sessions[t] = 0
  BY <1>1, <1>2 DEF TerminalInv, SessionsOwned
<1>5. FileHistory(t) \in Seq(Incarnations)
  BY <1>2 DEF TerminalInv, TerminalTypeOK, FileHistory
<1>6. latest[t] = 0 /\ ~BeingWritten(t)
  BY <1>1, <1>2, DrainedIsQuiet
<1> QED
  BY <1>1, <1>2, <1>3, <1>4, <1>5, <1>6

LEMMA OpenReadKeeps ==
    ASSUME TerminalInv, OpenRead
    PROVE  TerminalInv'
<1>1. UNCHANGED <<latest, queuedKeys, activeKeys, queue, fiber>>
  BY OpenReadFacts DEF persistVars
<1>2. WorkerTypeOK' /\ Persist!NothingStranded'
  BY <1>1, InvTypes DEF WorkerTypeOK, TerminalInv, HistoriesGetWritten, Persist!NothingStranded,
                        Persist!OnFiber
<1>3. PICK t, owner, history :
        /\ t = operation.terminal /\ owner = operation.owner /\ history = FileHistory(operation.terminal)
  OBVIOUS
<1>4. /\ t \in Terminals /\ owner \in Incarnations /\ history \in Seq(Incarnations)
      /\ objects' = NewObject(t, owner, history) /\ sessions[t] = 0
      /\ sessions' = [sessions EXCEPT ![t] = Len(objects) + 1]
      /\ shown' = [shown EXCEPT ![t] = Len(objects) + 1]
      /\ operation' = Work("open", t, Len(objects) + 1, owner, "spawn")
      /\ UNCHANGED <<files, faults, abandoned, forgotten>>
      /\ latest[t] = 0 /\ ~BeingWritten(t) /\ FileHistory(t) = history
  BY <1>3, OpenReadFacts
<1>5. /\ fiber' = fiber /\ latest'[t] = 0 /\ \A t1 \in Terminals : t1 # t => latest'[t1] = latest[t1]
  BY <1>1, <1>4
<1> QED
  BY <1>2, <1>4, <1>5, AddedSessionKeeps

LEMMA RestartWithoutSessionKeeps ==
    ASSUME TerminalInv, NEW t \in Terminals, NEW owner \in Incarnations,
           RestartWithoutSession(t, owner)
    PROVE  TerminalInv'
<1>1. /\ objects' = NewObject(t, owner, <<>>) /\ sessions[t] = 0 /\ <<>> \in Seq(Incarnations)
      /\ sessions' = [sessions EXCEPT ![t] = Len(objects) + 1]
      /\ shown' = [shown EXCEPT ![t] = Len(objects) + 1]
      /\ operation' = Work("restart", t, Len(objects) + 1, owner, "flush")
      /\ Persist!Enqueue(t, Len(objects) + 1) /\ Len(objects) + 1 \in Nat
      /\ UNCHANGED <<files, faults, abandoned, forgotten>>
  BY InvTypes DEF RestartWithoutSession
<1>2. /\ WorkerTypeOK' /\ Persist!NothingStranded' /\ fiber' = fiber
      /\ latest' = [latest EXCEPT ![t] = Len(objects) + 1]
  BY <1>1, InvTypes, EnqueueStrands DEF TerminalInv, HistoriesGetWritten
<1>3. \A t1 \in Terminals : latest'[t1] = IF t1 = t THEN Len(objects) + 1 ELSE latest[t1]
  BY <1>2, InvTypes DEF WorkerTypeOK
<1> QED
  BY <1>1, <1>2, <1>3, AddedSessionKeeps

LEMMA ClearAndRestartKeeps ==
    ASSUME TerminalInv, NEW t \in Terminals, NEW owner \in Incarnations, ClearAndRestart(t, owner)
    PROVE  /\ TerminalInv'
           /\ objects'[sessions[t]] = [terminal |-> t, owner |-> owner, history |-> <<>>, running |-> FALSE]
           /\ \A p \in 1..Len(objects) : p # sessions[t] => objects'[p] = objects[p]
<1> DEFINE o == sessions[t]
           new == [terminal |-> t, owner |-> owner, history |-> <<>>, running |-> FALSE]
<1>1. /\ o \in 1..Len(objects) /\ objects[o].terminal = t /\ o \in Nat /\ o # 0
      /\ operation' = Work("restart", t, o, owner, "flush")
      /\ Persist!Enqueue(t, o) /\ UNCHANGED <<sessions, files, faults, shown, abandoned, forgotten>>
  BY InvTypes, Owned DEF ClearAndRestart
<1>2. objects' = [objects EXCEPT ![o] = new]
  <2>1. PICK off, empty : off = FALSE /\ empty = <<>>
    OBVIOUS
  <2>2. PICK h, w, r : objects[o] = [terminal |-> t, owner |-> w, history |-> h, running |-> r]
    BY <1>1, ObjectTypes DEF TerminalInv, Objects
  <2>3. \A x, y : x = [objects[o] EXCEPT !.running = off] /\ y = [x EXCEPT !.history = empty]
            => objects' = [objects EXCEPT ![o] = [y EXCEPT !.owner = owner]]
    BY <1>1, <2>1 DEF ClearAndRestart, TerminalInv, TerminalTypeOK
  <2>4. [objects[o] EXCEPT !.running = off] = [terminal |-> t, owner |-> w, history |-> h, running |-> off]
    BY <2>2
  <2>5. [[terminal |-> t, owner |-> w, history |-> h, running |-> off] EXCEPT !.history = empty]
            = [terminal |-> t, owner |-> w, history |-> empty, running |-> off]
    OBVIOUS
  <2>6. [[terminal |-> t, owner |-> w, history |-> empty, running |-> off] EXCEPT !.owner = owner]
            = [terminal |-> t, owner |-> owner, history |-> empty, running |-> off]
    OBVIOUS
  <2>7. objects' = [objects EXCEPT ![o] = [terminal |-> t, owner |-> owner, history |-> empty, running |-> off]]
    BY <2>3, <2>4, <2>5, <2>6
  <2> QED
    BY <2>1, <2>7
<1>3. /\ objects' \in Seq(Objects) /\ Len(objects') = Len(objects) /\ objects'[o] = new
      /\ \A p \in 1..Len(objects) : p # o => objects'[p] = objects[p]
  <2>1. new \in Objects
    BY DEF Objects
  <2> QED
    BY <1>1, <1>2, <2>1, ChangedObject DEF TerminalInv
<1>4. /\ WorkerTypeOK' /\ Persist!NothingStranded' /\ fiber' = fiber
      /\ latest' = [latest EXCEPT ![t] = o]
  BY <1>1, InvTypes, EnqueueStrands DEF TerminalInv, HistoriesGetWritten
<1>5. \A t1 \in Terminals : latest'[t1] = IF t1 = t THEN o ELSE latest[t1]
  BY <1>4, InvTypes DEF WorkerTypeOK
<1>6. Works' = Works /\ Closings' = Closings /\ Fibers' = Fibers
  BY <1>3 DEF Works, Closings, Fibers
<1>7. /\ operation' \in Works /\ operation' \notin Closings /\ operation'.at # "read"
      /\ operation'.terminal = t /\ operation'.object = o
  BY <1>1 DEF Work, Works, Closings
<1>8. TerminalTypeOK' /\ WorkTypeOK'
  <2>1. \A t1 \in Terminals : latest'[t1] \in 0..Len(objects)
    BY <1>1, <1>5, InvTypes
  <2>2. latest' \in [Terminals -> 0..Len(objects)]
    BY <1>4, <2>1 DEF WorkerTypeOK
  <2>3. TerminalTypeOK'
    BY <1>1, <1>3, <2>2 DEF TerminalInv, TerminalTypeOK
  <2>4. WorkTypeOK'
    BY <1>1, <1>4, <1>6, <1>7 DEF TerminalInv, WorkTypeOK, WorkerTypeOK
  <2> QED
    BY <2>3, <2>4
<1>9. SessionsOwned'
  <2>1. \A p \in 1..Len(objects) : objects'[p].terminal = objects[p].terminal
    BY <1>1, <1>3
  <2>2. \A t1 \in Terminals : \A p \in References(t1)' \cup ({shown'[t1]} \ {0}) : objects'[p].terminal = t1
    BY <1>1, <1>4, <1>5, <2>1, InvTypes, Owned, SMTT(30) DEF References, BeingWritten
  <2> QED
    BY <1>1, <1>3, <1>6, <1>7, <2>2 DEF SessionsOwned
<1>10. NoOrphanProcess'
  BY <1>1, <1>3 DEF TerminalInv, NoOrphanProcess, Orphans
<1>11. ClosingProgress'
  BY <1>6, <1>7 DEF ClosingProgress
<1>12. LastShownIsKept'
  <2> SUFFICES ASSUME NEW t1 \in Terminals \ forgotten
               PROVE  /\ sessions[t1] \in {0, shown[t1]} /\ latest'[t1] \in {0, shown[t1]}
                      /\ BeingWritten(t1) => shown[t1] # 0 /\ shown[t1] \in {fiber.value, latest'[t1]}
                      /\ shown[t1] # 0 =>
                          \/ latest'[t1] = shown[t1]
                          \/ BeingWritten(t1) /\ fiber.value = shown[t1]
                          \/ FileHistory(t1) = objects'[shown[t1]].history
    BY <1>1, <1>4 DEF LastShownIsKept, BeingWritten, FileHistory
  <2>1. CASE t1 = t
    <3>1. shown[t1] = o
      BY <1>1, <2>1 DEF TerminalInv, LastShownIsKept
    <3> QED
      BY <1>1, <1>5, <2>1, <3>1
  <2>2. CASE t1 # t
    <3>1. shown[t1] # 0 => objects'[shown[t1]] = objects[shown[t1]]
      BY <1>1, <1>3, <2>2, InvTypes, Owned
    <3> QED
      BY <1>5, <2>2, <3>1 DEF TerminalInv, LastShownIsKept
  <2> QED
    BY <2>1, <2>2
<1>13. AbandonedForgotten'
  BY <1>1, <1>3, AbandonedStays
<1> QED
  BY <1>13, <1>3, <1>4, <1>8, <1>9, <1>10, <1>11, <1>12 DEF TerminalInv, HistoriesGetWritten

-----------------------------------------------------------------------------
(* All steps.                                                               *)

LEMMA TerminalInitInv ==
    ASSUME TerminalInit
    PROVE  TerminalInv
<1>1. /\ objects = <<>> /\ sessions = [t \in Terminals |-> 0] /\ operation = NoOperation
      /\ latest = [t \in Terminals |-> 0] /\ queuedKeys = {} /\ activeKeys = {} /\ queue = <<>>
      /\ fiber = Persist!Idle /\ fiber.at = "idle" /\ shown = [t \in Terminals |-> 0]
      /\ abandoned = {} /\ forgotten = {} /\ faults = 0 /\ files = [t \in Terminals |-> NoFile]
  BY DEF TerminalInit, Persist!Init, Persist!Idle, NoRequest
<1>2. /\ objects \in Seq(Objects) /\ Len(objects) = 0 /\ queue \in Seq(Terminals) /\ DOMAIN queue = {}
  BY <1>1
<1>3. HistoriesGetWritten
  BY <1>1, <1>2 DEF HistoriesGetWritten, Persist!NothingStranded, Persist!OnFiber, NoRequest
<1>4. TerminalTypeOK /\ WorkTypeOK
  BY <1>1, <1>2 DEF TerminalTypeOK, WorkTypeOK, Fibers
<1>5. operation \notin Works /\ operation \notin Closings
  BY <1>1 DEF NoOperation, Works, Closings
<1>6. SessionsOwned /\ AbandonedForgotten /\ ClosingProgress
  BY <1>1, <1>5 DEF SessionsOwned, AbandonedForgotten, ClosingProgress, References, BeingWritten
<1>7. NoOrphanProcess
  BY <1>2 DEF NoOrphanProcess, Orphans
<1>8. LastShownIsKept
  BY <1>1 DEF LastShownIsKept, BeingWritten
<1> QED
  BY <1>3, <1>4, <1>6, <1>7, <1>8 DEF TerminalInv

\* Whatever happens without being asked for preserves the invariant.
LEMMA TerminalStepKeeps ==
    ASSUME TerminalInv, TerminalStep
    PROVE  TerminalInv'
<1>1. CASE \E o \in 1..Len(objects) : Output(o) \/ ProcessExits(o)
  BY <1>1, OutputKeeps, ProcessExitsKeeps
<1>2. CASE \E t \in Terminals : Evict(t)
  BY <1>2, EvictKeeps
<1>3. CASE PersistTake \/ PersistWrite \/ PersistRefused \/ PersistDies
  BY <1>3, PersistTakeKeeps, PersistWriteKeeps, PersistFailsKeeps
<1>4. CASE OpenRead \/ RestartFlushed \/ Spawn
  BY <1>4, OpenReadKeeps, RestartFlushedKeeps, SpawnKeeps
<1>5. CASE CloseNext \/ CloseFlushed \/ CloseEnds
  BY <1>5, CloseNextKeeps, CloseFlushedKeeps, CloseEndsKeeps
<1> QED
  BY <1>1, <1>2, <1>3, <1>4, <1>5 DEF TerminalStep

\* So does whatever a client asks for.
LEMMA RequestKeeps ==
    ASSUME TerminalInv, NEW t \in Terminals, NEW owner \in Incarnations,
           StartRequest(t, owner) \/ CloseRequest(t)
    PROVE  TerminalInv'
<1>1. CASE StartRequest(t, owner)
  BY <1>1, OpenWithoutSessionKeeps, RestartWithoutSessionKeeps, ClearAndRestartKeeps DEF StartRequest
<1>2. CASE Close("close", {t}, {}) \/ Close("close", {t}, {t})
  BY <1>2, CloseKeeps
<1>3. CASE Close("close", WithSession, {}) \/ Close("close", WithSession, Terminals)
  BY <1>3, CloseKeeps DEF WithSession
<1> QED
  BY <1>1, <1>2, <1>3 DEF CloseRequest

\* The body of ReopenedInFull.
ReopensInFull ==
    \A t \in Terminals \ forgotten :
        operation.kind = "open" /\ operation.at = "read" /\ shown[t] # 0
            /\ sessions'[t] \notin {0, sessions[t]}
        => objects'[sessions'[t]].history = objects[shown[t]].history

\* A step that is no OpenRead opens no session while an open is under way.
LEMMA NothingElseOpens ==
    ASSUME \/ operation = NoOperation \/ sessions' = sessions
           \/ \A t \in Terminals : sessions'[t] \in {0, sessions[t]}
    PROVE  ReopensInFull
BY DEF ReopensInFull, NoOperation

LEMMA TerminalStepReopens ==
    ASSUME TerminalInv, TerminalStep
    PROVE  ReopensInFull
<1>1. CASE OpenRead
  <2> DEFINE t == operation.terminal  o == Len(objects) + 1
  <2>1. /\ t \in Terminals /\ operation.owner \in Incarnations /\ FileHistory(t) \in Seq(Incarnations)
        /\ objects' = NewObject(t, operation.owner, FileHistory(t))
        /\ sessions' = [sessions EXCEPT ![t] = o] /\ latest[t] = 0 /\ ~BeingWritten(t)
    BY <1>1, OpenReadFacts
  <2>2. objects'[o].history = FileHistory(t)
    <3>1. TerminalTypeOK
      BY DEF TerminalInv
    <3>2. objects'[o] = [terminal |-> t, owner |-> operation.owner, history |-> FileHistory(t), running |-> FALSE]
      BY <2>1, <3>1, AddedObject
    <3> QED
      BY <3>2
  <2>3. \A t1 \in Terminals : sessions'[t1] = IF t1 = t THEN o ELSE sessions[t1]
    BY <2>1 DEF TerminalInv, TerminalTypeOK
  <2>4. t \notin forgotten /\ shown[t] # 0 => FileHistory(t) = objects[shown[t]].history
    BY <2>1 DEF TerminalInv, LastShownIsKept
  <2> QED
    BY <2>2, <2>3, <2>4 DEF ReopensInFull
<1>2. CASE \E t \in Terminals : Evict(t)
  <2>1. \A t \in Terminals : sessions'[t] \in {0, sessions[t]}
    BY <1>2 DEF Evict, TerminalInv, TerminalTypeOK
  <2> QED
    BY <2>1, NothingElseOpens
<1>3. CASE CloseFlushed
  <2>1. \A t \in Terminals : sessions'[t] \in {0, sessions[t]}
    BY <1>3 DEF CloseFlushed, TerminalInv, TerminalTypeOK
  <2> QED
    BY <2>1, NothingElseOpens
<1>4. ASSUME ~OpenRead, ~(\E t \in Terminals : Evict(t)), ~CloseFlushed
      PROVE  sessions' = sessions
  BY <1>4 DEF TerminalStep, Output, ProcessExits, PersistTake, PersistWrite, PersistRefused, PersistDies,
              RestartFlushed, Spawn, CloseNext, CloseEnds, sessionVars
<1> QED
  BY <1>1, <1>2, <1>3, <1>4, NothingElseOpens

LEMMA RequestReopens ==
    ASSUME NEW t, NEW owner, StartRequest(t, owner) \/ CloseRequest(t)
    PROVE  ReopensInFull
<1>1. operation = NoOperation
  BY DEF StartRequest, CloseRequest, OpenWithoutSession, RestartWithoutSession, ClearAndRestart, Close
<1> QED
  BY <1>1, NothingElseOpens
=============================================================================
