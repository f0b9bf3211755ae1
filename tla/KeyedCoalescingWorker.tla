----------------------- MODULE KeyedCoalescingWorker -----------------------
(***************************************************************************)
(* makeKeyedCoalescingWorker, packages/shared/src/KeyedCoalescingWorker.ts:*)
(* one fiber processes the latest value of each key.  An enqueue for a key *)
(* that is queued or being processed is merged into what waits for it.     *)
(*                                                                         *)
(* Every transaction of the code is one action here.  A key that the fiber *)
(* has taken off the queue stays in queuedKeys until the fiber looks at    *)
(* it, and a key whose processing failed is in queuedKeys before it is on  *)
(* the queue.                                                              *)
(***************************************************************************)
EXTENDS Naturals, Sequences

CONSTANTS
    Keys,
    NoValue,
    Merge(_, _)    \* options.merge

VARIABLES
    latest,      \* latestByKey
    queuedKeys,
    activeKeys,
    queue,       \* of keys
    fiber        \* what the worker's fiber is doing

workerVars == <<latest, queuedKeys, activeKeys, queue, fiber>>

Idle == [at |-> "idle"]
Taken(key) == [at |-> "taken", key |-> key]
Processing(key, value) == [at |-> "processing", key |-> key, value |-> value]
Requeueing(key) == [at |-> "requeueing", key |-> key]

Init ==
    /\ latest = [key \in Keys |-> NoValue]
    /\ queuedKeys = {} /\ activeKeys = {} /\ queue = <<>>
    /\ fiber = Idle

\* The worker's scope is closed and another worker is made.
Restart ==
    /\ latest' = [key \in Keys |-> NoValue]
    /\ queuedKeys' = {} /\ activeKeys' = {} /\ queue' = <<>>
    /\ fiber' = Idle

Enqueue(key, value) ==
    /\ latest' = [latest EXCEPT ![key] = IF @ = NoValue THEN value ELSE Merge(@, value)]
    /\ IF key \in queuedKeys \cup activeKeys
       THEN UNCHANGED <<queuedKeys, queue>>
       ELSE queuedKeys' = queuedKeys \cup {key} /\ queue' = Append(queue, key)
    /\ UNCHANGED <<activeKeys, fiber>>

Take ==
    /\ fiber = Idle /\ queue # <<>>
    /\ fiber' = Taken(Head(queue)) /\ queue' = Tail(queue)
    /\ UNCHANGED <<latest, queuedKeys, activeKeys>>

\* The value moves from latestByKey to the fiber.
Look ==
    /\ fiber.at = "taken"
    /\ queuedKeys' = queuedKeys \ {fiber.key}
    /\ latest' = [latest EXCEPT ![fiber.key] = NoValue]
    /\ IF latest[fiber.key] = NoValue
       THEN fiber' = Idle /\ UNCHANGED activeKeys
       ELSE /\ fiber' = Processing(fiber.key, latest[fiber.key])
            /\ activeKeys' = activeKeys \cup {fiber.key}
    /\ UNCHANGED queue

\* Faulty variant: what was enqueued while the fiber processed is not looked at.
FinishAtOnce ==
    /\ fiber.at = "processing"
    /\ activeKeys' = activeKeys \ {fiber.key} /\ fiber' = Idle
    /\ UNCHANGED <<latest, queuedKeys, queue>>

\* A processed key goes on with what was enqueued for it meanwhile.
Finish ==
    /\ fiber.at = "processing"
    /\ LET next == latest[fiber.key]
       IN  IF next = NoValue
           THEN activeKeys' = activeKeys \ {fiber.key} /\ fiber' = Idle /\ UNCHANGED latest
           ELSE /\ fiber' = Processing(fiber.key, next)
                /\ latest' = [latest EXCEPT ![fiber.key] = NoValue]
                /\ UNCHANGED activeKeys
    /\ UNCHANGED <<queuedKeys, queue>>

\* cleanupFailedKey, the transaction: the failed value is dropped.
Fail ==
    /\ fiber.at = "processing"
    /\ activeKeys' = activeKeys \ {fiber.key}
    /\ IF latest[fiber.key] # NoValue /\ fiber.key \notin queuedKeys
       THEN queuedKeys' = queuedKeys \cup {fiber.key} /\ fiber' = Requeueing(fiber.key)
       ELSE fiber' = Idle /\ UNCHANGED queuedKeys
    /\ UNCHANGED <<latest, queue>>

\* cleanupFailedKey, after it.
Requeue ==
    /\ fiber.at = "requeueing"
    /\ queue' = Append(queue, fiber.key) /\ fiber' = Idle
    /\ UNCHANGED <<latest, queuedKeys, activeKeys>>

\* drainKey resolves.
Drained(key) == latest[key] = NoValue /\ key \notin queuedKeys \cup activeKeys

-----------------------------------------------------------------------------
OnFiber(key) == fiber.at \in {"taken", "requeueing"} /\ fiber.key = key

\* Nothing is stranded: a key with a value to process is queued or active, a
\* queued key is on the queue once or in the fiber's hands, and the active key
\* is the one the fiber processes.
NothingStranded ==
    /\ \A key \in Keys : latest[key] # NoValue => key \in queuedKeys \cup activeKeys
    /\ \A key \in queuedKeys : OnFiber(key) \/ \E i \in DOMAIN queue : queue[i] = key
    /\ \A i \in DOMAIN queue : queue[i] \in queuedKeys /\ ~OnFiber(queue[i])
    /\ \A i, j \in DOMAIN queue : queue[i] = queue[j] => i = j
    /\ activeKeys = IF fiber.at = "processing" THEN {fiber.key} ELSE {}
    /\ fiber.at # "idle" => fiber.key \in Keys
    /\ fiber.at \in {"taken", "requeueing"} => fiber.key \in queuedKeys
=============================================================================
