----------------------------- MODULE CommandLog -----------------------------
(***************************************************************************)
(* What the orchestration engine promises to its callers, with the queue,  *)
(* the worker, the caches and the failures left out: a durable log and a   *)
(* table of receipts that change together, and answers that never          *)
(* contradict the table.  OrchestrationEngine implements this              *)
(* specification (README, "Command dispatch").                             *)
(***************************************************************************)
EXTENDS Integers, Sequences

CONSTANTS CommandIds, Aggregates, Callers, MaxEventsPerCommand

VARIABLES log, receipts, answer

vars == <<log, receipts, answer>>

NoReceipt == [status |-> "none"]
Receipt == [status: {"accepted", "rejected"}, aggregate: Aggregates, sequence: Nat]

Idle == [kind |-> "idle"]
Waiting == [kind |-> "waiting"]
Lost == [kind |-> "lost"]

Init ==
    /\ log = <<>>
    /\ receipts = [id \in CommandIds |-> NoReceipt]
    /\ answer = [c \in Callers |-> Idle]

\* The events of one command enter the log as one block, together with the
\* receipt that names the aggregate and the sequence of the last of them.
Commit(id, block) ==
    /\ receipts[id].status = "none"
    /\ \A i \in DOMAIN block : block[i].id = id
    /\ log' = log \o block
    /\ receipts' = [receipts EXCEPT ![id] =
            [status |-> "accepted",
             aggregate |-> block[Len(block)].aggregate,
             sequence |-> Len(log) + Len(block)]]
    /\ UNCHANGED answer

\* A refusal is recorded only for a command that has no receipt yet.
Refuse(id, aggregate) ==
    /\ receipts[id].status = "none"
    /\ \E sequence \in 0..Len(log) :
        receipts' = [receipts EXCEPT ![id] =
            [status |-> "rejected", aggregate |-> aggregate, sequence |-> sequence]]
    /\ UNCHANGED <<log, answer>>

\* What a caller of command id on aggregate may be told.
Truthful(id, aggregate, kind, sequence) ==
    \/ /\ kind = "ok"
       /\ receipts[id].status = "accepted"
       /\ receipts[id].aggregate = aggregate
       /\ receipts[id].sequence = sequence
    \/ /\ kind = "rejected"
       /\ receipts[id].status # "accepted"
    \/ /\ kind = "previouslyRejected"
       /\ receipts[id].status = "rejected"
       /\ receipts[id].aggregate = aggregate
    \/ /\ kind = "conflict"
       /\ receipts[id].status # "none"
       /\ receipts[id].aggregate # aggregate
    \/ kind = "failed"

Ask(c) ==
    /\ answer[c] # Waiting
    /\ answer' = [answer EXCEPT ![c] = Waiting]
    /\ UNCHANGED <<log, receipts>>

Answer(c, id, aggregate, kind, sequence) ==
    /\ answer[c] = Waiting
    /\ Truthful(id, aggregate, kind, sequence)
    /\ answer' = [answer EXCEPT ![c] =
            [kind |-> kind, id |-> id, aggregate |-> aggregate, sequence |-> sequence]]
    /\ UNCHANGED <<log, receipts>>

\* A crash of the server leaves its callers without an answer.
LoseCallers ==
    /\ answer' = [c \in Callers |-> IF answer[c] = Waiting THEN Lost ELSE answer[c]]
    /\ UNCHANGED <<log, receipts>>

Blocks(id) ==
    UNION {[1..n -> [id: {id}, aggregate: Aggregates]] : n \in 1..MaxEventsPerCommand}

Next ==
    \/ \E id \in CommandIds : \E block \in Blocks(id) : Commit(id, block)
    \/ \E id \in CommandIds, a \in Aggregates : Refuse(id, a)
    \/ \E c \in Callers : Ask(c)
    \/ \E c \in Callers, id \in CommandIds, a \in Aggregates, sequence \in 0..Len(log),
          kind \in {"ok", "rejected", "previouslyRejected", "conflict", "failed"} :
            Answer(c, id, a, kind, sequence)
    \/ LoseCallers

Spec == Init /\ [][Next]_vars
=============================================================================
