--------------------- MODULE OrchestrationEngine_proofs ---------------------
(***************************************************************************)
(* TLAPS proofs about OrchestrationEngine, for every set of commands,      *)
(* aggregates and callers and every value of the bounds.                   *)
(***************************************************************************)
EXTENDS OrchestrationEngine, SequenceTheorems, TLAPS

\* The envelope the worker holds is one a caller offered.
LEMMA HeadEnvelope == ASSUME TypeOK, stage \notin {"down", "idle"} PROVE envelope \in Envelope
BY DEF TypeOK, envelope

\* A durable commit appends the planned events and writes a well-formed receipt.
LEMMA CommitTypes ==
    ASSUME TypeOK, stage = "transaction", CommitDurably
    PROVE  /\ log' \in Seq(Event)
           /\ Len(log') = Len(log) + Len(planned)
           /\ Len(planned) \in Nat \ {0}
           /\ receipts' \in [CommandIds -> Receipt' \cup {NoReceipt}]
<1> DEFINE block == [i \in 1..Len(planned) |-> [id |-> envelope.id, aggregate |-> planned[i]]]
<1>1. envelope.id \in CommandIds
  BY HeadEnvelope DEF Envelope
<1>2. block \in Seq(Event) /\ Len(block) = Len(planned)
  BY <1>1 DEF TypeOK, Event
<1> HIDE DEF block
<1>3. log' = log \o block
  BY DEF CommitDurably, block
<1>4. log' \in Seq(Event) /\ Len(log') = Len(log) + Len(planned)
  <2>1. log \in Seq(Event) /\ block \in Seq(Event)
    BY <1>2 DEF TypeOK
  <2>2. log \o block \in Seq(Event) /\ Len(log \o block) = Len(log) + Len(block)
    BY ONLY <2>1, ConcatProperties
  <2> QED
    BY ONLY <1>2, <1>3, <2>2
<1>5. Len(planned) \in Nat \ {0} /\ Len(log) \in Nat
  BY DEF TypeOK
<1>6. AcceptedReceipt \in Receipt'
  BY <1>4, <1>5 DEF AcceptedReceipt, LastSequence, Receipt, TypeOK
<1>7. Receipt \subseteq Receipt'
  BY <1>4, <1>5 DEF Receipt
<1> QED
  BY <1>4, <1>5, <1>6, <1>7 DEF CommitDurably, TypeOK

\* No step of a caller, of the worker or of a crash takes a variable out of
\* its type.
LEMMA TypePreserved == TypeOK /\ [Next]_vars => TypeOK'
<1> SUFFICES ASSUME TypeOK, [Next]_vars PROVE TypeOK'
  OBVIOUS
<1> USE ConstantsAssumption DEF TypeOK, Stages
<1>0. CASE UNCHANGED vars
  BY <1>0 DEF vars, Receipt, Exits, Answers
<1>1. ASSUME NEW c \in Callers, NEW id \in CommandIds, NEW a \in Aggregates, NEW g \in BOOLEAN,
             Dispatch(c, id, a, g)
      PROVE  TypeOK'
  <2> DEFINE e == [caller |-> c, id |-> id, aggregate |-> a,
                   snapshotSequence |-> IF g THEN Len(log) ELSE Unguarded]
  <2>1. e \in Envelope
    BY DEF Envelope
  <2> HIDE DEF e
  <2>2. commandQueue' = Append(commandQueue, e) /\ answer' = [answer EXCEPT ![c] = Waiting]
    BY <1>1 DEF Dispatch, e
  <2>3. commandQueue' \in Seq(Envelope) /\ commandQueue' # <<>>
    BY <2>1, <2>2
  <2>4. answer' \in [Callers -> {Idle, Waiting, Lost} \cup Answers]
    BY <2>2
  <2> QED
    BY <1>1, <2>3, <2>4 DEF Dispatch, durable, worker, Receipt, Exits, Answers
<1>2. CASE TakeEnvelope
  BY <1>2 DEF TakeEnvelope, durable, bounds, Receipt, Exits, Answers
<1>3. CASE CheckReceipt
  <2>1. envelope \in Envelope
    BY <1>3, HeadEnvelope DEF CheckReceipt
  <2>2. receipts[envelope.id] \in Receipt \cup {NoReceipt}
    BY <2>1 DEF Envelope
  <2>3. exit' \in Exits /\ stage' \in Stages
    BY <1>3, <2>2 DEF CheckReceipt, Finish, Receipt, NoReceipt, Exits, ExitKinds
  <2> QED
    BY <1>3, <2>3 DEF CheckReceipt, durable, bounds, Receipt, Exits, Answers
<1>4. CASE ReceiptReadFails
  BY <1>4 DEF ReceiptReadFails, durable, Fault, Finish, Receipt, Exits, ExitKinds, Answers
<1>5. CASE RejectCommand
  BY <1>5 DEF RejectCommand, durable, bounds, Finish, Receipt, Exits, ExitKinds, Answers
<1>6. CASE PlanEvents
  BY <1>6 DEF PlanEvents, durable, bounds, Receipt, Exits, Answers
<1>7. CASE CommitTransaction
  <2>1. CommitDurably /\ stage = "transaction"
    BY <1>7 DEF CommitTransaction
  <2>2. exit' \in Exits' /\ Answers \subseteq Answers'
    BY <1>7, <2>1, CommitTypes DEF CommitTransaction, Finish, LastSequence, Exits, ExitKinds, Answers
  <2> QED
    BY <1>7, <2>1, <2>2, CommitTypes DEF CommitTransaction, bounds
<1>8. CASE RollBackTransaction
  BY <1>8 DEF RollBackTransaction, durable, Fault, Finish, Receipt, Exits, ExitKinds, Answers
<1>9. CASE CommitReportedAsFailed
  <2>1. CommitDurably /\ stage = "transaction"
    BY <1>9 DEF CommitReportedAsFailed
  <2>2. exit' \in Exits' /\ Answers \subseteq Answers'
    BY <1>9, <2>1, CommitTypes DEF CommitReportedAsFailed, Finish, Exits, ExitKinds, Answers
  <2> QED
    BY <1>9, <2>1, <2>2, CommitTypes DEF CommitReportedAsFailed, Fault
<1>10. CASE SwapReadModel
  <2>1. commandReadModel' \in [applied: SUBSET Int, snapshotSequence: 0..Len(log)]
    BY <1>10 DEF SwapReadModel, Project, Exits
  <2>2. unpublished' \in Seq(Int)
    BY <1>10 DEF SwapReadModel, Exits
  <2> QED
    BY <1>10, <2>1, <2>2 DEF SwapReadModel, durable, bounds, Receipt, Exits, Answers
<1>11. CASE PublishNext
  BY <1>11 DEF PublishNext, AfterPublishing, durable, bounds, Receipt, Exits, Answers
<1>12. CASE Reconcile
  <2>1. commandReadModel' \in [applied: SUBSET Int, snapshotSequence: 0..Len(log)]
    BY <1>12 DEF Reconcile, Project, Smaller
  <2>2. unpublished' \in Seq(Int)
    BY <1>12 DEF Reconcile, Smaller
  <2> QED
    BY <1>12, <2>1, <2>2 DEF Reconcile, AfterPublishing, durable, bounds, Receipt, Exits, Answers
<1>13. CASE ReconcileFails
  BY <1>13 DEF ReconcileFails, AfterPublishing, Fault, durable, Receipt, Exits, Answers
<1>14. CASE RecordRejection
  <2>1. receipts' \in [CommandIds -> Receipt \cup {NoReceipt}]
    BY <1>14, HeadEnvelope DEF RecordRejection, Receipt, Envelope
  <2> QED
    BY <1>14, <2>1 DEF RecordRejection, bounds, Receipt, Exits, Answers
<1>15. CASE RejectionReceiptLost
  BY <1>15 DEF RejectionReceiptLost, Fault, durable, Receipt, Exits, Answers
<1>16. CASE Reply
  <2>1. answer' \in [Callers -> {Idle, Waiting, Lost} \cup Answers]
    BY <1>16, HeadEnvelope DEF Reply, Exits, Answers, Envelope
  <2> QED
    BY <1>16, <2>1 DEF Reply, NoExit, durable, bounds, Receipt, Exits, ExitKinds, Answers
<1>17. CASE Crash
  BY <1>17 DEF Crash, EmptyReadModel, NoExit, durable, Receipt, Exits, ExitKinds, Answers
<1>18. CASE Restart
  BY <1>18 DEF Restart, durable, bounds, Receipt, Exits, Answers
<1> HIDE DEF TypeOK, Stages
<1> QED
  BY <1>0, <1>1, <1>2, <1>3, <1>4, <1>5, <1>6, <1>7, <1>8, <1>9, <1>10, <1>11, <1>12, <1>13,
     <1>14, <1>15, <1>16, <1>17, <1>18 DEF Next, WorkerStep

\* The type invariant: no step of a caller, of the worker or of a crash takes a
\* variable out of its type, and the worker never runs past an empty queue.
THEOREM TypeCorrect == Spec => []TypeOK
<1>1. Init => TypeOK
  BY ConstantsAssumption DEF Init, TypeOK, Receipt, NoReceipt, NoExit, Exits, ExitKinds, Stages,
     EmptyReadModel, Answers, Envelope, Event
<1> QED
  BY <1>1, TypePreserved, PTL DEF Spec

-----------------------------------------------------------------------------

\* An append to the queue leaves the envelope the worker holds in place.
LEMMA AppendKeepsHead ==
    ASSUME NEW S, NEW q \in Seq(S), q # <<>>, NEW e \in S
    PROVE  Head(Append(q, e)) = Head(q)
<1>1. Len(q) \in Nat /\ Len(q) >= 1
  BY EmptySeq
<1> QED
  BY <1>1, AppendProperties, HeadTailProperties

\* The log of a durable commit, event by event.
LEMMA CommitEvents ==
    ASSUME TypeOK, stage = "transaction", CommitDurably
    PROVE  /\ \A i \in DOMAIN log : log'[i] = log[i]
           /\ \A i \in (Len(log) + 1)..(Len(log) + Len(planned)) :
                 log'[i].id = envelope.id /\ log'[i].aggregate = planned[i - Len(log)]
           /\ DOMAIN log = 1..Len(log) /\ DOMAIN log' = 1..Len(log')
<1> DEFINE block == [i \in 1..Len(planned) |-> [id |-> envelope.id, aggregate |-> planned[i]]]
<1>1. envelope.id \in CommandIds
  BY HeadEnvelope DEF Envelope
<1>2. /\ block \in Seq(Event) /\ Len(block) = Len(planned)
      /\ \A i \in 1..Len(planned) : block[i].id = envelope.id /\ block[i].aggregate = planned[i]
  BY <1>1 DEF TypeOK, Event
<1> HIDE DEF block
<1>3. log' = log \o block
  BY DEF CommitDurably, block
<1>4. log \in Seq(Event) /\ Len(log) \in Nat /\ Len(planned) \in Nat
  BY DEF TypeOK
<1>5. /\ Len(log') = Len(log) + Len(planned)
      /\ \A i \in 1..Len(log') : log'[i] = IF i <= Len(log) THEN log[i] ELSE block[i - Len(log)]
  <2>0. log \in Seq(Event) /\ block \in Seq(Event)
    BY <1>2, <1>4
  <2>1. /\ Len(log \o block) = Len(log) + Len(block)
        /\ \A i \in 1..(Len(log) + Len(block)) :
              (log \o block)[i] = IF i <= Len(log) THEN log[i] ELSE block[i - Len(log)]
    BY ONLY <2>0, ConcatProperties
  <2> QED
    BY ONLY <1>2, <1>3, <2>1
<1>6. log' \in Seq(Event)
  BY CommitTypes
<1>7. DOMAIN log = 1..Len(log) /\ DOMAIN log' = 1..Len(log')
  BY <1>4, <1>6
<1>8. ASSUME NEW i \in (Len(log) + 1)..(Len(log) + Len(planned))
      PROVE  log'[i].id = envelope.id /\ log'[i].aggregate = planned[i - Len(log)]
  <2>1. i \in 1..Len(log') /\ ~(i <= Len(log)) /\ i - Len(log) \in 1..Len(planned)
    BY <1>4, <1>5, <1>8
  <2>2. log'[i] = block[i - Len(log)]
    BY <1>5, <2>1
  <2> QED
    BY <2>1, <1>2, <2>2
<1> QED
  BY <1>4, <1>5, <1>7, <1>8

\* A commit keeps the log and the receipts in step: the command had no events,
\* and now has exactly the block its receipt closes.
LEMMA CommitMatches ==
    ASSUME TypeOK, ReceiptsMatchLog, UndecidedHasNoReceipt, stage = "transaction", CommitDurably
    PROVE  ReceiptsMatchLog'
<1> DEFINE first == Len(log) + 1
           last == Len(log) + Len(planned)
<1>1. Len(log) \in Nat /\ Len(planned) \in Nat \ {0} /\ Len(log') = last
  BY CommitTypes DEF TypeOK
<1>2. envelope.id \in CommandIds
  BY HeadEnvelope DEF Envelope
<1>3. receipts[envelope.id].status = "none"
  BY DEF UndecidedHasNoReceipt
<1>4. EventsOf(envelope.id) = {}
  BY <1>2, <1>3 DEF ReceiptsMatchLog
<1>5. ASSUME NEW id \in CommandIds, id = envelope.id PROVE EventsOf(id)' = first..last
  <2>1. DOMAIN log' = 1..last
    BY <1>1, CommitEvents
  <2>2. \A i \in 1..Len(log) : log'[i].id # id
    BY <1>4, <1>5, CommitEvents DEF EventsOf
  <2>3. \A i \in first..last : log'[i].id = id
    BY <1>1, <1>5, CommitEvents
  <2> QED
    BY <1>1, <2>1, <2>2, <2>3 DEF EventsOf
<1>6. ASSUME NEW id \in CommandIds, id # envelope.id PROVE EventsOf(id)' = EventsOf(id)
  <2>1. DOMAIN log' = 1..last /\ DOMAIN log = 1..Len(log)
    BY <1>1, CommitEvents
  <2>2. \A i \in 1..Len(log) : log'[i] = log[i]
    BY CommitEvents
  <2>3. \A i \in first..last : log'[i].id # id
    BY <1>1, <1>6, CommitEvents
  <2> QED
    BY <1>1, <2>1, <2>2, <2>3 DEF EventsOf
<1>7. /\ receipts'[envelope.id] = AcceptedReceipt
      /\ \A id \in CommandIds \ {envelope.id} : receipts'[id] = receipts[id]
  BY <1>2 DEF CommitDurably, TypeOK
<1>8. log'[last].aggregate = planned[Len(planned)]
  <2>1. last \in (Len(log) + 1)..(Len(log) + Len(planned)) /\ last - Len(log) = Len(planned)
    BY <1>1
  <2> HIDE DEF last
  <2> QED
    BY <2>1, CommitEvents
<1> SUFFICES ASSUME NEW id \in CommandIds
             PROVE  IF receipts'[id].status = "accepted"
                    THEN /\ receipts'[id].sequence \in EventsOf(id)'
                         /\ log'[receipts'[id].sequence].aggregate = receipts'[id].aggregate
                         /\ \A i \in EventsOf(id)' : i..receipts'[id].sequence \subseteq EventsOf(id)'
                         /\ \A i \in EventsOf(id)' : i <= receipts'[id].sequence
                    ELSE EventsOf(id)' = {}
  BY DEF ReceiptsMatchLog
<1>9. CASE id = envelope.id
  <2>1. receipts'[id].status = "accepted" /\ receipts'[id].sequence = last
        /\ receipts'[id].aggregate = planned[Len(planned)]
    BY <1>7, <1>9 DEF AcceptedReceipt, LastSequence
  <2> QED
    BY <1>1, <1>5, <1>8, <1>9, <2>1
<1>10. CASE id # envelope.id
  <2>1. receipts'[id] = receipts[id] /\ EventsOf(id)' = EventsOf(id)
    BY <1>6, <1>7, <1>10
  <2>2. \A i \in EventsOf(id) : log'[i] = log[i]
    BY CommitEvents DEF EventsOf
  <2> QED
    BY <2>1, <2>2 DEF ReceiptsMatchLog
<1> QED
  BY <1>9, <1>10

\* A rejected receipt is written only for a command without events.
LEMMA RejectionMatches ==
    ASSUME TypeOK, ReceiptsMatchLog, ExitTruthful, RecordRejection
    PROVE  ReceiptsMatchLog'
<1>1. envelope.id \in CommandIds
  BY HeadEnvelope DEF RecordRejection, Envelope
<1>2. receipts[envelope.id].status = "none"
  BY DEF RecordRejection, ExitTruthful
<1>3. \A id \in CommandIds : EventsOf(id)' = EventsOf(id)
  BY DEF RecordRejection, EventsOf
<1>4. receipts'[envelope.id].status = "rejected"
      /\ \A id \in CommandIds \ {envelope.id} : receipts'[id] = receipts[id]
  BY <1>1 DEF RecordRejection, TypeOK
<1>5. log' = log
  BY DEF RecordRejection
<1> QED
  BY <1>1, <1>2, <1>3, <1>4, <1>5 DEF ReceiptsMatchLog

\* Steps that leave the log and the receipts alone keep them in step.
LEMMA UnchangedMatches == ReceiptsMatchLog /\ UNCHANGED durable => ReceiptsMatchLog'
BY DEF ReceiptsMatchLog, EventsOf, durable

\* Offering an envelope of a caller that is not waiting keeps callers distinct.
LEMMA DispatchKeepsCallers ==
    ASSUME TypeOK, CallersWait, NEW c \in Callers, NEW e \in Envelope, e.caller = c,
           answer[c] # Waiting, commandQueue' = Append(commandQueue, e),
           answer' = [answer EXCEPT ![c] = Waiting]
    PROVE  CallersWait'
<1>1. commandQueue \in Seq(Envelope) /\ Len(commandQueue) \in Nat
  BY DEF TypeOK
<1>2. /\ DOMAIN commandQueue = 1..Len(commandQueue)
      /\ DOMAIN commandQueue' = 1..(Len(commandQueue) + 1)
      /\ \A i \in 1..Len(commandQueue) : commandQueue'[i] = commandQueue[i]
      /\ commandQueue'[Len(commandQueue) + 1] = e
  BY <1>1
<1>3. \A i \in 1..Len(commandQueue) :
          commandQueue[i].caller \in Callers /\ commandQueue[i].caller # c
  <2> SUFFICES ASSUME NEW i \in 1..Len(commandQueue)
               PROVE  commandQueue[i].caller \in Callers /\ commandQueue[i].caller # c
    OBVIOUS
  <2>1. commandQueue[i] \in Envelope
    BY <1>1
  <2>2. answer[commandQueue[i].caller] = Waiting
    BY <1>2 DEF CallersWait
  <2> QED
    BY <2>1, <2>2 DEF Envelope
<1>4. answer'[c] = Waiting /\ \A d \in Callers \ {c} : answer'[d] = answer[d]
  BY DEF TypeOK
<1> QED
  <2>1. \A i \in DOMAIN commandQueue' : answer'[commandQueue'[i].caller] = Waiting
    BY <1>1, <1>2, <1>3, <1>4 DEF CallersWait
  <2>2. ASSUME NEW i \in DOMAIN commandQueue', NEW j \in DOMAIN commandQueue',
               commandQueue'[i].caller = commandQueue'[j].caller
        PROVE  i = j
    <3>1. CASE i \in 1..Len(commandQueue) /\ j \in 1..Len(commandQueue)
      BY <1>2, <2>2, <3>1 DEF CallersWait
    <3>2. CASE ~(i \in 1..Len(commandQueue) /\ j \in 1..Len(commandQueue))
      BY <1>1, <1>2, <1>3, <2>2, <3>2
    <3> QED
      BY <3>1, <3>2
  <2> QED
    BY <2>1, <2>2 DEF CallersWait

\* Answering the caller at the head leaves the others waiting.
LEMMA ReplyKeepsCallers ==
    ASSUME TypeOK, CallersWait, Reply
    PROVE  CallersWait'
<1>1. commandQueue \in Seq(Envelope) /\ Len(commandQueue) \in Nat \ {0}
  BY EmptySeq DEF TypeOK, Reply
<1>2. /\ DOMAIN commandQueue = 1..Len(commandQueue)
      /\ commandQueue' \in Seq(Envelope)
      /\ Len(commandQueue') = Len(commandQueue) - 1
      /\ \A i \in 1..(Len(commandQueue) - 1) : commandQueue'[i] = commandQueue[i + 1]
  <2>1. commandQueue # <<>> /\ commandQueue' = Tail(commandQueue)
    BY <1>1 DEF TypeOK, Reply
  <2>2. /\ Tail(commandQueue) \in Seq(Envelope)
        /\ Len(Tail(commandQueue)) = Len(commandQueue) - 1
        /\ \A i \in 1..Len(Tail(commandQueue)) : Tail(commandQueue)[i] = commandQueue[i + 1]
    BY ONLY <1>1, <2>1, HeadTailProperties
  <2> QED
    BY <1>1, <2>1, <2>2
<1>3. DOMAIN commandQueue' = 1..(Len(commandQueue) - 1)
  BY <1>2
<1>4. \A i \in 2..Len(commandQueue) :
          commandQueue[i].caller \in Callers /\ commandQueue[i].caller # envelope.caller
  <2> SUFFICES ASSUME NEW i \in 2..Len(commandQueue)
               PROVE  /\ commandQueue[i].caller \in Callers
                      /\ commandQueue[i].caller # envelope.caller
    OBVIOUS
  <2>1. commandQueue[i] \in Envelope /\ envelope = commandQueue[1]
    BY <1>1 DEF envelope
  <2>2. commandQueue[i].caller = commandQueue[1].caller => i = 1
    BY <1>1, <1>2 DEF CallersWait
  <2> QED
    BY <2>1, <2>2 DEF Envelope
<1>5. envelope.caller \in Callers
  BY HeadEnvelope DEF Reply, Envelope
<1>6. \A d \in Callers \ {envelope.caller} : answer'[d] = answer[d]
  BY <1>5 DEF Reply, TypeOK
<1> QED
  <2>1. \A i \in DOMAIN commandQueue' :
            /\ i + 1 \in DOMAIN commandQueue /\ i + 1 \in 2..Len(commandQueue)
            /\ commandQueue'[i] = commandQueue[i + 1]
    BY <1>1, <1>2, <1>3
  <2>2. \A i \in DOMAIN commandQueue' : answer'[commandQueue'[i].caller] = Waiting
    BY <1>4, <1>6, <2>1 DEF CallersWait
  <2>3. \A i, j \in DOMAIN commandQueue' : 
            commandQueue'[i].caller = commandQueue'[j].caller => i + 1 = j + 1
    BY <2>1 DEF CallersWait
  <2>4. \A i, j \in DOMAIN commandQueue' : i + 1 = j + 1 => i = j
    BY <1>3
  <2> QED
    BY <2>2, <2>3, <2>4 DEF CallersWait

-----------------------------------------------------------------------------

\* The inductive step.
LEMMA Inductive == IInv /\ [Next]_vars => IInv'
<1> SUFFICES ASSUME IInv, [Next]_vars PROVE IInv'
  OBVIOUS
<1> USE DEF IInv
<1>t. TypeOK /\ TypeOK'
  BY TypePreserved
<1> HIDE DEF IInv
<1>i. ReceiptsMatchLog /\ UndecidedHasNoReceipt /\ PlanEndsAtTarget /\ ExitTruthful /\ CallersWait
  BY DEF IInv
<1> USE <1>i
<1>0. CASE UNCHANGED vars
  BY <1>0, <1>t, UnchangedMatches DEF vars, durable, IInv, UndecidedHasNoReceipt, PlanEndsAtTarget,
     ExitTruthful, CallersWait, envelope, Abstract!Truthful
<1>1. ASSUME NEW c \in Callers, NEW id \in CommandIds, NEW a \in Aggregates, NEW g \in BOOLEAN,
             Dispatch(c, id, a, g)
      PROVE  IInv'
  <2> DEFINE e == [caller |-> c, id |-> id, aggregate |-> a,
                   snapshotSequence |-> IF g THEN Len(log) ELSE Unguarded]
  <2>1. e \in Envelope /\ e.caller = c
    BY <1>t DEF Envelope, TypeOK
  <2>2. commandQueue' = Append(commandQueue, e)
    BY <1>1 DEF Dispatch
  <2> HIDE DEF e
  <2>3. UNCHANGED durable /\ ReceiptsMatchLog'
    BY <1>1, UnchangedMatches DEF Dispatch
  <2>4. CallersWait'
    BY <1>1, <1>t, <2>1, <2>2, DispatchKeepsCallers DEF Dispatch
  <2>5. stage \notin {"down", "idle"} => envelope' = envelope
    BY <1>t, <2>1, <2>2, AppendKeepsHead DEF TypeOK, envelope
  <2>6. UndecidedHasNoReceipt' /\ PlanEndsAtTarget' /\ ExitTruthful'
    BY <1>1, <2>3, <2>5 DEF Dispatch, worker, durable, UndecidedHasNoReceipt, PlanEndsAtTarget,
       ExitTruthful, Abstract!Truthful
  <2> QED
    BY <1>t, <2>3, <2>4, <2>6 DEF IInv
<1>2. CASE TakeEnvelope
  <2>1. UNCHANGED durable /\ ReceiptsMatchLog'
    BY <1>2, UnchangedMatches DEF TakeEnvelope
  <2>2. CallersWait'
    BY <1>2 DEF TakeEnvelope, CallersWait
  <2>3. UndecidedHasNoReceipt' /\ PlanEndsAtTarget' /\ ExitTruthful'
    BY <1>2 DEF TakeEnvelope, envelope, durable, UndecidedHasNoReceipt,
       PlanEndsAtTarget, ExitTruthful, Abstract!Truthful
  <2> QED
    BY <1>t, <2>1, <2>2, <2>3 DEF IInv
<1>3. CASE CheckReceipt
  <2>1. UNCHANGED durable /\ ReceiptsMatchLog'
    BY <1>3, UnchangedMatches DEF CheckReceipt
  <2>2. CallersWait'
    BY <1>3 DEF CheckReceipt, CallersWait
  <2>3. UndecidedHasNoReceipt' /\ PlanEndsAtTarget' /\ ExitTruthful'
    BY <1>3 DEF CheckReceipt, Finish, envelope, durable, UndecidedHasNoReceipt,
       PlanEndsAtTarget, ExitTruthful, Abstract!Truthful
  <2> QED
    BY <1>t, <2>1, <2>2, <2>3 DEF IInv
<1>4. CASE ReceiptReadFails
  <2>1. UNCHANGED durable /\ ReceiptsMatchLog'
    BY <1>4, UnchangedMatches DEF ReceiptReadFails
  <2>2. CallersWait'
    BY <1>4 DEF ReceiptReadFails, CallersWait
  <2>3. UndecidedHasNoReceipt' /\ PlanEndsAtTarget' /\ ExitTruthful'
    BY <1>4 DEF ReceiptReadFails, Finish, envelope, durable, UndecidedHasNoReceipt,
       PlanEndsAtTarget, ExitTruthful, Abstract!Truthful
  <2> QED
    BY <1>t, <2>1, <2>2, <2>3 DEF IInv
<1>5. CASE RejectCommand
  <2>1. UNCHANGED durable /\ ReceiptsMatchLog'
    BY <1>5, UnchangedMatches DEF RejectCommand
  <2>2. CallersWait'
    BY <1>5 DEF RejectCommand, CallersWait
  <2>3. UndecidedHasNoReceipt' /\ PlanEndsAtTarget' /\ ExitTruthful'
    BY <1>5 DEF RejectCommand, Finish, envelope, durable, UndecidedHasNoReceipt,
       PlanEndsAtTarget, ExitTruthful, Abstract!Truthful
  <2> QED
    BY <1>t, <2>1, <2>2, <2>3 DEF IInv
<1>6. CASE PlanEvents
  <2>1. UNCHANGED durable /\ ReceiptsMatchLog'
    BY <1>6, UnchangedMatches DEF PlanEvents
  <2>2. CallersWait'
    BY <1>6 DEF PlanEvents, CallersWait
  <2>3. UndecidedHasNoReceipt' /\ PlanEndsAtTarget' /\ ExitTruthful'
    BY <1>6, ConstantsAssumption DEF PlanEvents, envelope, durable, UndecidedHasNoReceipt,
       PlanEndsAtTarget, ExitTruthful, Abstract!Truthful
  <2> QED
    BY <1>t, <2>1, <2>2, <2>3 DEF IInv
<1>7. CASE CommitTransaction
  <2>1. CommitDurably /\ stage = "transaction" /\ UNCHANGED <<commandQueue, answer>>
    BY <1>7 DEF CommitTransaction
  <2>2. ReceiptsMatchLog'
    BY <1>t, <2>1, CommitMatches
  <2>3. CallersWait'
    BY <2>1 DEF CallersWait
  <2>4. envelope' = envelope /\ envelope.id \in CommandIds
    BY <1>t, <2>1, HeadEnvelope DEF envelope, Envelope
  <2>5. receipts'[envelope.id] = AcceptedReceipt
    BY <1>t, <2>1, <2>4 DEF CommitDurably, TypeOK
  <2>6. UndecidedHasNoReceipt' /\ PlanEndsAtTarget' /\ ExitTruthful'
    BY <1>7, <2>4, <2>5 DEF CommitTransaction, Finish, AcceptedReceipt, UndecidedHasNoReceipt,
       PlanEndsAtTarget, ExitTruthful, Abstract!Truthful
  <2> QED
    BY <1>t, <2>2, <2>3, <2>6 DEF IInv
<1>8. CASE RollBackTransaction
  <2>1. UNCHANGED durable /\ ReceiptsMatchLog'
    BY <1>8, UnchangedMatches DEF RollBackTransaction
  <2>2. CallersWait'
    BY <1>8 DEF RollBackTransaction, CallersWait
  <2>3. UndecidedHasNoReceipt' /\ PlanEndsAtTarget' /\ ExitTruthful'
    BY <1>8 DEF RollBackTransaction, Finish, envelope, durable, UndecidedHasNoReceipt,
       PlanEndsAtTarget, ExitTruthful, Abstract!Truthful
  <2> QED
    BY <1>t, <2>1, <2>2, <2>3 DEF IInv
<1>9. CASE CommitReportedAsFailed
  <2>1. CommitDurably /\ stage = "transaction" /\ UNCHANGED <<commandQueue, answer>>
    BY <1>9 DEF CommitReportedAsFailed
  <2>2. ReceiptsMatchLog'
    BY <1>t, <2>1, CommitMatches
  <2>3. CallersWait'
    BY <2>1 DEF CallersWait
  <2>4. envelope' = envelope /\ envelope.id \in CommandIds
    BY <1>t, <2>1, HeadEnvelope DEF envelope, Envelope
  <2>5. receipts'[envelope.id] = AcceptedReceipt
    BY <1>t, <2>1, <2>4 DEF CommitDurably, TypeOK
  <2>6. UndecidedHasNoReceipt' /\ PlanEndsAtTarget' /\ ExitTruthful'
    BY <1>9, <2>4, <2>5 DEF CommitReportedAsFailed, Finish, AcceptedReceipt, UndecidedHasNoReceipt,
       PlanEndsAtTarget, ExitTruthful, Abstract!Truthful
  <2> QED
    BY <1>t, <2>2, <2>3, <2>6 DEF IInv
<1>10. CASE SwapReadModel
  <2>1. UNCHANGED durable /\ ReceiptsMatchLog'
    BY <1>10, UnchangedMatches DEF SwapReadModel
  <2>2. CallersWait'
    BY <1>10 DEF SwapReadModel, CallersWait
  <2>3. UndecidedHasNoReceipt' /\ PlanEndsAtTarget' /\ ExitTruthful'
    BY <1>10 DEF SwapReadModel, envelope, durable, UndecidedHasNoReceipt,
       PlanEndsAtTarget, ExitTruthful, Abstract!Truthful
  <2> QED
    BY <1>t, <2>1, <2>2, <2>3 DEF IInv
<1>11. CASE PublishNext
  <2>1. UNCHANGED durable /\ ReceiptsMatchLog'
    BY <1>11, UnchangedMatches DEF PublishNext
  <2>2. CallersWait'
    BY <1>11 DEF PublishNext, CallersWait
  <2>3. UndecidedHasNoReceipt' /\ PlanEndsAtTarget' /\ ExitTruthful'
    BY <1>11 DEF PublishNext, AfterPublishing, envelope, durable, UndecidedHasNoReceipt,
       PlanEndsAtTarget, ExitTruthful, Abstract!Truthful
  <2> QED
    BY <1>t, <2>1, <2>2, <2>3 DEF IInv
<1>12. CASE Reconcile
  <2>1. UNCHANGED durable /\ ReceiptsMatchLog'
    BY <1>12, UnchangedMatches DEF Reconcile
  <2>2. CallersWait'
    BY <1>12 DEF Reconcile, CallersWait
  <2>3. UndecidedHasNoReceipt' /\ PlanEndsAtTarget' /\ ExitTruthful'
    BY <1>12 DEF Reconcile, AfterPublishing, envelope, durable, UndecidedHasNoReceipt,
       PlanEndsAtTarget, ExitTruthful, Abstract!Truthful
  <2> QED
    BY <1>t, <2>1, <2>2, <2>3 DEF IInv
<1>13. CASE ReconcileFails
  <2>1. UNCHANGED durable /\ ReceiptsMatchLog'
    BY <1>13, UnchangedMatches DEF ReconcileFails
  <2>2. CallersWait'
    BY <1>13 DEF ReconcileFails, CallersWait
  <2>3. UndecidedHasNoReceipt' /\ PlanEndsAtTarget' /\ ExitTruthful'
    BY <1>13 DEF ReconcileFails, AfterPublishing, envelope, durable, UndecidedHasNoReceipt,
       PlanEndsAtTarget, ExitTruthful, Abstract!Truthful
  <2> QED
    BY <1>t, <2>1, <2>2, <2>3 DEF IInv
<1>14. CASE RecordRejection
  <2>1. ReceiptsMatchLog'
    BY <1>14, <1>t, RejectionMatches
  <2>2. CallersWait'
    BY <1>14 DEF RecordRejection, CallersWait
  <2>3. envelope' = envelope /\ envelope.id \in CommandIds
    BY <1>14, <1>t, HeadEnvelope DEF RecordRejection, envelope, Envelope
  <2>4. receipts'[envelope.id].status = "rejected"
    BY <1>14, <1>t, <2>3 DEF RecordRejection, TypeOK
  <2>5. UndecidedHasNoReceipt' /\ PlanEndsAtTarget' /\ ExitTruthful'
    BY <1>14, <2>3, <2>4 DEF RecordRejection, UndecidedHasNoReceipt, PlanEndsAtTarget,
       ExitTruthful, Abstract!Truthful
  <2> QED
    BY <1>t, <2>1, <2>2, <2>5 DEF IInv
<1>15. CASE RejectionReceiptLost
  <2>1. UNCHANGED durable /\ ReceiptsMatchLog'
    BY <1>15, UnchangedMatches DEF RejectionReceiptLost
  <2>2. CallersWait'
    BY <1>15 DEF RejectionReceiptLost, CallersWait
  <2>3. UndecidedHasNoReceipt' /\ PlanEndsAtTarget' /\ ExitTruthful'
    BY <1>15 DEF RejectionReceiptLost, envelope, durable, UndecidedHasNoReceipt,
       PlanEndsAtTarget, ExitTruthful, Abstract!Truthful
  <2> QED
    BY <1>t, <2>1, <2>2, <2>3 DEF IInv
<1>16. CASE Reply
  <2>1. UNCHANGED durable /\ ReceiptsMatchLog'
    BY <1>16, UnchangedMatches DEF Reply
  <2>2. CallersWait'
    BY <1>16, <1>t, ReplyKeepsCallers
  <2>3. UndecidedHasNoReceipt' /\ PlanEndsAtTarget' /\ ExitTruthful'
    BY <1>16 DEF Reply, UndecidedHasNoReceipt, PlanEndsAtTarget, ExitTruthful
  <2> QED
    BY <1>t, <2>1, <2>2, <2>3 DEF IInv
<1>17. CASE Crash
  <2>1. UNCHANGED durable /\ ReceiptsMatchLog'
    BY <1>17, UnchangedMatches DEF Crash
  <2>2. CallersWait' /\ UndecidedHasNoReceipt' /\ PlanEndsAtTarget' /\ ExitTruthful'
    BY <1>17 DEF Crash, CallersWait, UndecidedHasNoReceipt, PlanEndsAtTarget, ExitTruthful
  <2> QED
    BY <1>t, <2>1, <2>2 DEF IInv
<1>18. CASE Restart
  <2>1. UNCHANGED durable /\ ReceiptsMatchLog'
    BY <1>18, UnchangedMatches DEF Restart
  <2>2. CallersWait' /\ UndecidedHasNoReceipt' /\ PlanEndsAtTarget' /\ ExitTruthful'
    BY <1>18 DEF Restart, CallersWait, UndecidedHasNoReceipt, PlanEndsAtTarget, ExitTruthful
  <2> QED
    BY <1>t, <2>1, <2>2 DEF IInv
<1> QED
  BY <1>0, <1>1, <1>2, <1>3, <1>4, <1>5, <1>6, <1>7, <1>8, <1>9, <1>10, <1>11, <1>12, <1>13,
     <1>14, <1>15, <1>16, <1>17, <1>18 DEF Next, WorkerStep

\* The initial states satisfy the inductive invariant.
LEMMA InitIInv == Init => IInv
<1>1. Init => TypeOK
  BY ConstantsAssumption DEF Init, TypeOK, Receipt, NoReceipt, NoExit, Exits, ExitKinds, Stages,
     EmptyReadModel, Answers, Envelope, Event
<1>2. Init => ReceiptsMatchLog
  <2> SUFFICES ASSUME Init, NEW id \in CommandIds
               PROVE  receipts[id].status # "accepted" /\ EventsOf(id) = {}
    BY DEF ReceiptsMatchLog
  <2> QED
    BY DEF Init, EventsOf, NoReceipt
<1> QED
  BY <1>1, <1>2 DEF Init, IInv, UndecidedHasNoReceipt, PlanEndsAtTarget, ExitTruthful, CallersWait

\* No history of retries, failures and crashes makes the log and the receipts
\* disagree: a command has events exactly when it has an accepted receipt, they
\* form one block, and the receipt names the end of it.
THEOREM ReceiptsAlwaysMatchLog == Spec => []ReceiptsMatchLog
<1>1. Init => IInv
  BY InitIInv
<1>2. IInv => ReceiptsMatchLog
  BY DEF IInv
<1> QED
  BY <1>1, <1>2, Inductive, PTL DEF Spec

-----------------------------------------------------------------------------

\* A durable commit is one atomic Commit of the abstract log.
LEMMA CommitImplements ==
    ASSUME IInv, stage = "transaction", CommitDurably, UNCHANGED answer
    PROVE  Abstract!Next
<1> DEFINE block == [i \in 1..Len(planned) |-> [id |-> envelope.id, aggregate |-> planned[i]]]
<1>1. TypeOK /\ receipts[envelope.id].status = "none" /\ Len(planned) <= MaxEventsPerCommand
  BY DEF IInv, UndecidedHasNoReceipt, PlanEndsAtTarget
<1>2. envelope.id \in CommandIds /\ Len(planned) \in Nat \ {0} /\ planned \in Seq(Aggregates)
  BY <1>1, HeadEnvelope, CommitTypes DEF Envelope, TypeOK
<1>3. block \in [1..Len(planned) -> [id: {envelope.id}, aggregate: Aggregates]]
  BY <1>2
<1>4. Len(planned) \in 1..MaxEventsPerCommand
  BY <1>1, <1>2, ConstantsAssumption
<1>5. block \in Abstract!Blocks(envelope.id)
  BY <1>3, <1>4 DEF Abstract!Blocks
<1>6. Len(block) = Len(planned) /\ DOMAIN block = 1..Len(planned)
  BY <1>2
<1>7. /\ \A i \in 1..Len(planned) : block[i].id = envelope.id
      /\ block[Len(planned)].aggregate = planned[Len(planned)]
  BY <1>2
<1>8. log' = log \o block
  BY DEF CommitDurably
<1> HIDE DEF block
<1>9. Abstract!Commit(envelope.id, block)
  BY <1>1, <1>6, <1>7, <1>8 DEF Abstract!Commit, CommitDurably, AcceptedReceipt, LastSequence
<1> QED
  BY <1>2, <1>5, <1>9 DEF Abstract!Next

\* Retries are idempotent, answers are truthful: every step of the engine is a
\* step of the atomic command log or leaves it unchanged.
THEOREM EngineImplementsCommandLog == Spec => ImplementsCommandLog
<1>1. Init => Abstract!Init
  BY DEF Init, Abstract!Init, NoReceipt, Abstract!NoReceipt, Idle, Abstract!Idle
<1>2. IInv /\ [Next]_vars => [Abstract!Next]_(Abstract!vars)
  <2> SUFFICES ASSUME IInv, [Next]_vars
               PROVE  Abstract!Next \/ UNCHANGED <<log, receipts, answer>>
    BY DEF Abstract!vars
  <2>t. TypeOK
    BY DEF IInv
  <2>1. ASSUME NEW c \in Callers, NEW id \in CommandIds, NEW a \in Aggregates, NEW g \in BOOLEAN,
               Dispatch(c, id, a, g)
        PROVE  Abstract!Next
    <3>1. Abstract!Ask(c)
      BY <2>1 DEF Dispatch, durable, Abstract!Ask, Waiting, Abstract!Waiting
    <3> QED
      BY <3>1 DEF Abstract!Next
  <2>2. CASE CommitTransaction \/ CommitReportedAsFailed
    BY <2>2, CommitImplements DEF CommitTransaction, CommitReportedAsFailed
  <2>3. CASE RecordRejection
    <3>1. envelope \in Envelope /\ receipts[envelope.id].status = "none"
      BY <2>3, <2>t, HeadEnvelope DEF RecordRejection, IInv, ExitTruthful
    <3>2. commandReadModel.snapshotSequence \in 0..Len(log)
      BY <2>t DEF TypeOK
    <3>3. Abstract!Refuse(envelope.id, envelope.aggregate)
      BY <2>3, <3>1, <3>2 DEF RecordRejection, Abstract!Refuse
    <3> QED
      BY <3>1, <3>3 DEF Abstract!Next, Envelope
  <2>4. CASE Reply
    <3>1. envelope \in Envelope /\ exit.kind \in ExitKinds /\ exit.sequence \in 0..Len(log)
      BY <2>4, <2>t, HeadEnvelope DEF Reply, TypeOK, Exits
    <3>2. answer[envelope.caller] = Waiting
      <4>1. commandQueue \in Seq(Envelope) /\ commandQueue # <<>>
        BY <2>4, <2>t DEF Reply, TypeOK
      <4>2. 1 \in DOMAIN commandQueue /\ envelope = commandQueue[1]
        BY <4>1, EmptySeq DEF envelope
      <4> QED
        BY <4>2 DEF IInv, CallersWait
    <3>3. Abstract!Truthful(envelope.id, envelope.aggregate, exit.kind, exit.sequence)
      BY <2>4 DEF Reply, IInv, ExitTruthful
    <3>4. Abstract!Answer(envelope.caller, envelope.id, envelope.aggregate, exit.kind, exit.sequence)
      BY <2>4, <3>2, <3>3 DEF Reply, durable, Abstract!Answer, Waiting, Abstract!Waiting
    <3> QED
      BY <3>1, <3>4 DEF Abstract!Next, Envelope, ExitKinds
  <2>5. CASE Crash
    <3>1. Abstract!LoseCallers
      BY <2>5 DEF Crash, durable, Abstract!LoseCallers, Waiting, Lost, Abstract!Waiting, Abstract!Lost
    <3> QED
      BY <3>1 DEF Abstract!Next
  <2>6. CASE UNCHANGED vars
    BY <2>6 DEF vars
  <2>7. CASE TakeEnvelope \/ CheckReceipt \/ ReceiptReadFails \/ RejectCommand \/ PlanEvents
             \/ RollBackTransaction \/ SwapReadModel \/ PublishNext \/ Reconcile
             \/ ReconcileFails \/ RejectionReceiptLost \/ Restart
    BY <2>7 DEF TakeEnvelope, CheckReceipt, ReceiptReadFails, RejectCommand, PlanEvents,
       RollBackTransaction, SwapReadModel, PublishNext, Reconcile, ReconcileFails,
       RejectionReceiptLost, Restart, durable
  <2> QED
    BY <2>1, <2>2, <2>3, <2>4, <2>5, <2>6, <2>7 DEF Next, WorkerStep
<1> QED
  BY <1>1, <1>2, InitIInv, Inductive, PTL DEF Spec, ImplementsCommandLog, Abstract!Spec

-----------------------------------------------------------------------------

\* An automatic settlement, however long its command was queued, commits only
\* if its thread has no event after the snapshot it was decided on.
THEOREM SettlementsNeverStale == Spec => NoStaleSettlement
<1>1. Init => SettlementStillFresh
  BY DEF Init, SettlementStillFresh
<1>2. IInv /\ SettlementStillFresh /\ [Next]_vars => SettlementStillFresh'
  <2> SUFFICES ASSUME IInv, SettlementStillFresh, [Next]_vars, stage' = "transaction"
               PROVE  ~ChangedSinceSnapshot'
    BY DEF SettlementStillFresh
  <2>1. ASSUME NEW c \in Callers, NEW id \in CommandIds, NEW a \in Aggregates, NEW g \in BOOLEAN,
               Dispatch(c, id, a, g)
        PROVE  ~ChangedSinceSnapshot'
    <3> DEFINE e == [caller |-> c, id |-> id, aggregate |-> a,
                     snapshotSequence |-> IF g THEN Len(log) ELSE Unguarded]
    <3>1. stage = "transaction" /\ log' = log /\ commandQueue' = Append(commandQueue, e)
      BY <2>1 DEF Dispatch, durable, worker
    <3>2. commandQueue \in Seq(Envelope) /\ commandQueue # <<>> /\ e \in Envelope
      BY <3>1 DEF IInv, TypeOK, Envelope
    <3> HIDE DEF e
    <3>3. envelope' = envelope
      BY <3>1, <3>2, AppendKeepsHead DEF envelope
    <3> QED
      BY <3>1, <3>3 DEF ChangedSinceSnapshot, SettlementStillFresh
  <2>2. CASE PlanEvents
    BY <2>2 DEF PlanEvents, ChangedSinceSnapshot, durable, envelope
  <2>3. CASE UNCHANGED vars
    BY <2>3 DEF vars, ChangedSinceSnapshot, SettlementStillFresh, envelope
  <2>4. CASE TakeEnvelope \/ CheckReceipt \/ ReceiptReadFails \/ RejectCommand
             \/ CommitTransaction \/ CommitReportedAsFailed \/ RollBackTransaction
             \/ RecordRejection \/ RejectionReceiptLost \/ Reply \/ Crash \/ Restart
    BY <2>4 DEF TakeEnvelope, CheckReceipt, ReceiptReadFails, RejectCommand,
       CommitTransaction, CommitReportedAsFailed, RollBackTransaction, RecordRejection,
       RejectionReceiptLost, Reply, Crash, Restart
  <2>5. CASE SwapReadModel \/ PublishNext \/ Reconcile \/ ReconcileFails
    BY <2>5 DEF SwapReadModel, PublishNext, Reconcile, ReconcileFails, AfterPublishing
  <2> QED
    BY <2>1, <2>2, <2>3, <2>4, <2>5 DEF Next, WorkerStep
<1>3. IInv /\ SettlementStillFresh /\ [Next]_vars
        => (log' # log =>
                \A i \in DOMAIN log :
                    (envelope.snapshotSequence # Unguarded /\ i > envelope.snapshotSequence)
                        => log[i].aggregate # envelope.aggregate)
  <2> SUFFICES ASSUME SettlementStillFresh, [Next]_vars, log' # log
               PROVE  ~ChangedSinceSnapshot
    BY DEF ChangedSinceSnapshot
  <2>1. CommitTransaction \/ CommitReportedAsFailed
    BY DEF Next, WorkerStep, vars, durable, Dispatch, TakeEnvelope, CheckReceipt, ReceiptReadFails,
       RejectCommand, PlanEvents, RollBackTransaction, SwapReadModel, PublishNext, Reconcile,
       ReconcileFails, RecordRejection, RejectionReceiptLost, Reply, Crash, Restart
  <2> QED
    BY <2>1 DEF CommitTransaction, CommitReportedAsFailed, SettlementStillFresh
<1> QED
  BY <1>1, <1>2, <1>3, InitIInv, Inductive, PTL DEF Spec, NoStaleSettlement

-----------------------------------------------------------------------------
(* What the engine publishes: the event feed, the command read model and    *)
(* the sequences callers are told.                                          *)


\* The variables these proofs are about have their types.
LEMMA FeedTypes ==
    ASSUME TypeOK
    PROVE  /\ Len(log) \in Nat /\ reached \in 0..Len(log) /\ startSequence \in Nat
           /\ published \in Seq(Int) /\ Len(published) \in Nat
           /\ unpublished \in Seq(Int) /\ Len(unpublished) \in Nat
           /\ DOMAIN published = 1..Len(published) /\ DOMAIN unpublished = 1..Len(unpublished)
           /\ exit.sequence \in 0..Len(log) /\ bootSequence \in 0..Len(log)
           /\ Len(planned) \in Nat
BY DEF TypeOK, reached, Exits

\* The steps of the worker and of its callers that touch neither the read model
\* nor the feed.
Silent ==
    \/ \E c \in Callers, id \in CommandIds, a \in Aggregates, g \in BOOLEAN : Dispatch(c, id, a, g)
    \/ TakeEnvelope \/ CheckReceipt \/ ReceiptReadFails \/ RejectCommand \/ PlanEvents
    \/ CommitTransaction \/ RollBackTransaction \/ CommitReportedAsFailed \/ ReconcileFails
    \/ RecordRejection \/ RejectionReceiptLost \/ Reply \/ UNCHANGED vars

LEMMA SilentKeeps == Silent => UNCHANGED <<commandReadModel, published, unpublished, bootSequence>>
BY DEF Silent, Dispatch, TakeEnvelope, CheckReceipt, ReceiptReadFails, RejectCommand, PlanEvents,
   CommitTransaction, RollBackTransaction, CommitReportedAsFailed, ReconcileFails,
   RecordRejection, RejectionReceiptLost, Reply, vars, worker

LEMMA StepKinds ==
    [Next]_vars <=> Silent \/ SwapReadModel \/ PublishNext \/ Reconcile \/ Crash \/ Restart
BY DEF Next, WorkerStep, Silent

\* Publishing sends the first of what is unpublished.
LEMMA PublishOne ==
    ASSUME TypeOK, PublishNext
    PROVE  /\ Len(published') = Len(published) + 1 /\ Len(unpublished') = Len(unpublished) - 1
           /\ DOMAIN published' = 1..(Len(published) + 1)
           /\ DOMAIN unpublished' = 1..(Len(unpublished) - 1)
           /\ \A i \in 1..Len(published) : published'[i] = published[i]
           /\ published'[Len(published) + 1] = unpublished[1]
           /\ \A i \in 1..(Len(unpublished) - 1) : unpublished'[i] = unpublished[i + 1]
           /\ Len(unpublished) \in Nat \ {0}
<1>1. unpublished \in Seq(Int) /\ unpublished # <<>> /\ published \in Seq(Int)
  BY DEF TypeOK, PublishNext
<1>2. published' = Append(published, Head(unpublished)) /\ unpublished' = Tail(unpublished)
  BY DEF PublishNext
<1>3. Len(unpublished) \in Nat \ {0} /\ Head(unpublished) = unpublished[1] /\ unpublished[1] \in Int
  BY <1>1, EmptySeq
<1>4. /\ Len(published') = Len(published) + 1
      /\ DOMAIN published' = 1..(Len(published) + 1)
      /\ \A i \in 1..Len(published) : published'[i] = published[i]
      /\ published'[Len(published) + 1] = unpublished[1]
  BY <1>1, <1>2, <1>3
<1>5. /\ Tail(unpublished) \in Seq(Int)
      /\ Len(Tail(unpublished)) = Len(unpublished) - 1
      /\ \A i \in 1..Len(Tail(unpublished)) : Tail(unpublished)[i] = unpublished[i + 1]
  BY ONLY <1>1, HeadTailProperties
<1> QED
  BY <1>2, <1>3, <1>4, <1>5

\* What a swap makes of the read model, and what is then to be published.
LEMMA SwapEffect ==
    ASSUME TypeOK, StartIsReached, SwapReadModel
    PROVE  /\ reached' = exit.sequence
           /\ commandReadModel'.applied =
                 commandReadModel.applied \cup ((exit.sequence - Len(planned) + 1)..exit.sequence)
           /\ Len(unpublished') = Len(planned) /\ unpublished' \in Seq(Int)
           /\ \A i \in DOMAIN unpublished' : unpublished'[i] = (exit.sequence - Len(planned)) + i
           /\ Len(planned) \in Nat \ {0}
<1>1. Len(planned) \in Nat \ {0}
  BY EmptySeq DEF TypeOK, StartIsReached, SwapReadModel
<1>2. exit.sequence \in Nat /\ ~(exit.sequence - Len(planned) + 1 > exit.sequence)
  BY <1>1, FeedTypes
<1> QED
  BY <1>1, <1>2 DEF SwapReadModel, Project, reached

\* What a reconciliation makes of the read model, and what is then to be
\* published.
LEMMA ReconcileEffect ==
    ASSUME TypeOK, StartIsReached, Reconcile
    PROVE  /\ reached' \in reached..Len(log)
           /\ reached' = Len(log) \/ reached' = reached + ReconcileReadLimit
           /\ commandReadModel'.applied = commandReadModel.applied \cup ((reached + 1)..reached')
           /\ Len(unpublished') = reached' - reached /\ unpublished' \in Seq(Int)
           /\ \A i \in DOMAIN unpublished' : unpublished'[i] = reached + i
           /\ stage' = IF reached' > reached THEN "publish" ELSE AfterPublishing
<1> DEFINE last == Smaller(Len(log), startSequence + ReconcileReadLimit)
<1>1. /\ Len(log) \in Nat /\ reached \in 0..Len(log) /\ startSequence = reached
      /\ ReconcileReadLimit \in Nat
  BY FeedTypes, ConstantsAssumption DEF StartIsReached, Reconcile
<1>2. last \in reached..Len(log) /\ (last = Len(log) \/ last = reached + ReconcileReadLimit)
  BY <1>1 DEF Smaller
<1>3. /\ commandReadModel' = Project(commandReadModel, reached + 1, last)
      /\ unpublished' = [i \in 1..(last - reached) |-> reached + i]
      /\ stage' = IF last > reached THEN "publish" ELSE AfterPublishing
  BY <1>1 DEF Reconcile
<1> HIDE DEF last
<1>4. reached' = last
      /\ commandReadModel'.applied = commandReadModel.applied \cup ((reached + 1)..last)
  <2>1. CASE last = reached
    <3>1. commandReadModel' = commandReadModel
      BY <1>1, <1>3, <2>1 DEF Project
    <3>2. (reached + 1)..last = {}
      BY <1>1, <2>1
    <3> QED
      BY <2>1, <3>1, <3>2 DEF reached
  <2>2. CASE last > reached
    BY <1>1, <1>2, <1>3, <2>2 DEF Project, reached
  <2> QED
    BY <1>1, <1>2, <2>1, <2>2
<1>5. Len(unpublished') = last - reached /\ unpublished' \in Seq(Int)
      /\ \A i \in DOMAIN unpublished' : unpublished'[i] = reached + i
  BY <1>1, <1>2, <1>3
<1> QED
  BY <1>2, <1>3, <1>4, <1>5

-----------------------------------------------------------------------------

\* No step, a crash and a failing reconciliation included, makes the feed go
\* back or repeat itself.
LEMMA FeedPreserved == IInv /\ FeedInv /\ [Next]_vars => FeedInv'
<1> SUFFICES ASSUME IInv, FeedInv, [Next]_vars PROVE FeedInv'
  OBVIOUS
<1>t. TypeOK /\ TypeOK' /\ StartIsReached /\ UnpublishedFollow /\ FeedOrdered
  BY TypePreserved DEF IInv, FeedInv
<1>n. /\ Len(log) \in Nat /\ reached \in 0..Len(log)
      /\ Len(published) \in Nat /\ Len(unpublished) \in Nat
      /\ DOMAIN published = 1..Len(published) /\ DOMAIN unpublished = 1..Len(unpublished)
      /\ exit.sequence \in 0..Len(log) /\ Len(planned) \in Nat
      /\ \A i \in 1..Len(published) : published[i] \in Int
      /\ \A i \in 1..Len(unpublished) : unpublished[i] \in Int
  BY <1>t, FeedTypes
<1>1. CASE Silent
  <2>1. UNCHANGED <<commandReadModel, published, unpublished>>
    BY <1>1, SilentKeeps
  <2>2. UnpublishedFollow' /\ FeedOrdered'
    BY <1>t, <2>1 DEF UnpublishedFollow, FeedOrdered, reached
  <2>3. reached' = reached
    BY <2>1 DEF reached
  <2>4. ASSUME CommitTransaction PROVE StartIsReached'
    <3>1. Len(planned) \in Nat \ {0} /\ exit' = [kind |-> "ok", sequence |-> Len(log) + Len(planned)]
      BY <1>t, <2>4, CommitTypes DEF CommitTransaction, Finish, LastSequence
    <3> QED
      BY <1>t, <1>n, <2>1, <2>3, <2>4, <3>1 DEF CommitTransaction, StartIsReached
  <2>5. ASSUME Silent, ~CommitTransaction PROVE StartIsReached'
    <3>1. stage' # "swap" \/ UNCHANGED vars \/ \E c \in Callers, id \in CommandIds, a \in Aggregates, g \in BOOLEAN : Dispatch(c, id, a, g)
      BY <2>5 DEF Silent, TakeEnvelope, CheckReceipt, ReceiptReadFails, RejectCommand,
         PlanEvents, RollBackTransaction, CommitReportedAsFailed,
         ReconcileFails, RecordRejection, RejectionReceiptLost, Reply, AfterPublishing
    <3>2. CASE UNCHANGED vars \/ \E c \in Callers, id \in CommandIds, a \in Aggregates, g \in BOOLEAN : Dispatch(c, id, a, g)
      BY <1>t, <2>3, <3>2 DEF vars, Dispatch, worker, StartIsReached
    <3>3. CASE ~(UNCHANGED vars \/ \E c \in Callers, id \in CommandIds, a \in Aggregates, g \in BOOLEAN : Dispatch(c, id, a, g))
      BY <1>t, <2>1, <2>3, <2>5, <3>1, <3>3 DEF Silent, TakeEnvelope, CheckReceipt, ReceiptReadFails,
         RejectCommand, PlanEvents, RollBackTransaction, CommitReportedAsFailed,
         ReconcileFails, RecordRejection, RejectionReceiptLost, Reply, AfterPublishing, StartIsReached, reached
    <3> QED
      BY <3>2, <3>3
  <2> QED
    BY <1>1, <2>2, <2>4, <2>5 DEF FeedInv
<1>2. CASE SwapReadModel
  <2>1. published' = published /\ stage = "swap" /\ stage' = "publish"
    BY <1>2 DEF SwapReadModel
  <2>2. unpublished = <<>> /\ reached + Len(planned) <= exit.sequence /\ Len(unpublished) = 0
    BY <1>t, <2>1 DEF StartIsReached
  <2>3. StartIsReached'
    BY <1>t, <1>2, <2>1, SwapEffect, EmptySeq DEF StartIsReached
  <2>4. UnpublishedFollow'
    BY <1>t, <1>n, <1>2, <2>1, <2>2, SwapEffect DEF UnpublishedFollow
  <2> QED
    BY <1>t, <2>1, <2>3, <2>4 DEF FeedInv, FeedOrdered
<1>3. CASE PublishNext
  <2>1. reached' = reached /\ stage = "publish"
    BY <1>3 DEF PublishNext, reached
  <2>2. /\ Len(published') = Len(published) + 1 /\ Len(unpublished') = Len(unpublished) - 1
        /\ DOMAIN published' = 1..(Len(published) + 1)
        /\ DOMAIN unpublished' = 1..(Len(unpublished) - 1)
        /\ \A i \in 1..Len(published) : published'[i] = published[i]
        /\ published'[Len(published) + 1] = unpublished[1]
        /\ \A i \in 1..(Len(unpublished) - 1) : unpublished'[i] = unpublished[i + 1]
        /\ Len(unpublished) \in Nat \ {0}
    BY <1>t, <1>3, PublishOne
  <2>3. unpublished[1] = (reached - Len(unpublished)) + 1
    <3>1. 1 \in DOMAIN unpublished
      BY <1>n, <2>2
    <3> QED
      BY <1>t, <3>1 DEF UnpublishedFollow
  <2>4. StartIsReached'
    <3>1. stage' = IF Len(unpublished) = 1 THEN AfterPublishing ELSE "publish"
      BY <1>3 DEF PublishNext
    <3>2. AfterPublishing \in {"record", "reply"}
      BY DEF AfterPublishing
    <3>3. unpublished' \in Seq(Int)
      BY <1>t DEF TypeOK
    <3>4. unpublished' = <<>> <=> Len(unpublished) = 1
      <4>1. Len(unpublished') = Len(unpublished) - 1 /\ Len(unpublished) \in Nat
        BY <1>n, <2>2
      <4>2. unpublished' = <<>> <=> Len(unpublished') = 0
        BY <3>3, EmptySeq
      <4> QED
        BY <4>1, <4>2
    <3> QED
      BY <3>1, <3>2, <3>4 DEF StartIsReached
  <2>5. UnpublishedFollow'
    <3>1. \A i \in 1..(Len(unpublished) - 1) :
              unpublished'[i] = (reached - (Len(unpublished) - 1)) + i
      <4> SUFFICES ASSUME NEW i \in 1..(Len(unpublished) - 1)
                   PROVE  unpublished'[i] = (reached - (Len(unpublished) - 1)) + i
        OBVIOUS
      <4>1. i + 1 \in DOMAIN unpublished /\ unpublished'[i] = unpublished[i + 1]
        BY <1>n, <2>2
      <4>2. unpublished[i + 1] = (reached - Len(unpublished)) + (i + 1)
        BY <1>t, <4>1 DEF UnpublishedFollow
      <4> QED
        BY <1>n, <4>1, <4>2
    <3>2. \A i \in 1..(Len(published) + 1) : published'[i] <= reached - (Len(unpublished) - 1)
      <4>1. \A i \in 1..Len(published) : published[i] <= reached - Len(unpublished)
        BY <1>t, <1>n DEF UnpublishedFollow
      <4>2. published'[Len(published) + 1] <= reached - (Len(unpublished) - 1)
        BY <1>n, <2>2, <2>3
      <4>3. \A i \in 1..Len(published) : published'[i] <= reached - (Len(unpublished) - 1)
        BY <1>n, <2>2, <4>1
      <4> QED
        BY <1>n, <4>2, <4>3
    <3> QED
      BY <2>1, <2>2, <3>1, <3>2 DEF UnpublishedFollow
  <2>6. FeedOrdered'
    <3>1. \A i \in 1..Len(published) : published'[i] < published'[Len(published) + 1]
      <4>1. \A i \in 1..Len(published) : published[i] <= reached - Len(unpublished)
        BY <1>t, <1>n DEF UnpublishedFollow
      <4> QED
        BY <1>n, <2>2, <2>3, <4>1
    <3>2. \A i, j \in 1..Len(published) : i < j => published'[i] < published'[j]
      BY <1>t, <1>n, <2>2 DEF FeedOrdered
    <3> SUFFICES ASSUME NEW i \in 1..(Len(published) + 1), NEW j \in 1..(Len(published) + 1), i < j
                 PROVE  published'[i] < published'[j]
      BY <2>2 DEF FeedOrdered
    <3>3. i \in 1..Len(published)
      BY <1>n
    <3>4. CASE j = Len(published) + 1
      BY <3>1, <3>3, <3>4
    <3>5. CASE j \in 1..Len(published)
      BY <3>2, <3>3, <3>5
    <3> QED
      BY <1>n, <3>4, <3>5
  <2> QED
    BY <2>4, <2>5, <2>6 DEF FeedInv
<1>4. CASE Reconcile
  <2>1. published' = published /\ stage = "reconcile"
    BY <1>4 DEF Reconcile
  <2>2. unpublished = <<>> /\ Len(unpublished) = 0
    BY <1>t, <2>1 DEF StartIsReached
  <2>3. StartIsReached'
    BY <1>t, <1>n, <1>4, <2>1, ReconcileEffect, EmptySeq DEF StartIsReached, AfterPublishing
  <2>4. UnpublishedFollow'
    BY <1>t, <1>n, <1>4, <2>1, <2>2, ReconcileEffect DEF UnpublishedFollow
  <2> QED
    BY <1>t, <2>1, <2>3, <2>4 DEF FeedInv, FeedOrdered
<1>5. CASE Crash
  BY <1>5 DEF Crash, FeedInv, StartIsReached, UnpublishedFollow, FeedOrdered
<1>6. CASE Restart
  <2>1. stage = "down" /\ stage' = "idle" /\ UNCHANGED <<published, unpublished>>
    BY <1>6 DEF Restart
  <2>2. reached' = Len(log) /\ reached' >= reached
    BY <1>6, <1>n DEF Restart, reached
  <2>3. unpublished = <<>>
    BY <1>t, <2>1 DEF StartIsReached
  <2> QED
    BY <1>t, <1>n, <2>1, <2>2, <2>3 DEF FeedInv, StartIsReached, UnpublishedFollow, FeedOrdered
<1> QED
  BY <1>1, <1>2, <1>3, <1>4, <1>5, <1>6, StepKinds

LEMMA InitFeed == Init => FeedInv
BY DEF Init, FeedInv, StartIsReached, UnpublishedFollow, FeedOrdered

\* Subscribers see each event at most once and in the order of the log, whatever
\* fails, even when a reconciliation that failed leaves a gap in the feed.
THEOREM FeedAlwaysOrdered == Spec => []FeedOrdered
<1>1. FeedInv => FeedOrdered
  BY DEF FeedInv
<1> QED
  BY <1>1, InitIInv, Inductive, InitFeed, FeedPreserved, PTL DEF Spec

-----------------------------------------------------------------------------
(* From here on the log can be read back after a failure.                  *)

LEMMA AnswerTypes ==
    ASSUME TypeOK, NEW c \in Callers, answer[c].kind = "ok"
    PROVE  answer[c].sequence \in 0..Len(log)
<1>1. answer[c] \in {Idle, Waiting, Lost} \cup Answers
  BY DEF TypeOK
<1> QED
  BY <1>1 DEF Idle, Waiting, Lost, Answers

\* The answers that are there are not touched, but for those of the step.
LEMMA AnswersKept ==
    ASSUME TypeOK, AnswersPublished, UNCHANGED <<bootSequence, published>>,
           stage' # "down" => stage # "down",
           \A c \in Callers : answer'[c] = answer[c] \/ answer'[c].kind # "ok"
    PROVE  AnswersPublished'
BY DEF AnswersPublished

\* No step but a failing reconciliation takes the read model or the feed off
\* the log.
LEMMA AgreementPreserved ==
    ASSUME ReconcileMayFail = FALSE, IInv, FeedInv, AgreementInv, [Next]_vars
    PROVE  AgreementInv'
<1>t. TypeOK /\ TypeOK' /\ StartIsReached /\ UnpublishedFollow /\ PlanEndsAtTarget /\ FeedInv'
  BY TypePreserved, FeedPreserved DEF IInv, FeedInv
<1>a. ModelFollowsLog /\ FeedFollowsModel /\ AnswersPublished
  BY DEF AgreementInv
<1>n. /\ Len(log) \in Nat /\ reached \in 0..Len(log) /\ bootSequence \in 0..Len(log)
      /\ Len(published) \in Nat /\ Len(unpublished) \in Nat
      /\ DOMAIN published = 1..Len(published) /\ DOMAIN unpublished = 1..Len(unpublished)
      /\ exit.sequence \in 0..Len(log) /\ Len(planned) \in Nat
  BY <1>t, FeedTypes
<1>1. ASSUME NEW c \in Callers, NEW id \in CommandIds, NEW a \in Aggregates, NEW g \in BOOLEAN,
             Dispatch(c, id, a, g)
      PROVE  AgreementInv'
  <2>1. UNCHANGED <<log, stage, commandReadModel, bootSequence, published, unpublished, planned, exit>>
    BY <1>1 DEF Dispatch, durable, worker
  <2>2. \A d \in Callers : answer'[d] = answer[d] \/ answer'[d].kind # "ok"
    BY <1>1, <1>t DEF Dispatch, Waiting, TypeOK
  <2>3. AnswersPublished'
    BY <1>t, <1>a, <2>1, <2>2, AnswersKept
  <2> QED
    BY <1>a, <2>1, <2>3 DEF AgreementInv, ModelFollowsLog, FeedFollowsModel, reached
<1>2. CASE UNCHANGED vars
  BY <1>2, <1>a DEF vars, AgreementInv, ModelFollowsLog, FeedFollowsModel, AnswersPublished, reached
<1>3. CASE TakeEnvelope \/ CheckReceipt \/ RejectCommand \/ PlanEvents
           \/ ReceiptReadFails \/ RollBackTransaction \/ RecordRejection \/ RejectionReceiptLost
  <2>1. UNCHANGED <<log, commandReadModel, bootSequence, published, unpublished, answer>>
    BY <1>3 DEF TakeEnvelope, CheckReceipt, RejectCommand, PlanEvents, ReceiptReadFails,
       RollBackTransaction, RecordRejection, RejectionReceiptLost, durable
  <2>2. /\ stage \notin {"down", "swap", "reconcile"}
        /\ stage' \notin {"down", "swap"}
    BY <1>3 DEF TakeEnvelope, CheckReceipt, RejectCommand, PlanEvents, ReceiptReadFails,
       RollBackTransaction, RecordRejection, RejectionReceiptLost
  <2>3. AnswersPublished'
    BY <1>t, <1>a, <2>1, <2>2, AnswersKept
  <2>4. FeedFollowsModel'
    BY <1>a, <2>1, <2>2 DEF FeedFollowsModel, reached
  <2>5. ModelFollowsLog'
    BY <1>a, <1>n, <2>1, <2>2, ConstantsAssumption DEF ModelFollowsLog, reached
  <2> QED
    BY <2>3, <2>4, <2>5 DEF AgreementInv
<1>4. CASE CommitTransaction \/ CommitReportedAsFailed
  <2>1. UNCHANGED <<commandReadModel, bootSequence, published, unpublished, answer, planned>>
    BY <1>4 DEF CommitTransaction, CommitReportedAsFailed
  <2>2. stage = "transaction" /\ CommitDurably
    BY <1>4 DEF CommitTransaction, CommitReportedAsFailed
  <2>3. Len(log') = Len(log) + Len(planned) /\ reached = Len(log)
    BY <1>t, <1>a, <2>2, CommitTypes DEF ModelFollowsLog
  <2>4. \/ stage' = "swap" /\ exit'.sequence = Len(log) + Len(planned)
        \/ stage' = "reconcile"
    BY <1>4 DEF CommitTransaction, CommitReportedAsFailed, Finish, LastSequence
  <2>5. Len(planned) <= ReconcileReadLimit /\ ReconcileReadLimit \in Nat
    BY <1>t, <1>n, <2>2, ConstantsAssumption DEF PlanEndsAtTarget
  <2>6. AnswersPublished'
    BY <1>t, <1>a, <2>1, <2>2, AnswersKept
  <2>7. FeedFollowsModel'
    BY <1>a, <2>1, <2>2, <2>4 DEF FeedFollowsModel, reached
  <2>8. ModelFollowsLog'
    BY <1>a, <1>n, <2>1, <2>2, <2>3, <2>4, <2>5 DEF ModelFollowsLog, reached
  <2> QED
    BY <2>6, <2>7, <2>8 DEF AgreementInv
<1>5. CASE SwapReadModel
  <2>1. /\ UNCHANGED <<log, bootSequence, published, answer>>
        /\ stage = "swap" /\ stage' = "publish"
    BY <1>5 DEF SwapReadModel, durable
  <2>2. /\ unpublished = <<>> /\ Len(unpublished) = 0
        /\ exit.sequence = Len(log) /\ reached + Len(planned) = Len(log)
        /\ commandReadModel.applied = 1..reached
    BY <1>t, <1>a, <2>1 DEF StartIsReached, ModelFollowsLog
  <2>3. reached' = Len(log) /\ Len(unpublished') = Len(planned)
        /\ commandReadModel'.applied = commandReadModel.applied \cup ((reached + 1)..Len(log))
    <3>1. exit.sequence - Len(planned) + 1 = reached + 1
      BY <1>n, <2>2
    <3> QED
      BY <1>t, <1>5, <2>2, <3>1, SwapEffect
  <2>4. commandReadModel'.applied = 1..Len(log)
    BY <1>n, <2>2, <2>3
  <2>5. AnswersPublished'
    BY <1>t, <1>a, <2>1, AnswersKept
  <2>6. ModelFollowsLog'
    BY <1>n, <2>1, <2>3, <2>4 DEF ModelFollowsLog
  <2>7. FeedFollowsModel'
    <3>1. (bootSequence + Len(published)) + 0 = reached
      BY <1>a, <2>1, <2>2 DEF FeedFollowsModel
    <3>2. (bootSequence + Len(published)) + Len(planned) = Len(log)
      BY <1>n, <2>2, <3>1, SMTT(30)
    <3> QED
      BY <1>a, <2>1, <2>3, <3>2 DEF FeedFollowsModel
  <2> QED
    BY <2>5, <2>6, <2>7 DEF AgreementInv
<1>6. CASE PublishNext
  <2>1. /\ UNCHANGED <<log, bootSequence, answer, commandReadModel>>
        /\ stage = "publish" /\ stage' \in {"publish", "record", "reply"}
    BY <1>6 DEF PublishNext, durable, AfterPublishing
  <2>2. /\ Len(published') = Len(published) + 1 /\ Len(unpublished') = Len(unpublished) - 1
        /\ DOMAIN published' = 1..(Len(published) + 1)
        /\ \A i \in 1..Len(published) : published'[i] = published[i]
        /\ published'[Len(published) + 1] = unpublished[1]
        /\ Len(unpublished) \in Nat \ {0}
    BY <1>t, <1>6, PublishOne
  <2>3. unpublished[1] = (reached - Len(unpublished)) + 1
    <3>1. 1 \in DOMAIN unpublished
      BY <1>n, <2>2
    <3> QED
      BY <1>t, <3>1 DEF UnpublishedFollow
  <2>4. (bootSequence + Len(published)) + Len(unpublished) = reached
    BY <1>a, <2>1 DEF FeedFollowsModel
  <2>5. FeedFollowsModel'
    <3>1. unpublished[1] = bootSequence + (Len(published) + 1)
      BY <1>n, <2>3, <2>4
    <3>2. \A i \in 1..Len(published) : published[i] = bootSequence + i
      BY <1>a, <1>n DEF FeedFollowsModel
    <3>3. \A i \in 1..(Len(published) + 1) : published'[i] = bootSequence + i
      <4> SUFFICES ASSUME NEW i \in 1..(Len(published) + 1) PROVE published'[i] = bootSequence + i
        OBVIOUS
      <4>1. CASE i = Len(published) + 1
        BY <2>2, <3>1, <4>1
      <4>2. CASE i \in 1..Len(published)
        BY <2>2, <3>2, <4>2
      <4> QED
        BY <1>n, <4>1, <4>2
    <3>4. (bootSequence + Len(published')) + Len(unpublished') = reached
      BY <1>n, <2>2, <2>4
    <3> QED
      BY <2>1, <2>2, <3>3, <3>4 DEF FeedFollowsModel, reached
  <2>6. ModelFollowsLog'
    BY <1>a, <2>1 DEF ModelFollowsLog, reached
  <2>7. AnswersPublished'
    <3> SUFFICES ASSUME NEW c \in Callers, answer[c].kind = "ok"
                 PROVE  answer[c].sequence <= bootSequence + Len(published')
      BY <2>1 DEF AnswersPublished
    <3>1. answer[c].sequence <= bootSequence + Len(published) /\ answer[c].sequence \in 0..Len(log)
      BY <1>a, <1>t, <2>1, AnswerTypes DEF AnswersPublished
    <3> QED
      BY <1>n, <2>2, <3>1
  <2> QED
    BY <2>5, <2>6, <2>7 DEF AgreementInv
<1>7. CASE Reconcile
  <2>1. /\ UNCHANGED <<log, bootSequence, published, answer>>
        /\ stage = "reconcile" /\ stage' \in {"publish", "record", "reply"}
    BY <1>7 DEF Reconcile, durable, AfterPublishing
  <2>2. /\ unpublished = <<>> /\ Len(unpublished) = 0
        /\ Len(log) <= reached + ReconcileReadLimit
        /\ commandReadModel.applied = 1..reached
    BY <1>t, <1>a, <2>1 DEF StartIsReached, ModelFollowsLog
  <2>3. /\ reached' \in reached..Len(log)
        /\ reached' = Len(log) \/ reached' = reached + ReconcileReadLimit
        /\ commandReadModel'.applied = commandReadModel.applied \cup ((reached + 1)..reached')
        /\ Len(unpublished') = reached' - reached
    BY <1>t, <1>7, ReconcileEffect
  <2>4. reached' = Len(log)
    BY <1>n, <2>2, <2>3, ConstantsAssumption
  <2>5. commandReadModel'.applied = 1..Len(log)
    BY <1>n, <2>2, <2>3, <2>4
  <2>6. AnswersPublished'
    BY <1>t, <1>a, <2>1, AnswersKept
  <2>7. ModelFollowsLog'
    BY <2>1, <2>4, <2>5 DEF ModelFollowsLog
  <2>8. FeedFollowsModel'
    BY <1>a, <1>n, <2>1, <2>2, <2>3, <2>4 DEF FeedFollowsModel
  <2> QED
    BY <2>6, <2>7, <2>8 DEF AgreementInv
<1>8. CASE ReconcileFails
  BY <1>8 DEF ReconcileFails
<1>9. CASE Reply
  <2>1. /\ UNCHANGED <<log, bootSequence, published, unpublished, commandReadModel>>
        /\ stage = "reply" /\ stage' = "idle"
    BY <1>9 DEF Reply, durable
  <2>2. bootSequence + Len(published) = Len(log)
    <3>1. unpublished = <<>> /\ Len(unpublished) = 0 /\ reached = Len(log)
      BY <1>t, <1>a, <2>1 DEF StartIsReached, ModelFollowsLog
    <3> QED
      BY <1>a, <1>n, <2>1, <3>1 DEF FeedFollowsModel
  <2>3. AnswersPublished'
    <3> SUFFICES ASSUME NEW c \in Callers, answer'[c].kind = "ok"
                 PROVE  answer'[c].sequence <= bootSequence + Len(published)
      BY <2>1 DEF AnswersPublished
    <3>1. answer'[c].sequence \in 0..Len(log)
      <4>1. answer'[c] \in {Idle, Waiting, Lost} \cup Answers' /\ log' = log
        BY <1>t, <2>1 DEF TypeOK
      <4> QED
        BY <4>1 DEF Idle, Waiting, Lost, Answers
    <3> QED
      BY <1>n, <2>2, <3>1
  <2> QED
    BY <1>a, <2>1, <2>3 DEF AgreementInv, ModelFollowsLog, FeedFollowsModel, reached
<1>10. CASE Crash
  BY <1>10 DEF Crash, AgreementInv, ModelFollowsLog, FeedFollowsModel, AnswersPublished
<1>11. CASE Restart
  <2>1. /\ stage = "down" /\ stage' = "idle"
        /\ UNCHANGED <<log, published, unpublished, answer>> /\ bootSequence' = Len(log)
        /\ reached' = Len(log) /\ commandReadModel'.applied = 1..Len(log)
    BY <1>11 DEF Restart, durable, reached
  <2>2. published = <<>> /\ unpublished = <<>> /\ Len(published) = 0 /\ Len(unpublished) = 0
    BY <1>t, <1>a, <2>1 DEF StartIsReached, FeedFollowsModel
  <2>3. AnswersPublished'
    <3> SUFFICES ASSUME NEW c \in Callers, answer[c].kind = "ok"
                 PROVE  answer[c].sequence <= Len(log) + Len(published)
      BY <2>1 DEF AnswersPublished
    <3>1. answer[c].sequence \in 0..Len(log)
      BY <1>t, AnswerTypes
    <3> QED
      BY <1>n, <2>2, <3>1
  <2>4. FeedFollowsModel'
    BY <1>n, <2>1, <2>2 DEF FeedFollowsModel
  <2>5. ModelFollowsLog'
    BY <2>1 DEF ModelFollowsLog
  <2> QED
    BY <2>3, <2>4, <2>5 DEF AgreementInv
<1> QED
  BY <1>1, <1>2, <1>3, <1>4, <1>5, <1>6, <1>7, <1>8, <1>9, <1>10, <1>11 DEF Next, WorkerStep

LEMMA InitAgreement == Init => AgreementInv
BY DEF Init, AgreementInv, ModelFollowsLog, FeedFollowsModel, AnswersPublished, reached,
   EmptyReadModel, Idle

LEMMA AgreementInvariant ==
    ASSUME ReconcileMayFail = FALSE PROVE Spec => [](IInv /\ FeedInv /\ AgreementInv)
BY InitIInv, Inductive, InitFeed, FeedPreserved, InitAgreement, AgreementPreserved, PTL DEF Spec

\* While the log can be read back, every command is decided against all the
\* events in the log, whatever failed before and whenever the server restarted.
THEOREM DecidedAgainstWholeLog == ASSUME ReconcileMayFail = FALSE PROVE Spec => []ReadModelAgrees
<1>1. IInv /\ FeedInv /\ AgreementInv => ReadModelAgrees
  <2> SUFFICES ASSUME TypeOK, ModelFollowsLog,
                      stage \in {"idle", "receipt", "decide", "transaction"}
               PROVE  commandReadModel = [applied |-> 1..Len(log), snapshotSequence |-> Len(log)]
    BY DEF IInv, AgreementInv, ReadModelAgrees
  <2>1. commandReadModel \in [applied: SUBSET Int, snapshotSequence: 0..Len(log)]
    BY DEF TypeOK
  <2>2. commandReadModel.applied = 1..Len(log) /\ commandReadModel.snapshotSequence = Len(log)
    BY DEF ModelFollowsLog, reached
  <2> QED
    BY <2>1, <2>2
<1> QED
  BY <1>1, AgreementInvariant, PTL

\* While the log can be read back, the feed since boot is the log since boot.
THEOREM FeedHasNoGap == ASSUME ReconcileMayFail = FALSE PROVE Spec => []FeedComplete
<1>1. IInv /\ FeedInv /\ AgreementInv => FeedComplete
  <2> SUFFICES ASSUME TypeOK, StartIsReached, ModelFollowsLog, FeedFollowsModel
               PROVE  FeedComplete
    BY DEF IInv, FeedInv, AgreementInv
  <2>1. ASSUME stage = "idle" PROVE bootSequence + Len(published) = Len(log)
    <3>1. unpublished = <<>> /\ Len(unpublished) = 0 /\ reached = Len(log)
      BY <2>1 DEF StartIsReached, ModelFollowsLog
    <3> QED
      BY <2>1, <3>1, FeedTypes DEF FeedFollowsModel
  <2> QED
    BY <2>1 DEF FeedComplete, FeedFollowsModel
<1> QED
  BY <1>1, AgreementInvariant, PTL

\* While the log can be read back, the sequence a caller was told is one the
\* read model has reached and subscribers were sent.
THEOREM AnswersAreReadable == ASSUME ReconcileMayFail = FALSE PROVE Spec => []ReadYourWrites
<1>1. IInv /\ FeedInv /\ AgreementInv => ReadYourWrites
  <2> SUFFICES ASSUME TypeOK, FeedFollowsModel, AnswersPublished,
                      NEW c \in Callers, stage # "down", answer[c].kind = "ok"
               PROVE  /\ answer[c].sequence <= reached
                      /\ answer[c].sequence <= bootSequence + Len(published)
    BY DEF IInv, AgreementInv, ReadYourWrites, reached
  <2>1. answer[c].sequence \in 0..Len(log)
    BY AnswerTypes
  <2>2. answer[c].sequence <= bootSequence + Len(published)
    BY DEF AnswersPublished
  <2>3. (bootSequence + Len(published)) + Len(unpublished) = reached
    BY DEF FeedFollowsModel
  <2> QED
    BY <2>1, <2>2, <2>3, FeedTypes
<1> QED
  BY <1>1, AgreementInvariant, PTL

=============================================================================
