------------------------- MODULE Checkpoints_proofs -------------------------
(***************************************************************************)
(* Proofs that a ref was captured for the turn its count is given to,      *)
(* and that no placeholder is forgotten.                                   *)
(*                                                                         *)
(* IInv adds to the two properties what a capture and a revert hold while  *)
(* they are under way.  Only StartCapture, EnsureBaseline and the deletion *)
(* of stale refs write refs, and only Record and CompleteRevert write      *)
(* rows: each of the two pairs has its own lemma.                          *)
(***************************************************************************)
EXTENDS Checkpoints, SequenceTheorems, WellFoundedInduction, TLAPS

\* The natural numbers in their order, as a relation.
Below == {pair \in Nat \X Nat : pair[1] < pair[2]}

Row == {None} \cup [count: Counts, status: Statuses, captured: BOOLEAN]
CoreInv == RefsInPlace /\ WorkInProgress

-----------------------------------------------------------------------------
(* Lemmas about the operators of the model.                                 *)

\* A set of natural numbers that is not empty has a least one.
LEMMA LeastOf ==
    ASSUME NEW T \in SUBSET Nat, T # {}
    PROVE  \E x \in T : \A y \in T : x <= y
<1>1. IsWellFoundedOn(Below, Nat)
  BY NatLessThanWellFounded, Zenon DEF OpToRel, Below
<1>2. PICK x \in T : \A y \in T : ~(<<y, x>> \in Below)
  BY <1>1, WFMin
<1>3. ASSUME NEW y \in T, y < x
      PROVE  FALSE
  <2>1. <<y, x>> \in Nat \X Nat
    OBVIOUS
  <2>2. <<y, x>> \in Below
    BY <2>1, <1>3 DEF Below
  <2> QED  BY <1>2, <2>2
<1> QED  BY <1>3

\* A bounded one has a greatest.
LEMMA GreatestOf ==
    ASSUME NEW n \in Nat, NEW S \in SUBSET (0..n), S # {}
    PROVE  Max(S) \in S /\ \A y \in S : Max(S) >= y
<1> DEFINE T == {n - m : m \in S}
<1>1. T \in SUBSET Nat /\ T # {}
  <2>1. \A m \in S : n - m \in Nat
    OBVIOUS
  <2> QED  BY <2>1
<1>2. PICK x \in T : \A y \in T : x <= y
  <2> HIDE DEF T
  <2> QED  BY <1>1, LeastOf
<1>3. PICK m \in S : x = n - m
  OBVIOUS
<1>4. \A k \in S : m >= k
  BY <1>2, <1>3
<1> QED  BY <1>4 DEF Max

\* The highest turn count is a turn count, 0 when no turn has one.
LEMMA LatestIsCount ==
    ASSUME CheckpointTypeOK
    PROVE  LatestCount \in Counts
<1> DEFINE S == {0} \cup {rows[t].count : t \in {u \in Turns : rows[u] # None}}
<1>1. MaxCount \in Nat
  BY CheckpointsAssumption
<1>2. S \in SUBSET (0..MaxCount) /\ S # {}
  BY <1>1 DEF CheckpointTypeOK, Counts
<1>3. Max(S) \in S
  <2> HIDE DEF S
  <2> QED  BY <1>1, <1>2, GreatestOf
<1> QED  BY <1>2, <1>3 DEF LatestCount, Counts

\* An event behind the others is among them, and they stay.
LEMMA QueueGrows ==
    ASSUME NEW T, NEW q \in Seq(T), NEW e \in T, NEW p, p = Append(q, e)
    PROVE  /\ p \in Seq(T)
           /\ \A i \in DOMAIN q : i \in DOMAIN p /\ p[i] = q[i]
           /\ \E i \in DOMAIN p : p[i] = e
<1>1. /\ p \in Seq(T) /\ Len(p) = Len(q) + 1 /\ Len(q) \in Nat
      /\ DOMAIN q = 1 .. Len(q) /\ DOMAIN p = 1 .. Len(p)
      /\ \A i \in 1 .. Len(q) : p[i] = q[i]
      /\ p[Len(q) + 1] = e
  BY AppendProperties, LenProperties
<1>2. Len(q) + 1 \in DOMAIN p
  BY <1>1
<1> QED  BY <1>1, <1>2

\* Without the first event the others are still there.
LEMMA QueueShrinks ==
    ASSUME NEW T, NEW q \in Seq(T), q # <<>>, NEW p, p = Tail(q)
    PROVE  /\ p \in Seq(T) /\ Head(q) \in T /\ q[1] = Head(q)
           /\ \A i \in DOMAIN q : i # 1 => i - 1 \in DOMAIN p /\ p[i - 1] = q[i]
<1>1. /\ p \in Seq(T) /\ Head(q) \in T /\ Head(q) = q[1]
      /\ Len(q) \in Nat /\ Len(p) = Len(q) - 1
      /\ DOMAIN q = 1 .. Len(q) /\ DOMAIN p = 1 .. Len(p)
      /\ \A i \in 1 .. Len(p) : p[i] = q[i + 1]
  BY HeadTailProperties, LenProperties, EmptySeq, ElementOfSeq
<1>2. ASSUME NEW i \in DOMAIN q, i # 1
      PROVE  i - 1 \in DOMAIN p /\ p[i - 1] = q[i]
  BY <1>1, <1>2, SMT
<1> QED  BY <1>1, <1>2
-----------------------------------------------------------------------------
(* Types.                                                                   *)

\* A recorded row is a row, and its event one of the reactor's.
LEMMA RecordTypes ==
    ASSUME CheckpointTypeOK, NEW t \in Turns, NEW c \in Counts, NEW s \in Statuses,
           NEW captured \in BOOLEAN, NEW pending \in Seq(DomainEvents),
           Record(t, c, s, captured, pending)
    PROVE  /\ rows' \in [Turns -> Row] /\ domain' \in Seq(DomainEvents)
           /\ rows'[t] = [count |-> c, status |-> s, captured |-> captured]
           /\ \A u \in Turns \ {t} :
                 rows'[u] = IF rows[u].count = c THEN None ELSE rows[u]
           /\ \A i \in DOMAIN pending : i \in DOMAIN domain' /\ domain'[i] = pending[i]
           /\ \E i \in DOMAIN domain' :
                 domain'[i] = [kind |-> "diff", turn |-> t, count |-> c, status |-> s]
<1>1. rows \in [Turns -> Row]
  BY DEF CheckpointTypeOK, Row
<1>2. [count |-> c, status |-> s, captured |-> captured] \in Row
  BY DEF Row
<1>3. None \in Row
  BY DEF Row
<1>4. rows' = [u \in Turns |-> IF u = t THEN [count |-> c, status |-> s, captured |-> captured]
                              ELSE IF rows[u].count = c THEN None ELSE rows[u]]
  BY Zenon DEF Record
<1>5. [kind |-> "diff", turn |-> t, count |-> c, status |-> s] \in DomainEvents
  BY DEF DomainEvents
<1>6. domain' = Append(pending, [kind |-> "diff", turn |-> t, count |-> c, status |-> s])
  BY DEF Record
<1>7. /\ domain' \in Seq(DomainEvents)
      /\ \A i \in DOMAIN pending : i \in DOMAIN domain' /\ domain'[i] = pending[i]
      /\ \E i \in DOMAIN domain' :
            domain'[i] = [kind |-> "diff", turn |-> t, count |-> c, status |-> s]
  BY <1>5, <1>6, QueueGrows
<1> HIDE DEF Row
<1>8. /\ rows' \in [Turns -> Row]
      /\ rows'[t] = [count |-> c, status |-> s, captured |-> captured]
      /\ \A u \in Turns \ {t} :
            rows'[u] = IF rows[u].count = c THEN None ELSE rows[u]
  BY <1>1, <1>2, <1>3, <1>4
<1> QED  BY <1>7, <1>8

\* Asking for turns, reverts and diffs keeps the types, and changes nothing else.
LEMMA ProviderTypes ==
    ASSUME CheckpointTypeOK,
           \/ AskTurn \/ StartTurn \/ UpdateDiff
           \/ \E status \in Statuses : EndTurn(status)
           \/ \E target \in Counts : RequestRevert(target)
    PROVE  /\ CheckpointTypeOK' /\ UNCHANGED <<rows, refs, work, halfDone, failed>>
           /\ \A i \in DOMAIN domain : i \in DOMAIN domain' /\ domain'[i] = domain[i]
<1> USE CheckpointsAssumption DEF CheckpointTypeOK, provider, ingestion, reactor, history
<1>1. CASE AskTurn
  <2>1. [kind |-> "asked"] \in DomainEvents
    BY DEF DomainEvents
  <2>2. domain' \in Seq(DomainEvents)
        /\ \A i \in DOMAIN domain : i \in DOMAIN domain' /\ domain'[i] = domain[i]
    BY <1>1, <2>1, QueueGrows DEF AskTurn
  <2> QED  BY <1>1, <2>2 DEF AskTurn
<1>2. CASE StartTurn
  <2>1. running' \in Turns /\ running' \in 0..MaxTurns /\ started' \in 0..MaxTurns
    BY <1>2 DEF StartTurn, Turns
  <2>2. [kind |-> "started", turn |-> running'] \in ProviderEvents \cap IngestionEvents
    BY <2>1 DEF ProviderEvents, IngestionEvents
  <2>3. toIngestion' \in Seq(IngestionEvents) /\ toReactor' \in Seq(ProviderEvents)
    BY <1>2, <2>2, QueueGrows DEF StartTurn
  <2> QED  BY <1>2, <2>1, <2>3 DEF StartTurn
<1>3. CASE UpdateDiff
  <2>1. running \in Turns
    BY <1>3 DEF UpdateDiff, Turns
  <2>2. [kind |-> "diff", turn |-> running] \in IngestionEvents
    BY <2>1 DEF IngestionEvents
  <2>3. toIngestion' \in Seq(IngestionEvents)
    BY <1>3, <2>2, QueueGrows DEF UpdateDiff
  <2> QED  BY <1>3, <2>3 DEF UpdateDiff
<1>4. ASSUME NEW status \in Statuses, EndTurn(status)
      PROVE  CheckpointTypeOK' /\ UNCHANGED <<rows, refs, work, halfDone, failed, domain>>
  <2>1. running \in Turns
    BY <1>4 DEF EndTurn, Turns
  <2>2. /\ [kind |-> "completed", turn |-> running] \in IngestionEvents
        /\ [kind |-> "completed", turn |-> running, status |-> status] \in ProviderEvents
    BY <2>1 DEF ProviderEvents, IngestionEvents
  <2>3. toIngestion' \in Seq(IngestionEvents) /\ toReactor' \in Seq(ProviderEvents)
    BY <1>4, <2>2, QueueGrows DEF EndTurn
  <2> QED  BY <1>4, <2>3 DEF EndTurn
<1>5. ASSUME NEW target \in Counts, RequestRevert(target)
      PROVE  /\ CheckpointTypeOK' /\ UNCHANGED <<rows, refs, work, halfDone, failed>>
             /\ \A i \in DOMAIN domain : i \in DOMAIN domain' /\ domain'[i] = domain[i]
  <2>1. [kind |-> "revert", target |-> target] \in DomainEvents
    BY DEF DomainEvents
  <2>2. domain' \in Seq(DomainEvents)
        /\ \A i \in DOMAIN domain : i \in DOMAIN domain' /\ domain'[i] = domain[i]
    BY <1>5, <2>1, QueueGrows DEF RequestRevert
  <2> QED  BY <1>5, <2>2 DEF RequestRevert
<1> QED  BY <1>1, <1>2, <1>3, <1>4, <1>5
\* The ingestion keeps the types; only its last step writes a row.
LEMMA IngestionTypes ==
    ASSUME CheckpointTypeOK,
           IngestLifecycle \/ IngestDiff \/ RecordPlaceholder \/ LosePlaceholder
    PROVE  CheckpointTypeOK'
<1> USE CheckpointsAssumption DEF provider, reactor, history
<1>1. ASSUME NEW kind, Ingest(kind)
      PROVE  toIngestion' \in Seq(IngestionEvents) /\ Head(toIngestion).turn \in Turns
  <2>1. /\ toIngestion \in Seq(IngestionEvents) /\ toIngestion # <<>>
        /\ toIngestion' = Tail(toIngestion)
    BY <1>1 DEF CheckpointTypeOK, Ingest
  <2>2. toIngestion' \in Seq(IngestionEvents) /\ Head(toIngestion) \in IngestionEvents
    BY ONLY <2>1, QueueShrinks
  <2> QED  BY <2>2 DEF IngestionEvents
<1>2. CASE IngestLifecycle
  BY <1>1, <1>2 DEF IngestLifecycle, CheckpointTypeOK
<1>3. CASE IngestDiff
  <2>1. toIngestion' \in Seq(IngestionEvents) /\ Head(toIngestion).turn \in Turns
    BY <1>1, <1>3 DEF IngestDiff
  <2>2. LatestCount + 1 \in Counts
    BY <1>3, LatestIsCount DEF IngestDiff, Counts
  <2>3. placeholder' \in {None} \cup [turn: Turns, count: Counts]
    BY <1>3, <2>1, <2>2 DEF IngestDiff
  <2> QED  BY <1>3, <2>1, <2>3 DEF IngestDiff, CheckpointTypeOK
<1>4. CASE RecordPlaceholder
  <2>1. placeholder.turn \in Turns /\ placeholder.count \in Counts
    BY <1>4 DEF RecordPlaceholder, CheckpointTypeOK
  <2>2. domain \in Seq(DomainEvents) /\ "missing" \in Statuses
    BY DEF CheckpointTypeOK, Statuses
  <2>3. rows' \in [Turns -> Row] /\ domain' \in Seq(DomainEvents)
    BY <1>4, <2>1, <2>2, RecordTypes DEF RecordPlaceholder
  <2> QED  BY <1>4, <2>3 DEF RecordPlaceholder, CheckpointTypeOK, Row
<1>5. CASE LosePlaceholder
  BY <1>5 DEF LosePlaceholder, CheckpointTypeOK
<1> QED  BY <1>2, <1>3, <1>4, <1>5

\* What the reactor takes is one of its events, and the others stay.
LEMMA TakeTypes ==
    ASSUME CheckpointTypeOK, NEW kind, TakeRuntime(kind) \/ TakeDomain(kind)
    PROVE  /\ toReactor' \in Seq(ProviderEvents) /\ domain' \in Seq(DomainEvents)
           /\ TakeRuntime(kind) => /\ Head(toReactor) \in ProviderEvents
                                  /\ Head(toReactor).kind = kind /\ domain' = domain
           /\ TakeDomain(kind) => /\ Head(domain) \in DomainEvents /\ Head(domain).kind = kind
           /\ \A i \in DOMAIN domain :
                 \/ \E j \in DOMAIN domain' : domain'[j] = domain[i]
                 \/ TakeDomain(kind) /\ domain[i] = Head(domain)
<1>1. toReactor \in Seq(ProviderEvents) /\ domain \in Seq(DomainEvents)
  BY DEF CheckpointTypeOK
<1>2. CASE TakeRuntime(kind)
  <2>1. /\ toReactor # <<>> /\ toReactor' = Tail(toReactor) /\ domain' = domain
        /\ Head(toReactor).kind = kind
    BY <1>2 DEF TakeRuntime
  <2>2. toReactor' \in Seq(ProviderEvents) /\ Head(toReactor) \in ProviderEvents
    BY <1>1, <2>1, QueueShrinks
  <2>3. ~TakeDomain(kind)
    <3>1. toReactor' # toReactor
      BY ONLY <1>1, <2>1, HeadTailProperties, LenProperties, EmptySeq, SMT
    <3> QED  BY <3>1 DEF TakeDomain
  <2> QED  BY <1>1, <2>1, <2>2, <2>3
<1>3. CASE TakeDomain(kind)
  <2>1. /\ domain # <<>> /\ domain' = Tail(domain) /\ toReactor' = toReactor
        /\ Head(domain).kind = kind
    BY <1>3 DEF TakeDomain
  <2>2. /\ domain' \in Seq(DomainEvents) /\ Head(domain) \in DomainEvents
        /\ \A i \in DOMAIN domain : domain[i] = Head(domain)
                                     \/ \E j \in DOMAIN domain' : domain'[j] = domain[i]
    <3>1. domain \in Seq(DomainEvents) /\ domain # <<>> /\ domain' = Tail(domain)
      BY <1>1, <2>1
    <3>2. /\ domain' \in Seq(DomainEvents) /\ Head(domain) \in DomainEvents
          /\ domain[1] = Head(domain)
          /\ \A i \in DOMAIN domain :
                i # 1 => i - 1 \in DOMAIN domain' /\ domain'[i - 1] = domain[i]
      BY ONLY <3>1, QueueShrinks
    <3> QED  BY <3>2
  <2>3. ~TakeRuntime(kind)
    <3>1. domain' # domain
      BY ONLY <1>1, <2>1, HeadTailProperties, LenProperties, EmptySeq, SMT
    <3> QED  BY <3>1 DEF TakeRuntime
  <2> QED  BY <1>1, <1>3, <2>1, <2>2, <2>3
<1> QED  BY <1>2, <1>3
\* A capture begins for a turn and a count, or it fails.
LEMMA CaptureTypes ==
    ASSUME CheckpointTypeOK, NEW t \in Turns, NEW c \in Counts, NEW s \in Statuses,
           StartCapture(t, c, s)
    PROVE  /\ refs' \in [Counts -> {NoRef, Baseline} \cup Turns]
           /\ \/ /\ refs' = [refs EXCEPT ![c] = t] /\ failed' = failed
                 /\ work' = [kind |-> "capture", turn |-> t, count |-> c, status |-> s]
                 /\ work' \in Captures
              \/ refs' = refs /\ work' = work /\ failed' = failed \cup {t}
BY DEF CheckpointTypeOK, StartCapture, Captures

\* What the reactor does with a completed turn or a recorded diff: it passes it
\* over, or begins a capture for a turn whose checkpoint is not there yet.
LEMMA CaptureCases ==
    ASSUME CheckpointTypeOK, CaptureCompleted \/ CapturePlaceholder
    PROVE  /\ work = Idle /\ UNCHANGED rows /\ UNCHANGED halfDone
           /\ \/ SkipEvent
              \/ \E t \in Turns, c \in Counts, s \in Statuses : StartCapture(t, c, s)
<1> USE DEF history
<1>1. CASE CaptureCompleted
  <2>1. TakeRuntime("completed")
    BY <1>1 DEF CaptureCompleted
  <2>2. Head(toReactor).turn \in Turns /\ Head(toReactor).status \in Statuses
    BY <2>1, TakeTypes DEF ProviderEvents
  <2>3. rows[Head(toReactor).turn] # None => rows[Head(toReactor).turn].count \in Counts
    BY <2>2 DEF CheckpointTypeOK
  <2>4. LatestCount < MaxCount => LatestCount + 1 \in Counts
    BY LatestIsCount, CheckpointsAssumption DEF Counts
  <2>5. work = Idle
    BY <2>1 DEF TakeRuntime
  <2> QED  BY <1>1, <2>2, <2>3, <2>4, <2>5 DEF CaptureCompleted
<1>2. CASE CapturePlaceholder
  <2>1. TakeDomain("diff")
    BY <1>2 DEF CapturePlaceholder
  <2>2. Head(domain).turn \in Turns /\ Head(domain).count \in Counts /\ "ready" \in Statuses
    BY <2>1, TakeTypes DEF DomainEvents, Statuses
  <2>3. work = Idle
    BY <2>1 DEF TakeDomain
  <2> QED  BY <1>2, <2>2, <2>3 DEF CapturePlaceholder
<1> QED  BY <1>1, <1>2

\* The captures keep the types.
LEMMA CapturingTypes ==
    ASSUME CheckpointTypeOK,
           \/ EnsureBaseline \/ BaselineFails \/ CaptureCompleted \/ CapturePlaceholder
           \/ RecordCapture \/ RecordFails
    PROVE  CheckpointTypeOK'
<1> USE CheckpointsAssumption DEF provider, ingestion, history
<1>1. CASE EnsureBaseline
  <2>1. toReactor' \in Seq(ProviderEvents) /\ domain' \in Seq(DomainEvents)
    BY <1>1, TakeTypes DEF EnsureBaseline
  <2>2. refs' \in [Counts -> {NoRef, Baseline} \cup Turns]
    BY <1>1 DEF EnsureBaseline, CheckpointTypeOK
  <2> QED  BY <1>1, <2>1, <2>2 DEF EnsureBaseline, CheckpointTypeOK
<1>2. CASE BaselineFails
  <2>1. toReactor' \in Seq(ProviderEvents) /\ domain' \in Seq(DomainEvents)
    BY <1>2, TakeTypes DEF BaselineFails
  <2> QED  BY <1>2, <2>1 DEF BaselineFails, CheckpointTypeOK
<1>3. CASE CaptureCompleted \/ CapturePlaceholder
  <2>1. toReactor' \in Seq(ProviderEvents) /\ domain' \in Seq(DomainEvents)
    BY <1>3, TakeTypes DEF CaptureCompleted, CapturePlaceholder
  <2>2. /\ refs' \in [Counts -> {NoRef, Baseline} \cup Turns]
        /\ work' \in {Idle} \cup Captures \cup Reverts
    BY <1>3, CaptureCases, CaptureTypes DEF CheckpointTypeOK, SkipEvent
  <2> QED  BY <1>3, <2>1, <2>2 DEF CaptureCompleted, CapturePlaceholder, CheckpointTypeOK
<1>4. CASE RecordCapture
  <2>1. work.turn \in Turns /\ work.count \in Counts /\ work.status \in Statuses
    BY <1>4 DEF RecordCapture, CheckpointTypeOK, Captures, Reverts, Idle
  <2>2. domain \in Seq(DomainEvents)
    BY DEF CheckpointTypeOK
  <2>3. rows' \in [Turns -> Row] /\ domain' \in Seq(DomainEvents)
    BY <1>4, <2>1, <2>2, RecordTypes DEF RecordCapture
  <2> QED  BY <1>4, <2>3 DEF RecordCapture, CheckpointTypeOK, Row
<1>5. CASE RecordFails
  BY <1>5 DEF RecordFails, CheckpointTypeOK
<1> QED  BY <1>1, <1>2, <1>3, <1>4, <1>5

\* So do the steps of a revert, and a restart.
LEMMA RevertTypes ==
    ASSUME CheckpointTypeOK,
           \/ TakeRevert \/ RollBack \/ DeleteStaleRefs \/ CompleteRevert \/ RevertFails
           \/ Restart
    PROVE  CheckpointTypeOK'
<1> USE CheckpointsAssumption DEF provider, ingestion, history
<1>1. CASE TakeRevert
  <2>1. toReactor' \in Seq(ProviderEvents) /\ domain' \in Seq(DomainEvents)
    BY <1>1, TakeTypes DEF TakeRevert
  <2>2. Head(domain).target \in Counts
    BY <1>1, TakeTypes DEF TakeRevert, DomainEvents
  <2>3. CapturedAbove(Head(domain).target) \in SUBSET Counts
    BY DEF CapturedAbove, CheckpointTypeOK
  <2>4. work' \in {Idle} \cup Reverts
    <3>1. \/ work' = Idle
          \/ work' = [kind |-> "revert", step |-> "rollback", target |-> Head(domain).target,
                      stale |-> CapturedAbove(Head(domain).target)]
      BY <1>1 DEF TakeRevert
    <3> QED  BY <2>2, <2>3, <3>1 DEF Reverts
  <2> QED  BY <1>1, <2>1, <2>4 DEF TakeRevert, CheckpointTypeOK
<1>2. ASSUME work.kind = "revert"
      PROVE  work \in Reverts
  BY <1>2 DEF CheckpointTypeOK, Captures, Idle
<1>3. CASE RollBack
  <2>1. work' \in Reverts
    BY <1>2, <1>3 DEF RollBack, Reverting, Reverts
  <2> QED  BY <1>3, <2>1 DEF RollBack, CheckpointTypeOK
<1>4. CASE DeleteStaleRefs
  <2>1. work' \in Reverts
    BY <1>2, <1>4 DEF DeleteStaleRefs, Reverting, Reverts
  <2> QED  BY <1>4, <2>1 DEF DeleteStaleRefs, CheckpointTypeOK
<1>5. CASE CompleteRevert
  BY <1>5 DEF CompleteRevert, CheckpointTypeOK
<1>6. CASE RevertFails
  BY <1>6 DEF RevertFails, CheckpointTypeOK
<1>7. CASE Restart
  <2>1. /\ <<>> \in Seq(DomainEvents) /\ <<>> \in Seq(ProviderEvents)
        /\ <<>> \in Seq(IngestionEvents)
    BY EmptySeq
  <2> QED  BY <1>7, <2>1 DEF Restart, CheckpointTypeOK
<1> QED  BY <1>1, <1>3, <1>4, <1>5, <1>6, <1>7
-----------------------------------------------------------------------------
(* The refs and the rows.                                                   *)

\* A placeholder's row is not captured, so that no ref has to stand for it.
LEMMA IngestionKeepsRefs ==
    ASSUME CheckpointTypeOK, CoreInv,
           IngestLifecycle \/ IngestDiff \/ RecordPlaceholder \/ LosePlaceholder
    PROVE  CoreInv'
<1> USE DEF provider, reactor, history
<1>1. UNCHANGED <<refs, work, halfDone>>
  BY DEF IngestLifecycle, IngestDiff, RecordPlaceholder, LosePlaceholder
<1>2. InDoubt' = InDoubt /\ WorkInProgress'
  BY <1>1 DEF InDoubt, Reverting, BrokenOff, CoreInv, WorkInProgress
<1>3. CASE UNCHANGED rows
  BY <1>1, <1>2, <1>3 DEF CoreInv, RefsInPlace
<1>4. CASE RecordPlaceholder
  <2>1. placeholder.turn \in Turns /\ placeholder.count \in Counts
    BY <1>4 DEF RecordPlaceholder, CheckpointTypeOK
  <2>2. domain \in Seq(DomainEvents) /\ "missing" \in Statuses
    BY DEF CheckpointTypeOK, Statuses
  <2>3. Record(placeholder.turn, placeholder.count, "missing", FALSE, domain)
    BY <1>4 DEF RecordPlaceholder
  <2>4. /\ rows'[placeholder.turn].captured = FALSE
        /\ \A u \in Turns \ {placeholder.turn} : rows'[u] = None \/ rows'[u] = rows[u]
    <3>1. PICK t \in Turns, c \in Counts, b \in BOOLEAN :
            /\ t = placeholder.turn /\ c = placeholder.count /\ b = FALSE
            /\ Record(t, c, "missing", b, domain)
      BY <2>1, <2>3, Zenon
    <3>2. /\ rows'[t] = [count |-> c, status |-> "missing", captured |-> b]
          /\ \A u \in Turns \ {t} : rows'[u] = IF rows[u].count = c THEN None ELSE rows[u]
      BY <2>2, <3>1, RecordTypes
    <3>3. rows'[t].captured = b
      BY <3>2
    <3> QED  BY <3>1, <3>2, <3>3
  <2> QED  BY <1>1, <1>2, <2>4 DEF CoreInv, RefsInPlace
<1> QED  BY <1>3, <1>4 DEF IngestLifecycle, IngestDiff, LosePlaceholder

\* A baseline is written only where there is no ref, and a capture puts the count
\* it overwrites in doubt until its row takes the count from every other turn.
LEMMA CapturingKeepsRefs ==
    ASSUME CheckpointTypeOK, CoreInv,
           \/ EnsureBaseline \/ BaselineFails \/ CaptureCompleted \/ CapturePlaceholder
           \/ RecordCapture \/ RecordFails
    PROVE  CoreInv'
<1> USE DEF provider, ingestion, history
<1>0. /\ rows \in [Turns -> Row] /\ refs \in [Counts -> {NoRef, Baseline} \cup Turns]
      /\ \A t \in Turns : t # NoRef /\ (rows[t] # None => rows[t].count \in Counts)
  BY CheckpointsAssumption DEF CheckpointTypeOK, Row, Turns, NoRef
<1>1. CASE EnsureBaseline
  <2>1. UNCHANGED <<work, rows, halfDone>>
    BY <1>1 DEF EnsureBaseline
  <2>2. work = Idle
    BY <1>1 DEF EnsureBaseline, TakeRuntime, TakeDomain
  <2>3. InDoubt' = InDoubt /\ WorkInProgress'
    BY <2>1, <2>2 DEF InDoubt, Reverting, BrokenOff, WorkInProgress, Idle
  <2>4. \A c \in Counts : refs[c] # NoRef => refs'[c] = refs[c]
    BY <1>0, <1>1 DEF EnsureBaseline
  <2> QED  BY <1>0, <2>1, <2>3, <2>4 DEF CoreInv, RefsInPlace
<1>2. CASE BaselineFails
  BY <1>2 DEF BaselineFails, CoreInv, RefsInPlace, WorkInProgress, InDoubt, Reverting, BrokenOff
<1>3. CASE CaptureCompleted \/ CapturePlaceholder
  <2>1. work = Idle /\ UNCHANGED <<rows, halfDone>>
    BY <1>3, CaptureCases
  <2>2. CASE UNCHANGED <<refs, work>>
    BY <2>1, <2>2 DEF CoreInv, RefsInPlace, WorkInProgress, InDoubt, Reverting, BrokenOff
  <2>3. ASSUME NEW t \in Turns, NEW c \in Counts, NEW s \in Statuses,
               refs' = [refs EXCEPT ![c] = t],
               work' = [kind |-> "capture", turn |-> t, count |-> c, status |-> s]
        PROVE  CoreInv'
    <3>1. refs'[c] = t /\ \A d \in Counts \ {c} : refs'[d] = refs[d]
      BY <1>0, <2>3
    <3>2. InDoubt = halfDone
      BY <2>1 DEF InDoubt, Reverting, BrokenOff, Idle
    <3>3. InDoubt' = halfDone \cup {c}
      BY <2>1, <2>3 DEF InDoubt, Reverting, BrokenOff
    <3>4. RefsInPlace'
      BY <1>0, <2>1, <3>1, <3>2, <3>3 DEF CoreInv, RefsInPlace
    <3>5. WorkInProgress'
      BY <2>3, <3>1 DEF WorkInProgress
    <3> QED  BY <3>4, <3>5 DEF CoreInv
  <2>4. \/ UNCHANGED <<refs, work>>
        \/ \E t \in Turns, c \in Counts, s \in Statuses :
              /\ refs' = [refs EXCEPT ![c] = t]
              /\ work' = [kind |-> "capture", turn |-> t, count |-> c, status |-> s]
    BY <1>3, CaptureCases, CaptureTypes DEF SkipEvent
  <2> QED  BY <2>2, <2>3, <2>4
<1>4. CASE RecordCapture
  <2>1. work.turn \in Turns /\ work.count \in Counts /\ work.status \in Statuses
    BY <1>4 DEF RecordCapture, CheckpointTypeOK, Captures, Reverts, Idle
  <2>2. domain \in Seq(DomainEvents) /\ TRUE \in BOOLEAN
    BY DEF CheckpointTypeOK
  <2>3. Record(work.turn, work.count, work.status, TRUE, domain)
    BY <1>4 DEF RecordCapture
  <2>4. /\ rows'[work.turn].count = work.count
        /\ \A u \in Turns \ {work.turn} :
              rows'[u] = IF rows[u].count = work.count THEN None ELSE rows[u]
    <3>1. PICK t \in Turns, c \in Counts, s \in Statuses, b \in BOOLEAN :
            /\ t = work.turn /\ c = work.count /\ Record(t, c, s, b, domain)
      BY <2>1, <2>2, <2>3, Zenon
    <3>2. /\ rows'[t] = [count |-> c, status |-> s, captured |-> b]
          /\ \A u \in Turns \ {t} : rows'[u] = IF rows[u].count = c THEN None ELSE rows[u]
      BY <2>2, <3>1, RecordTypes
    <3>3. rows'[t].count = c
      BY <3>2
    <3> QED  BY <3>1, <3>2, <3>3
  <2>5. InDoubt = halfDone \cup {work.count} /\ refs[work.count] = work.turn
    BY <1>4 DEF RecordCapture, InDoubt, Reverting, BrokenOff, CoreInv, WorkInProgress
  <2>6. InDoubt' = halfDone \ {work.count} /\ WorkInProgress'
    BY <1>4 DEF RecordCapture, InDoubt, Reverting, BrokenOff, WorkInProgress, Idle
  <2>7. refs' = refs
    BY <1>4 DEF RecordCapture
  <2> QED  BY <1>0, <2>1, <2>4, <2>5, <2>6, <2>7 DEF CoreInv, RefsInPlace
<1>5. CASE RecordFails
  <2>1. InDoubt = halfDone \cup {work.count}
    BY <1>5 DEF RecordFails, InDoubt, Reverting, BrokenOff
  <2>2. InDoubt' = InDoubt /\ WorkInProgress'
    BY <1>5, <2>1 DEF RecordFails, InDoubt, Reverting, BrokenOff, WorkInProgress, Idle
  <2>3. UNCHANGED <<rows, refs>>
    BY <1>5 DEF RecordFails
  <2> QED  BY <2>2, <2>3 DEF CoreInv, RefsInPlace
<1> QED  BY <1>1, <1>2, <1>3, <1>4, <1>5

\* A revert puts what it has read as stale in doubt when it deletes the refs, and
\* removes those rows, which are above its target, in its last step.
LEMMA RevertKeepsRefs ==
    ASSUME CheckpointTypeOK, CoreInv,
           \/ TakeRevert \/ RollBack \/ DeleteStaleRefs \/ CompleteRevert \/ RevertFails
           \/ Restart
    PROVE  CoreInv'
<1> USE DEF provider, ingestion, history
<1>0. /\ rows \in [Turns -> Row] /\ refs \in [Counts -> {NoRef, Baseline} \cup Turns]
      /\ \A t \in Turns : rows[t] # None => rows[t].count \in Counts
  BY DEF CheckpointTypeOK, Row
<1>1. CASE TakeRevert
  <2>1. work = Idle /\ UNCHANGED <<rows, refs, halfDone>>
    BY <1>1 DEF TakeRevert, TakeDomain
  <2>2. \/ work' = Idle
        \/ work' = [kind |-> "revert", step |-> "rollback", target |-> Head(domain).target,
                    stale |-> CapturedAbove(Head(domain).target)]
    BY <1>1 DEF TakeRevert
  <2>3. InDoubt' = InDoubt
    BY <2>1, <2>2 DEF InDoubt, Reverting, BrokenOff, Idle
  <2>4. WorkInProgress'
    BY <2>2 DEF WorkInProgress, Idle, CapturedAbove
  <2> QED  BY <2>1, <2>3, <2>4 DEF CoreInv, RefsInPlace
<1>2. ASSUME work.kind = "revert"
      PROVE  work \in Reverts
  BY <1>2 DEF CheckpointTypeOK, Captures, Idle
<1>3. CASE RollBack
  <2>1. /\ work' = [work EXCEPT !.step = "delete"] /\ work \in Reverts /\ work.step = "rollback"
        /\ UNCHANGED <<rows, refs, halfDone>>
    BY <1>2, <1>3 DEF RollBack, Reverting
  <2>2. work'.kind = "revert" /\ work'.step = "delete" /\ work'.target = work.target
        /\ work'.stale = work.stale /\ work.kind = "revert"
    BY <2>1 DEF Reverts
  <2>3. InDoubt' = InDoubt /\ WorkInProgress'
    BY <2>1, <2>2 DEF InDoubt, Reverting, CoreInv, WorkInProgress
  <2> QED  BY <2>1, <2>3 DEF CoreInv, RefsInPlace
<1>4. CASE DeleteStaleRefs
  <2>1. /\ work' = [work EXCEPT !.step = "complete"] /\ work \in Reverts /\ work.step = "delete"
        /\ UNCHANGED <<rows, halfDone>>
    BY <1>2, <1>4 DEF DeleteStaleRefs, Reverting
  <2>2. work'.kind = "revert" /\ work'.step = "complete" /\ work'.target = work.target
        /\ work'.stale = work.stale /\ work.kind = "revert"
    BY <2>1 DEF Reverts
  <2>3. InDoubt = halfDone /\ InDoubt' = halfDone \cup work.stale
    BY <2>1, <2>2 DEF InDoubt, Reverting, BrokenOff
  <2>4. \A c \in Counts \ work.stale : refs'[c] = refs[c]
    BY <1>4 DEF DeleteStaleRefs
  <2>5. WorkInProgress'
    BY <2>2 DEF CoreInv, WorkInProgress
  <2> QED  BY <1>0, <2>1, <2>3, <2>4, <2>5 DEF CoreInv, RefsInPlace
<1>5. CASE CompleteRevert
  <2>1. /\ work \in Reverts /\ work.step = "complete" /\ work.kind = "revert" /\ work' = Idle
        /\ UNCHANGED <<refs, halfDone>>
    BY <1>2, <1>5 DEF CompleteRevert, Reverting
  <2>2. InDoubt = halfDone \cup work.stale
    BY <2>1 DEF InDoubt, Reverting, BrokenOff
  <2>3. InDoubt' = halfDone /\ WorkInProgress'
    BY <2>1 DEF InDoubt, Reverting, BrokenOff, WorkInProgress, Idle
  <2>4. \A c \in work.stale : c > work.target
    BY <2>1 DEF CoreInv, WorkInProgress
  <2>5. \A t \in Turns : rows'[t] = IF rows[t].count > work.target THEN None ELSE rows[t]
    BY <1>5 DEF CompleteRevert
  <2> QED  BY <2>1, <2>2, <2>3, <2>4, <2>5 DEF CoreInv, RefsInPlace
<1>6. CASE RevertFails
  <2>1. /\ work \in Reverts /\ work.kind = "revert" /\ work' = Idle
        /\ UNCHANGED <<rows, refs>>
        /\ halfDone' = halfDone \cup IF work.step = "rollback" THEN {} ELSE BrokenOff
    BY <1>2, <1>6 DEF RevertFails
  <2>2. InDoubt' = halfDone'
    BY <2>1 DEF InDoubt, Reverting, BrokenOff, Idle
  <2>3. InDoubt \subseteq halfDone'
    BY <2>1 DEF InDoubt, Reverting, Reverts
  <2>4. WorkInProgress'
    BY <2>1 DEF WorkInProgress, Idle
  <2> QED  BY <2>1, <2>2, <2>3, <2>4 DEF CoreInv, RefsInPlace
<1>7. CASE Restart
  <2>1. work' = Idle /\ halfDone' = halfDone \cup BrokenOff /\ UNCHANGED <<rows, refs>>
    BY <1>7 DEF Restart
  <2>2. InDoubt' = halfDone' /\ WorkInProgress'
    BY <2>1 DEF InDoubt, Reverting, BrokenOff, Idle, WorkInProgress
  <2>3. InDoubt \subseteq halfDone'
    BY <2>1 DEF InDoubt
  <2> QED  BY <2>1, <2>2, <2>3 DEF CoreInv, RefsInPlace
<1> QED  BY <1>1, <1>3, <1>4, <1>5, <1>6, <1>7
-----------------------------------------------------------------------------
(* Placeholders.                                                            *)

\* The event that makes the reactor capture the turn's checkpoint.
Asks(event, t) == event.kind = "diff" /\ event.turn = t /\ event.status = "missing"

\* A step keeps every placeholder accounted for if it records none, and whatever
\* it takes from the reactor is captured, has failed or is not what asks for it.
LEMMA StillAccountedFor ==
    ASSUME PlaceholdersGetCaptured,
           \A t \in Turns : rows'[t] = None \/ rows'[t] = rows[t],
           failed \subseteq failed',
           work.kind = "capture" => work' = work \/ work.turn \in failed',
           NEW taken,
           \A i \in DOMAIN domain :
              (\E j \in DOMAIN domain' : domain'[j] = domain[i]) \/ domain[i] = taken,
           \A t \in Turns : Asks(taken, t) =>
              \/ t \in failed'
              \/ work'.kind = "capture" /\ work'.turn = t
              \/ ~(rows[t] # None /\ rows[t].status = "missing")
    PROVE  PlaceholdersGetCaptured'
BY DEF PlaceholdersGetCaptured, Asks

\* Recording a row sends the reactor an event that says so.
LEMMA RecordingIsAccountedFor ==
    ASSUME CheckpointTypeOK, PlaceholdersGetCaptured,
           NEW t \in Turns, NEW c \in Counts, NEW s \in Statuses, NEW captured \in BOOLEAN,
           Record(t, c, s, captured, domain),
           failed \ {t} \subseteq failed',
           work.kind = "capture" => work' = work \/ work.turn = t
    PROVE  PlaceholdersGetCaptured'
<1>1. domain \in Seq(DomainEvents)
  BY DEF CheckpointTypeOK
<1>2. /\ rows'[t] = [count |-> c, status |-> s, captured |-> captured]
      /\ \A u \in Turns \ {t} : rows'[u] = None \/ rows'[u] = rows[u]
      /\ \A i \in DOMAIN domain : i \in DOMAIN domain' /\ domain'[i] = domain[i]
      /\ \E i \in DOMAIN domain' :
            domain'[i] = [kind |-> "diff", turn |-> t, count |-> c, status |-> s]
  BY <1>1, RecordTypes
<1>3. rows'[t].status = s
  BY <1>2
<1>4. \E i \in DOMAIN domain' :
        domain'[i].kind = "diff" /\ domain'[i].turn = t /\ domain'[i].status = s
  BY <1>2
<1> QED  BY <1>2, <1>3, <1>4 DEF PlaceholdersGetCaptured

\* No step of the ingestion or of the user loses a placeholder.
LEMMA IngestionIsAccountedFor ==
    ASSUME CheckpointTypeOK, PlaceholdersGetCaptured,
           IngestLifecycle \/ IngestDiff \/ RecordPlaceholder \/ LosePlaceholder
    PROVE  PlaceholdersGetCaptured'
<1> USE DEF provider, reactor, history
<1>1. CASE RecordPlaceholder
  <2>1. PICK t \in Turns, c \in Counts, s \in Statuses, b \in BOOLEAN :
          Record(t, c, s, b, domain)
    <3>1. placeholder.turn \in Turns /\ placeholder.count \in Counts
      BY <1>1 DEF RecordPlaceholder, CheckpointTypeOK
    <3>2. "missing" \in Statuses
      BY DEF Statuses
    <3>3. Record(placeholder.turn, placeholder.count, "missing", FALSE, domain)
      BY <1>1 DEF RecordPlaceholder
    <3> QED  BY <3>1, <3>2, <3>3, Zenon
  <2>2. UNCHANGED <<work, failed>>
    BY <1>1 DEF RecordPlaceholder
  <2> QED  BY <2>1, <2>2, RecordingIsAccountedFor
<1>2. CASE IngestLifecycle \/ IngestDiff \/ LosePlaceholder
  <2>1. UNCHANGED <<rows, work, domain, failed>>
    BY <1>2 DEF IngestLifecycle, IngestDiff, LosePlaceholder
  <2> QED  BY <2>1 DEF PlaceholdersGetCaptured
<1> QED  BY <1>1, <1>2

\* What the reactor takes it captures, unless the turn has a checkpoint already.
LEMMA CapturingIsAccountedFor ==
    ASSUME CheckpointTypeOK, PlaceholdersGetCaptured,
           \/ EnsureBaseline \/ BaselineFails \/ CaptureCompleted \/ CapturePlaceholder
           \/ RecordCapture \/ RecordFails
    PROVE  PlaceholdersGetCaptured'
<1> USE DEF provider, ingestion, history
<1>1. CASE EnsureBaseline \/ BaselineFails
  <2>1. TakeRuntime("started") \/ TakeDomain("asked")
    BY <1>1 DEF EnsureBaseline, BaselineFails
  <2>2. UNCHANGED <<rows, work, failed>>
    BY <1>1 DEF EnsureBaseline, BaselineFails
  <2>3. \A i \in DOMAIN domain : \/ \E j \in DOMAIN domain' : domain'[j] = domain[i]
                                \/ domain[i].kind = "asked"
    BY <2>1, TakeTypes
  <2> QED  BY <2>2, <2>3 DEF PlaceholdersGetCaptured
<1>2. CASE CaptureCompleted
  <2>1. TakeRuntime("completed")
    BY <1>2 DEF CaptureCompleted
  <2>2. domain' = domain /\ work = Idle /\ UNCHANGED rows
    BY <1>2, <2>1 DEF TakeRuntime, CaptureCompleted
  <2>3. failed \subseteq failed'
    BY <1>2, CaptureCases, CaptureTypes DEF SkipEvent
  <2> QED  BY <2>2, <2>3 DEF PlaceholdersGetCaptured, Idle
<1>3. CASE CapturePlaceholder
  <2>1. TakeDomain("diff")
    BY <1>3 DEF CapturePlaceholder
  <2>2. work = Idle /\ UNCHANGED rows
    BY <1>3, CaptureCases
  <2>3. PICK event : event = Head(domain)
    OBVIOUS
  <2>4. /\ event.turn \in Turns /\ event.count \in Counts /\ "ready" \in Statuses
        /\ \A i \in DOMAIN domain :
              (\E j \in DOMAIN domain' : domain'[j] = domain[i]) \/ domain[i] = event
    BY <2>1, <2>3, TakeTypes DEF DomainEvents, Statuses
  <2>5. \/ ~(event.status = "missing" /\ ~HasReal(event.turn)) /\ SkipEvent
        \/ StartCapture(event.turn, event.count, "ready")
    BY <1>3, <2>3 DEF CapturePlaceholder
  <2>6. CASE SkipEvent /\ ~(event.status = "missing" /\ ~HasReal(event.turn))
    BY <2>2, <2>4, <2>6, StillAccountedFor DEF SkipEvent, HasReal, Asks, Idle
  <2>7. CASE StartCapture(event.turn, event.count, "ready")
    <3>1. /\ failed \subseteq failed'
          /\ \/ event.turn \in failed'
             \/ work'.kind = "capture" /\ work'.turn = event.turn
      BY <2>4, <2>7, CaptureTypes
    <3> QED  BY <2>2, <2>4, <3>1, StillAccountedFor DEF Asks, Idle
  <2> QED  BY <2>5, <2>6, <2>7
<1>4. CASE RecordCapture
  <2>1. PICK t \in Turns, c \in Counts, s \in Statuses, b \in BOOLEAN :
          t = work.turn /\ Record(t, c, s, b, domain)
    <3>1. work.turn \in Turns /\ work.count \in Counts /\ work.status \in Statuses
      BY <1>4 DEF RecordCapture, CheckpointTypeOK, Captures, Reverts, Idle
    <3>2. Record(work.turn, work.count, work.status, TRUE, domain)
      BY <1>4 DEF RecordCapture
    <3> QED  BY <3>1, <3>2, Zenon
  <2>2. failed' = failed \ {t}
    BY <1>4, <2>1 DEF RecordCapture
  <2> QED  BY <2>1, <2>2, RecordingIsAccountedFor
<1>5. CASE RecordFails
  <2>1. UNCHANGED <<rows, domain>> /\ failed' = failed \cup {work.turn}
    BY <1>5 DEF RecordFails
  <2> QED  BY <2>1 DEF PlaceholdersGetCaptured
<1> QED  BY <1>1, <1>2, <1>3, <1>4, <1>5

\* A revert removes rows and takes no other event, and a restart counts every
\* placeholder it finds among what it forgot.
LEMMA RevertIsAccountedFor ==
    ASSUME CheckpointTypeOK, PlaceholdersGetCaptured,
           \/ TakeRevert \/ RollBack \/ DeleteStaleRefs \/ CompleteRevert \/ RevertFails
           \/ Restart
    PROVE  PlaceholdersGetCaptured'
<1> USE DEF provider, ingestion, history
<1>1. CASE TakeRevert
  <2>1. TakeDomain("revert") /\ UNCHANGED <<rows, failed>>
    BY <1>1 DEF TakeRevert
  <2>2. \A i \in DOMAIN domain : \/ \E j \in DOMAIN domain' : domain'[j] = domain[i]
                                \/ domain[i].kind = "revert"
    BY <2>1, TakeTypes
  <2>3. work.kind # "capture"
    BY <2>1 DEF TakeDomain, Idle
  <2> QED  BY <2>1, <2>2, <2>3 DEF PlaceholdersGetCaptured
<1>2. CASE Restart
  BY <1>2 DEF Restart, PlaceholdersGetCaptured
<1>3. CASE RollBack \/ DeleteStaleRefs \/ CompleteRevert \/ RevertFails
  <2>1. work.kind = "revert" /\ UNCHANGED <<domain, failed>>
    BY <1>3 DEF RollBack, DeleteStaleRefs, CompleteRevert, RevertFails, Reverting
  <2>2. \A t \in Turns : rows'[t] = None \/ rows'[t] = rows[t]
    BY <1>3 DEF RollBack, DeleteStaleRefs, CompleteRevert, RevertFails
  <2> QED  BY <2>1, <2>2 DEF PlaceholdersGetCaptured
<1> QED  BY <1>1, <1>2, <1>3
-----------------------------------------------------------------------------
(* Theorems.                                                                *)

\* The invariant holds of every state.
THEOREM CheckpointInvariant == Spec => []IInv
<1>1. Init => IInv
  <2> SUFFICES ASSUME Init PROVE IInv
    OBVIOUS
  <2>1. /\ <<>> \in Seq(DomainEvents) /\ <<>> \in Seq(ProviderEvents)
        /\ <<>> \in Seq(IngestionEvents)
    BY EmptySeq
  <2>2. CheckpointTypeOK
    BY <2>1, CheckpointsAssumption DEF Init, CheckpointTypeOK
  <2>3. RefsInPlace /\ WorkInProgress /\ PlaceholdersGetCaptured
    BY DEF Init, RefsInPlace, WorkInProgress, PlaceholdersGetCaptured, Idle
  <2> QED  BY <2>2, <2>3 DEF IInv
<1>2. IInv /\ [Next]_vars => IInv'
  <2> SUFFICES ASSUME IInv, [Next]_vars
               PROVE  IInv'
    OBVIOUS
  <2> USE DEF IInv
  <2>1. CASE \/ AskTurn \/ StartTurn \/ UpdateDiff
             \/ \E status \in {"ready", "error", "missing"} : EndTurn(status)
             \/ \E target \in Counts : RequestRevert(target)
    <3>1. /\ CheckpointTypeOK' /\ UNCHANGED <<rows, refs, work, halfDone, failed>>
          /\ \A i \in DOMAIN domain : i \in DOMAIN domain' /\ domain'[i] = domain[i]
      BY <2>1, ProviderTypes DEF Statuses
    <3>2. CoreInv'
      BY <3>1 DEF CoreInv, RefsInPlace, WorkInProgress, InDoubt, Reverting, BrokenOff
    <3>3. PlaceholdersGetCaptured'
      BY <3>1 DEF PlaceholdersGetCaptured
    <3> QED  BY <3>1, <3>2, <3>3 DEF CoreInv
  <2>2. CASE IngestLifecycle \/ IngestDiff \/ RecordPlaceholder \/ LosePlaceholder
    BY <2>2, IngestionTypes, IngestionKeepsRefs, IngestionIsAccountedFor DEF CoreInv
  <2>3. CASE \/ EnsureBaseline \/ BaselineFails \/ CaptureCompleted \/ CapturePlaceholder
             \/ RecordCapture \/ RecordFails
    BY <2>3, CapturingTypes, CapturingKeepsRefs, CapturingIsAccountedFor DEF CoreInv
  <2>4. CASE \/ TakeRevert \/ RollBack \/ DeleteStaleRefs \/ CompleteRevert \/ RevertFails
             \/ Restart
    BY <2>4, RevertTypes, RevertKeepsRefs, RevertIsAccountedFor DEF CoreInv
  <2>5. CASE UNCHANGED vars
    BY <2>5 DEF vars, CheckpointTypeOK, RefsInPlace, WorkInProgress, InDoubt, Reverting,
       BrokenOff, PlaceholdersGetCaptured
  <2> QED  BY <2>1, <2>2, <2>3, <2>4, <2>5 DEF Next
<1> QED  BY <1>1, <1>2, PTL DEF Spec

\* The ref with the count of a captured row was captured for the row's turn, unless
\* a capture or a revert of that count is under way or was broken off.
THEOREM RefsAlwaysHoldTheirTurn == Spec => []RefsHoldTheirTurn
<1>1. IInv => RefsHoldTheirTurn
  BY DEF IInv, RefsInPlace, RefsHoldTheirTurn, InDoubt
<1> QED  BY <1>1, CheckpointInvariant, PTL

\* A missing checkpoint is being captured, or the reactor will be asked to, or
\* that has failed or was forgotten by a restart.
THEOREM PlaceholdersAreNotForgotten == Spec => []PlaceholdersGetCaptured
<1>1. IInv => PlaceholdersGetCaptured
  BY DEF IInv
<1> QED  BY <1>1, CheckpointInvariant, PTL
=============================================================================
