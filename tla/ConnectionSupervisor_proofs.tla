--------------------- MODULE ConnectionSupervisor_proofs ---------------------
(***************************************************************************)
(* Proofs that the connection supervisor keeps its scopes, forgets no      *)
(* change of the intent, and publishes the sessions it promises.           *)
(*                                                                         *)
(* IInv says which lease plays which part at each place of the loop, and   *)
(* that a signal that ends the attempt is queued, or about to be, whenever *)
(* the intent no longer holds.  Each action is taken in turn: what it does *)
(* to the leases first, then what it does to the signals.                  *)
(***************************************************************************)
EXTENDS ConnectionSupervisor, SequenceTheorems, FiniteSetTheorems, TLAPS

Places == {"establishing", "connected", "swapping"}
Ending == {s \in Signals : Ends(s)}

\* What an attempt can end with.
Results == {Interrupted(e, r) : e \in BOOLEAN, r \in BOOLEAN}
              \cup {Failure(e, k) : e \in BOOLEAN, k \in Errors}

\* The part of the invariant that is about the leases and what is published.
Held == LeasesOwned /\ LeaseRoles /\ Generations

\* The part of the invariant that is about the signals.
Followed == NoSignalLost /\ FailureLeavesSignals

-----------------------------------------------------------------------------
(* Lemmas about the operators of the model.                                 *)

\* With three leases and at most one of them open there is one to open.
LEMMA LeaseLeft ==
    ASSUME NEW x
    PROVE  \E l \in Leases : l # x
<1>1. SUFFICES ASSUME \A l \in Leases : l = x PROVE FALSE
  OBVIOUS
<1>2. /\ IsFiniteSet({x}) /\ Cardinality({x}) = 1
  BY FS_Singleton
<1>3. Leases \subseteq {x}
  BY <1>1
<1>4. Cardinality(Leases) <= Cardinality({x})
  BY <1>2, <1>3, FS_Subset
<1>5. Cardinality(Leases) >= 3
  BY SupervisorAssumption
<1>6. Cardinality(Leases) \in Nat
  BY <1>2, <1>3, FS_Subset, FS_CardinalityType
<1> QED  BY <1>2, <1>4, <1>5, <1>6, SMT

\* A scope that is opened is one of the leases and was not open.
LEMMA OpensAnother ==
    ASSUME NEW o, NEW x, o \subseteq {x}
    PROVE  (CHOOSE l \in Leases : l \notin o) \in Leases \ o
<1>1. \E l \in Leases : l \notin o
  BY LeaseLeft
<1> QED  BY <1>1

\* The queue with a signal behind it holds the signals it held, and that one.
LEMMA QueueGrows ==
    ASSUME NEW q \in Seq(Signals), NEW s \in Signals, NEW p, p = Append(q, s)
    PROVE  /\ p \in Seq(Signals)
           /\ {p[i] : i \in DOMAIN p} = {q[i] : i \in DOMAIN q} \cup {s}
<1>1. /\ p \in Seq(Signals) /\ Len(p) = Len(q) + 1 /\ Len(q) \in Nat
      /\ DOMAIN q = 1 .. Len(q) /\ DOMAIN p = 1 .. Len(p)
      /\ \A i \in 1 .. Len(q) : p[i] = q[i]
      /\ p[Len(q) + 1] = s
  BY AppendProperties, LenProperties
<1>2. {p[i] : i \in DOMAIN p} \subseteq {q[i] : i \in DOMAIN q} \cup {s}
  BY <1>1, SMT
<1>3. {q[i] : i \in DOMAIN q} \cup {s} \subseteq {p[i] : i \in DOMAIN p}
  <2>1. \A i \in DOMAIN q : i \in DOMAIN p /\ p[i] = q[i]
    BY <1>1, SMT
  <2>2. Len(q) + 1 \in DOMAIN p
    BY <1>1, SMT
  <2> QED  BY <1>1, <2>1, <2>2
<1> QED  BY <1>1, <1>2, <1>3

\* The queue without its first signal still holds the others.
LEMMA QueueShrinks ==
    ASSUME NEW q \in Seq(Signals), q # <<>>, NEW p, p = Tail(q)
    PROVE  /\ p \in Seq(Signals) /\ Head(q) \in Signals
           /\ {q[i] : i \in DOMAIN q} \subseteq {p[i] : i \in DOMAIN p} \cup {Head(q)}
<1>1. /\ p \in Seq(Signals) /\ Head(q) \in Signals /\ Head(q) = q[1]
      /\ Len(q) \in Nat /\ Len(p) = Len(q) - 1
      /\ DOMAIN q = 1 .. Len(q) /\ DOMAIN p = 1 .. Len(p)
      /\ \A i \in 1 .. Len(p) : p[i] = q[i + 1]
  BY HeadTailProperties, LenProperties, EmptySeq
<1>2. ASSUME NEW i \in DOMAIN q, i # 1
      PROVE  i - 1 \in DOMAIN p /\ p[i - 1] = q[i]
  BY <1>1, <1>2, SMT
<1> QED  BY <1>1, <1>2

-----------------------------------------------------------------------------
(* Types.                                                                   *)

\* The intent with another wish is an intent.
LEMMA IntentTypes ==
    ASSUME NEW i \in [desired: BOOLEAN, network: {"online", "offline"}]
    PROVE  /\ [i EXCEPT !.desired = TRUE] \in [desired: BOOLEAN, network: {"online", "offline"}]
           /\ [i EXCEPT !.desired = FALSE] \in [desired: BOOLEAN, network: {"online", "offline"}]
<1>1. \A b \in BOOLEAN :
        [i EXCEPT !.desired = b] \in [desired: BOOLEAN, network: {"online", "offline"}]
  OBVIOUS
<1> QED  BY <1>1, Zenon

\* A caller writes the intent or the wish to retry, and later its signal.
LEMMA CallsKeepTypes ==
    ASSUME TypeOK, Callers \/ \E signal \in calling : QueueSignal(signal)
    PROVE  TypeOK'
<1> USE DEF TypeOK, Call, SupervisorUnchanged, leaseVars, publishedVars, fiberVars, loopVars, budgetVars, Signals, Wakeups
<1>0. intent \in [desired: BOOLEAN, network: {"online", "offline"}]
  OBVIOUS
<1>1. CASE Connect
  <2>0. intent' = [intent EXCEPT !.desired = TRUE]
    BY <1>1 DEF Connect
  <2>1. intent' \in [desired: BOOLEAN, network: {"online", "offline"}]
    BY ONLY <1>0, <2>0, IntentTypes, Zenon
  <2> QED  BY <1>1, <2>1, SupervisorAssumption DEF Connect
<1>2. CASE Disconnect
  <2>0. intent' = [intent EXCEPT !.desired = FALSE]
    BY <1>2 DEF Disconnect
  <2>1. intent' \in [desired: BOOLEAN, network: {"online", "offline"}]
    BY ONLY <1>0, <2>0, IntentTypes, Zenon
  <2> QED  BY <1>2, <2>1, SupervisorAssumption DEF Disconnect
<1>3. CASE RetryNow  BY <1>3, SupervisorAssumption DEF RetryNow
<1>4. CASE NetworkChanges  BY <1>4, SupervisorAssumption DEF NetworkChanges
<1>5. CASE Wakeup
  <2>1. PICK reason \in Wakeups : signals' = Append(signals, reason)
    BY <1>5 DEF Wakeup
  <2>2. signals' \in Seq(Signals)
    BY <2>1, QueueGrows
  <2> QED  BY <1>5, <2>2, SupervisorAssumption DEF Wakeup
<1>6. ASSUME NEW signal \in calling, QueueSignal(signal)
      PROVE  TypeOK'
  <2>1. signals' \in Seq(Signals)
    BY <1>6, QueueGrows DEF QueueSignal
  <2> QED  BY <1>6, <2>1 DEF QueueSignal
<1> QED  BY <1>1, <1>2, <1>3, <1>4, <1>5, <1>6 DEF Callers

\* However an attempt ends, what it leaves behind has its type.
LEMMA EndKeepsTypes ==
    ASSUME TypeOK, NEW result, EndAttempt(result), result \in Results
    PROVE  /\ pc' = "closing" /\ open' \subseteq Leases
           /\ {session', prepared', active', candidate', previous'} \subseteq Leases \cup {NoLease}
           /\ refresh' = "none" /\ probe' \in BOOLEAN /\ dead' \in BOOLEAN
           /\ outcome' \in {NoOutcome} \cup {Interrupted(e, r) : e \in BOOLEAN, r \in BOOLEAN}
                   \cup {Failure(e, k) : e \in BOOLEAN, k \in Errors}
<1>1. outcome' = result
  BY DEF EndAttempt
<1>2. /\ pc' = "closing" /\ open' \subseteq Leases
      /\ {session', prepared', active', candidate', previous'} \subseteq Leases \cup {NoLease}
      /\ refresh' = "none"
  BY DEF TypeOK, EndAttempt, ClearLease
<1>3. probe' = FALSE
  BY DEF EndAttempt
<1>4. dead' = FALSE
  BY DEF EndAttempt
<1>5. probe' \in BOOLEAN
  BY ONLY <1>3, Zenon
<1>6. dead' \in BOOLEAN
  BY ONLY <1>4, Zenon
<1> QED  BY <1>1, <1>2, <1>5, <1>6 DEF Results

\* Every end the actions name is one of these, and says how it came about.
LEMMA ResultTypes ==
    /\ \A e, r \in BOOLEAN :
          /\ Interrupted(e, r) \in Results
          /\ Interrupted(e, r).tag = "interrupted" /\ Interrupted(e, r).established = e
    /\ \A e \in BOOLEAN : \A k \in Errors :
          /\ Failure(e, k) \in Results
          /\ Failure(e, k).tag = "failure" /\ Failure(e, k).established = e
<1>1. \A e, r \in BOOLEAN : Interrupted(e, r) \in Results
  BY DEF Results
<1>2. \A e \in BOOLEAN : \A k \in Errors : Failure(e, k) \in Results
  BY DEF Results
<1>3. \A e, r : Interrupted(e, r).tag = "interrupted" /\ Interrupted(e, r).established = e
  BY DEF Interrupted
<1>4. \A e, k : Failure(e, k).tag = "failure" /\ Failure(e, k).established = e
  BY DEF Failure
<1> QED  BY <1>1, <1>2, <1>3, <1>4

\* The end that an ending signal brings about.
LEMMA TakenResult ==
    ASSUME NEW e \in BOOLEAN, NEW s
    PROVE  /\ Interrupted(e, s = "reconnect") \in Results
           /\ Interrupted(e, s = "reconnect").tag = "interrupted"
           /\ Interrupted(e, s = "reconnect").established = e
<1>1. (s = "reconnect") \in BOOLEAN
  OBVIOUS
<1> QED  BY <1>1, ResultTypes, Zenon

\* A scope that is opened is that of a lease which was closed.
LEMMA ScopeTypes ==
    ASSUME NEW x, open \subseteq {x}, open \subseteq Leases, OpenScope
    PROVE  candidate' \in Leases \ open /\ open' = open \cup {candidate'} /\ open' \subseteq Leases
<1>1. (CHOOSE l \in Leases : l \notin open) \in Leases \ open
  BY OpensAnother
<1> QED  BY <1>1 DEF OpenScope

\* The loop between two attempts keeps the types.
LEMMA LoopKeepsTypes ==
    ASSUME TypeOK, Held, TopOfLoop \/ TakeWhileIdle \/ RetryDelayPasses \/ Conclude
    PROVE  TypeOK'
<1> USE DEF TypeOK, ClearLease, callVars, publishedVars, leaseVars, fiberVars, loopVars, budgetVars
<1>1. CASE TopOfLoop
  <2>1. resetRetryState' = FALSE
    BY <1>1 DEF TopOfLoop
  <2>2. resetRetryState' \in BOOLEAN
    BY ONLY <2>1, Zenon
  <2>3. open' \subseteq Leases /\ candidate' \in Leases \cup {NoLease}
    <3>1. open \subseteq {NoLease}
      BY <1>1 DEF TopOfLoop, Held, LeasesOwned, LeaseRoles
    <3>2. CASE OpenScope
      BY <3>1, <3>2, ScopeTypes, SMTT(30)
    <3>3. CASE UNCHANGED <<open, candidate>>
      BY <3>3
    <3> QED  BY <1>1, <3>2, <3>3 DEF TopOfLoop
  <2> QED  BY <1>1, <2>2, <2>3, SupervisorAssumption DEF TopOfLoop
<1>2. CASE TakeWhileIdle
  <2>1. signals' \in Seq(Signals)
    BY <1>2, QueueShrinks DEF TakeWhileIdle
  <2> QED  BY <1>2, <2>1, SupervisorAssumption DEF TakeWhileIdle
<1>3. CASE RetryDelayPasses
  BY <1>3 DEF RetryDelayPasses
<1>4. CASE Conclude
  <2>1. wakeProbeFailed' = FALSE
    BY <1>4 DEF Conclude
  <2>2. wakeProbeFailed' \in BOOLEAN
    BY ONLY <2>1, Zenon
  <2> QED  BY <1>4, <2>2, SupervisorAssumption DEF Conclude, NextRung
<1> QED  BY <1>1, <1>2, <1>3, <1>4
\* An attempt that is being established keeps the types.
LEMMA EstablishingKeepsTypes ==
    ASSUME TypeOK, Held, Progress \/ TakeWhileEstablishing \/ EndEstablishment
    PROVE  TypeOK'
<1> USE DEF callVars, publishedVars, leaseVars, fiberVars, loopVars, budgetVars
<1>1. CASE Progress
  BY <1>1 DEF TypeOK, Progress, Held, LeaseRoles
<1>2. CASE TakeWhileEstablishing
  <2>1. signals' \in Seq(Signals) /\ Head(signals) \in Signals
    BY <1>2, QueueShrinks DEF TakeWhileEstablishing, TypeOK
  <2>2. CASE Ends(Head(signals))
    <3>1. EndAttempt(Interrupted(FALSE, Head(signals) = "reconnect"))
      BY <1>2, <2>2 DEF TakeWhileEstablishing
    <3>2. PICK result \in Results : EndAttempt(result)
      BY <3>1, TakenResult
    <3> QED  BY <1>2, <2>1, <3>2, EndKeepsTypes DEF TypeOK, TakeWhileEstablishing
  <2>3. CASE ~Ends(Head(signals))
    BY <1>2, <2>1, <2>3 DEF TypeOK, TakeWhileEstablishing
  <2> QED  BY <2>2, <2>3
<1>3. CASE EstablishmentFails
  <2>1. PICK result \in Results : EndAttempt(result)
    BY <1>3, ResultTypes DEF EstablishmentFails
  <2> QED  BY <1>3, <2>1, EndKeepsTypes DEF TypeOK, EstablishmentFails
<1>4. CASE Established
  <2>1. CASE ~Wanted
    <3>1. EndAttempt(Interrupted(FALSE, FALSE))
      BY <1>4, <2>1 DEF Established
    <3>2. PICK result \in Results : EndAttempt(result)
      BY <3>1, ResultTypes
    <3>3. UNCHANGED <<phase, refreshes>>
      BY <1>4, <2>1 DEF Established
    <3>4. /\ UNCHANGED <<callVars, signals, wakeProbeFailed, generation, rung>>
          /\ UNCHANGED <<activeGeneration, losses>>
      BY <1>4 DEF Established
    <3> QED  BY <3>2, <3>3, <3>4, EndKeepsTypes DEF TypeOK
  <2>2. CASE Wanted
    BY <1>4, <2>2, SupervisorAssumption DEF TypeOK, Established, Authorization, Held, LeaseRoles
  <2> QED  BY <2>1, <2>2
<1> QED  BY <1>1, <1>2, <1>3, <1>4 DEF EndEstablishment

\* A connected attempt keeps the types when a signal is taken.
LEMMA TakeConnectedKeepsTypes ==
    ASSUME TypeOK, TakeWhileConnected
    PROVE  TypeOK'
<1> USE DEF ConnectedUnchanged, callVars, publishedVars, leaseVars, fiberVars, loopVars, budgetVars
<1>1. signals' \in Seq(Signals) /\ Head(signals) \in Signals
  BY QueueShrinks DEF TakeWhileConnected, TypeOK
<1>2. CASE Ends(Head(signals))
  <2>1. EndAttempt(Interrupted(TRUE, Head(signals) = "reconnect"))
    BY <1>2 DEF TakeWhileConnected
  <2>2. PICK result \in Results : EndAttempt(result)
    BY <2>1, TakenResult
  <2> QED  BY <1>1, <2>2, EndKeepsTypes DEF TypeOK, TakeWhileConnected
<1>3. CASE ~Ends(Head(signals))
  <2>1. probe' = (probe \/ Head(signals) = "active")
    BY <1>3 DEF TakeWhileConnected
  <2>2. probe' \in BOOLEAN
    BY ONLY <2>1, Zenon
  <2> QED  BY <1>1, <1>3, <2>2 DEF TypeOK, TakeWhileConnected
<1> QED  BY <1>2, <1>3

\* The ways in which a connected attempt ends by itself keep the types.
LEMMA ConnectedEndKeepsTypes ==
    ASSUME TypeOK, ProbeFails \/ SessionClosed \/ ReplacementGivesUp
    PROVE  TypeOK'
<1> USE DEF ConnectedUnchanged, callVars, publishedVars, leaseVars, fiberVars, loopVars, budgetVars
<1>1. PICK result \in Results : EndAttempt(result)
  BY ResultTypes DEF ProbeFails, SessionClosed, ReplacementGivesUp, Errors
<1>2. CASE ProbeFails
  <2>1. wakeProbeFailed' = TRUE
    BY <1>2 DEF ProbeFails
  <2>2. wakeProbeFailed' \in BOOLEAN
    BY ONLY <2>1, Zenon
  <2> QED  BY <1>1, <1>2, <2>2, EndKeepsTypes DEF TypeOK, ProbeFails
<1>3. CASE SessionClosed
  BY <1>1, <1>3, EndKeepsTypes DEF TypeOK, SessionClosed
<1>4. CASE ReplacementGivesUp
  BY <1>1, <1>4, EndKeepsTypes DEF TypeOK, ReplacementGivesUp
<1> QED  BY <1>2, <1>3, <1>4

\* A connected attempt that goes on keeps the types.
LEMMA ConnectedKeepsTypes ==
    ASSUME TypeOK, Held,
           \/ ProbeSucceeds \/ TransportDies \/ PrepareReplacement \/ ReplacementFails
           \/ ReplacementReady \/ ClosePrevious
    PROVE  TypeOK'
<1> USE DEF ConnectedUnchanged, callVars, publishedVars, leaseVars, fiberVars, loopVars, budgetVars
<1>1. CASE ProbeSucceeds
  <2>1. probe' = FALSE
    BY <1>1 DEF ProbeSucceeds
  <2>2. probe' \in BOOLEAN
    BY ONLY <2>1, Zenon
  <2> QED  BY <1>1, <2>2 DEF TypeOK, ProbeSucceeds
<1>2. CASE TransportDies
  <2>1. dead' = TRUE
    BY <1>2 DEF TransportDies
  <2>2. dead' \in BOOLEAN
    BY ONLY <2>1, Zenon
  <2> QED  BY <1>2, <2>2, SupervisorAssumption DEF TypeOK, TransportDies
<1>3. CASE PrepareReplacement
  <2>1. open \subseteq {active}
    BY <1>3 DEF PrepareReplacement, Held, LeasesOwned, LeaseRoles
  <2>2. OpenScope
    BY <1>3 DEF PrepareReplacement
  <2>3. open' \subseteq Leases /\ candidate' \in Leases \cup {NoLease}
    BY <2>1, <2>2, ScopeTypes, SMTT(30) DEF TypeOK
  <2> QED  BY <1>3, <2>3 DEF TypeOK, PrepareReplacement
<1>4. CASE ReplacementFails
  BY <1>4 DEF TypeOK, ReplacementFails
<1>5. CASE ReplacementReady
  <2>1. CASE ~Wanted
    <3>1. EndAttempt(Interrupted(TRUE, FALSE))
      BY <1>5, <2>1 DEF ReplacementReady
    <3>2. PICK result \in Results : EndAttempt(result)
      BY <3>1, ResultTypes
    <3>3. UNCHANGED <<phase, activeGeneration, refreshes>>
      BY <1>5, <2>1 DEF ReplacementReady
    <3>4. UNCHANGED <<callVars, signals, wakeProbeFailed, generation, rung, losses>>
      BY <1>5 DEF ReplacementReady
    <3> QED  BY <3>2, <3>3, <3>4, EndKeepsTypes DEF TypeOK
  <2>2. CASE Wanted
    <3>1. probe' = FALSE
      BY <1>5, <2>2 DEF ReplacementReady
    <3>2. dead' = FALSE
      BY <1>5, <2>2 DEF ReplacementReady
    <3>3. probe' \in BOOLEAN
      BY ONLY <3>1, Zenon
    <3>4. dead' \in BOOLEAN
      BY ONLY <3>2, Zenon
    <3> QED  BY <1>5, <2>2, <3>3, <3>4, SupervisorAssumption
             DEF TypeOK, ReplacementReady, Authorization
  <2> QED  BY <2>1, <2>2
<1>6. CASE ClosePrevious
  BY <1>6 DEF TypeOK, ClosePrevious
<1> QED  BY <1>1, <1>2, <1>3, <1>4, <1>5, <1>6
-----------------------------------------------------------------------------
(* Leases, generations and what is published.                               *)

\* A step that leaves the loop where it is leaves the leases in their parts.
LEMMA CallsKeepLeases ==
    ASSUME Held, Callers \/ \E signal \in calling : QueueSignal(signal)
    PROVE  Held'
<1>1. SupervisorUnchanged
  BY DEF Callers, Connect, Disconnect, RetryNow, NetworkChanges, Wakeup, QueueSignal, Call
<1> QED  BY <1>1 DEF Held, LeasesOwned, LeaseRoles, Generations, SupervisorUnchanged,
            publishedVars, leaseVars, fiberVars, loopVars, budgetVars

\* However an attempt ends, its session is no longer published.
LEMMA EndKeepsLeases ==
    ASSUME NEW result, EndAttempt(result)
    PROVE  Held'
BY DEF Held, LeasesOwned, LeaseRoles, Generations, EndAttempt, ClearLease

\* Between attempts no lease plays a part, until one is opened.
LEMMA LoopKeepsLeases ==
    ASSUME TypeOK, Held, TopOfLoop \/ TakeWhileIdle \/ RetryDelayPasses \/ Conclude
    PROVE  Held'
<1> USE DEF Held, LeasesOwned, LeaseRoles, Generations, ClearLease,
            publishedVars, leaseVars, fiberVars, loopVars, budgetVars
<1>1. CASE TopOfLoop
  <2>1. open = {} /\ open \subseteq {NoLease} /\ open \subseteq Leases
    BY <1>1 DEF TopOfLoop
  <2>2. CASE pc' = "idle"
    BY <1>1, <2>1, <2>2 DEF TopOfLoop
  <2>3. CASE pc' = "establishing"
    <3>1. OpenScope
      BY <1>1, <2>3 DEF TopOfLoop
    <3>2. candidate' \in Leases /\ open' = {candidate'}
      BY <2>1, <3>1, ScopeTypes
    <3> QED  BY <1>1, <2>3, <3>2, SupervisorAssumption DEF TopOfLoop
  <2> QED  BY <1>1, <2>2, <2>3 DEF TopOfLoop
<1>2. CASE TakeWhileIdle
  BY <1>2 DEF TakeWhileIdle
<1>3. CASE RetryDelayPasses
  BY <1>3 DEF RetryDelayPasses
<1>4. CASE Conclude
  BY <1>4 DEF Conclude
<1> QED  BY <1>1, <1>2, <1>3, <1>4

\* The candidate of an attempt becomes its active lease when the attempt is
\* established, and goes when it ends.
LEMMA EstablishingKeepsLeases ==
    ASSUME TypeOK, Held, Progress \/ TakeWhileEstablishing \/ EndEstablishment
    PROVE  Held'
<1>1. CASE \E result : EndAttempt(result)
  BY <1>1, EndKeepsLeases
<1>2. CASE Progress
  BY <1>2 DEF Held, LeasesOwned, LeaseRoles, Generations, Progress,
     publishedVars, leaseVars, fiberVars, loopVars, budgetVars
<1>3. CASE TakeWhileEstablishing /\ ~Ends(Head(signals))
  BY <1>3 DEF Held, LeasesOwned, LeaseRoles, Generations, TakeWhileEstablishing,
     publishedVars, leaseVars, fiberVars, loopVars, budgetVars
<1>4. CASE Established /\ Wanted
  BY <1>4, SupervisorAssumption DEF TypeOK, Held, LeasesOwned, LeaseRoles, Generations,
     Established, Authorization, publishedVars, leaseVars, fiberVars, loopVars, budgetVars
<1> QED  BY <1>1, <1>2, <1>3, <1>4
         DEF EndEstablishment, EstablishmentFails, TakeWhileEstablishing, Established

\* A connected attempt keeps its active lease, and a replacement takes its place
\* in one step.
LEMMA ConnectedKeepsLeases ==
    ASSUME TypeOK, Held,
           \/ TakeWhileConnected \/ EndProbe \/ SessionClosed \/ TransportDies
           \/ PrepareReplacement \/ ReplacementFails \/ ReplacementGivesUp
           \/ ReplacementReady \/ ClosePrevious
    PROVE  Held'
<1> USE DEF ConnectedUnchanged, callVars, publishedVars, leaseVars, fiberVars, loopVars, budgetVars
<1>1. CASE \E result : EndAttempt(result)
  BY <1>1, EndKeepsLeases
<1>2. CASE TakeWhileConnected /\ ~Ends(Head(signals))
  BY <1>2 DEF Held, LeasesOwned, LeaseRoles, Generations, TakeWhileConnected
<1>3. CASE ProbeSucceeds
  BY <1>3 DEF Held, LeasesOwned, LeaseRoles, Generations, ProbeSucceeds
<1>4. CASE TransportDies
  BY <1>4 DEF Held, LeasesOwned, LeaseRoles, Generations, TransportDies
<1>5. CASE PrepareReplacement
  <2>1. open = {active} /\ open \subseteq Leases
    BY <1>5, SupervisorAssumption
       DEF TypeOK, PrepareReplacement, Held, LeasesOwned, LeaseRoles
  <2>2. OpenScope
    BY <1>5 DEF PrepareReplacement
  <2>3. candidate' \in Leases \ {active} /\ open' = {active, candidate'}
    BY <2>1, <2>2, ScopeTypes
  <2> QED  BY <1>5, <2>3, SupervisorAssumption
           DEF Held, LeasesOwned, LeaseRoles, Generations, PrepareReplacement
<1>6. CASE ReplacementFails
  BY <1>6, SupervisorAssumption DEF Held, LeasesOwned, LeaseRoles, Generations, ReplacementFails
<1>7. CASE ReplacementReady /\ Wanted
  <2>1. candidate \in Leases \ {active} /\ active \in Leases /\ open = {active, candidate}
    BY <1>7, SupervisorAssumption DEF TypeOK, Held, LeasesOwned, LeaseRoles, ReplacementReady
  <2> QED  BY <1>7, <2>1, SupervisorAssumption
           DEF TypeOK, Held, LeasesOwned, LeaseRoles, Generations, ReplacementReady, Authorization
<1>8. CASE ClosePrevious
  BY <1>8, SupervisorAssumption DEF Held, LeasesOwned, LeaseRoles, Generations, ClosePrevious
<1> QED  BY <1>1, <1>2, <1>3, <1>4, <1>5, <1>6, <1>7, <1>8
         DEF EndProbe, ProbeFails, SessionClosed, ReplacementGivesUp, ReplacementReady,
             TakeWhileConnected
-----------------------------------------------------------------------------
(* Signals that are still to come.                                          *)

\* The invariant over the signals survives a step that leaves the loop where it
\* is and loses no signal, if a change of the intent brings its own: any signal
\* ends a wait, and what ends an attempt is the loss of what was wanted.
LEMMA SignalsKeptAreFollowed ==
    ASSUME Followed, UNCHANGED <<pc, phase, outcome>>,
           calling \subseteq calling' \cup Queued', Queued \subseteq Queued',
           intent' # intent => (calling' \cup Queued') \cap Signals # {},
           Wanted /\ ~Wanted' => (calling' \cup Queued') \cap Ending # {}
    PROVE  Followed'
<1>1. ASSUME NEW S, (calling \cup Queued) \cap S # {}
      PROVE  (calling' \cup Queued') \cap S # {}
  BY <1>1
<1>2. ASSUME intent' = intent
      PROVE  (Wanted' <=> Wanted) /\ (intent.desired <=> intent'.desired)
  BY <1>2 DEF Wanted
<1>3. NoSignalLost'
  BY <1>1, <1>2 DEF Followed, NoSignalLost, Coming, Ending
<1>4. FailureLeavesSignals'
  BY <1>1 DEF Followed, FailureLeavesSignals, Coming, Ending
<1> QED  BY <1>3, <1>4 DEF Followed

\* A caller's change of the intent has its signal among those to come.
LEMMA CallsAreFollowed ==
    ASSUME TypeOK, Followed, Callers \/ \E signal \in calling : QueueSignal(signal)
    PROVE  Followed'
<1>1. UNCHANGED <<pc, phase, outcome>>
  BY DEF Callers, Connect, Disconnect, RetryNow, NetworkChanges, Wakeup, QueueSignal, Call,
         SupervisorUnchanged, publishedVars, loopVars
<1>2. {"connect", "disconnect", "online", "offline"} \subseteq Signals
      /\ {"disconnect", "offline"} \subseteq Ending
  BY DEF Signals, Ending, Ends
<1>3. ASSUME UNCHANGED signals
      PROVE  Queued' = Queued
  BY <1>3 DEF Queued
<1>4. CASE Connect
  <2>1. calling' = calling \cup {"connect"} /\ UNCHANGED signals
    BY <1>4 DEF Connect, Call
  <2>2. intent'.desired = TRUE /\ intent'.network = intent.network
    BY <1>4 DEF Connect, TypeOK
  <2>3. ~(Wanted /\ ~Wanted')
    BY <2>2 DEF Wanted
  <2> QED  BY <1>1, <1>2, <1>3, <2>1, <2>3, SignalsKeptAreFollowed
<1>5. CASE Disconnect
  <2>1. calling' = calling \cup {"disconnect"} /\ UNCHANGED signals
    BY <1>5 DEF Disconnect, Call
  <2> QED  BY <1>1, <1>2, <1>3, <2>1, SignalsKeptAreFollowed
<1>6. CASE RetryNow
  <2>1. calling' = calling \cup {"retry"} /\ UNCHANGED <<signals, intent>>
    BY <1>6 DEF RetryNow, Call
  <2> QED  BY <1>1, <1>3, <2>1, SignalsKeptAreFollowed DEF Wanted
<1>7. CASE NetworkChanges
  <2>1. PICK network \in {"online", "offline"} :
          /\ network = (IF intent.network = "online" THEN "offline" ELSE "online")
          /\ intent' = [intent EXCEPT !.network = network]
          /\ calling' = calling \cup {network} /\ UNCHANGED signals
    BY <1>7 DEF NetworkChanges, Call
  <2>2. CASE network = "offline"
    BY <1>1, <1>2, <1>3, <2>1, <2>2, SignalsKeptAreFollowed
  <2>3. CASE network = "online"
    <3>1. intent'.network = "online" /\ intent.network # "online"
      BY <2>1, <2>3 DEF TypeOK
    <3> QED  BY <1>1, <1>2, <1>3, <2>1, <2>3, <3>1, SignalsKeptAreFollowed DEF Wanted
  <2> QED  BY <2>1, <2>2, <2>3
<1>8. CASE Wakeup
  <2>1. PICK reason \in Wakeups : signals' = Append(signals, reason)
    BY <1>8 DEF Wakeup
  <2>2. Queued' = Queued \cup {reason}
    BY <2>1, QueueGrows DEF Queued, Signals, TypeOK
  <2>3. UNCHANGED <<intent, calling>>
    BY <1>8 DEF Wakeup
  <2> QED  BY <1>1, <2>2, <2>3, SignalsKeptAreFollowed DEF Wanted
<1>9. ASSUME NEW signal \in calling, QueueSignal(signal)
      PROVE  Followed'
  <2>1. Queued' = Queued \cup {signal}
    BY <1>9, QueueGrows DEF Queued, TypeOK, QueueSignal
  <2>2. UNCHANGED intent /\ calling' = calling \ {signal}
    BY <1>9 DEF QueueSignal
  <2> QED  BY <1>1, <2>1, <2>2, SignalsKeptAreFollowed DEF Wanted
<1> QED  BY <1>4, <1>5, <1>6, <1>7, <1>8, <1>9 DEF Callers
\* The loop waits only for what it has just read, or, after a failure, with the
\* signal of the change still to come.
LEMMA LoopIsFollowed ==
    ASSUME TypeOK, Followed, TopOfLoop \/ TakeWhileIdle \/ RetryDelayPasses \/ Conclude
    PROVE  Followed'
<1>1. CASE TopOfLoop
  BY <1>1 DEF TypeOK, TopOfLoop, Followed, NoSignalLost, FailureLeavesSignals, Wanted
<1>2. CASE TakeWhileIdle
  BY <1>2 DEF TakeWhileIdle, Followed, NoSignalLost, FailureLeavesSignals
<1>3. CASE RetryDelayPasses
  BY <1>3 DEF RetryDelayPasses, Followed, NoSignalLost, FailureLeavesSignals
<1>4. CASE Conclude
  <2>1. UNCHANGED <<calling, signals, intent>> /\ pc' \in {"top", "idle"}
    BY <1>4 DEF Conclude, callVars
  <2>2. CASE pc' = "top"
    BY <2>2 DEF Followed, NoSignalLost, FailureLeavesSignals
  <2>3. CASE pc' = "idle"
    <3>1. phase' \in {"blocked", "backoff"} /\ pc = "closing" /\ outcome.tag = "failure"
      BY <1>4, <2>3 DEF Conclude
    <3>2. ~Wanted => Coming(Signals)
      BY <3>1 DEF Followed, FailureLeavesSignals, Coming
    <3>3. (Wanted' <=> Wanted) /\ calling' = calling /\ Queued' = Queued
      BY <2>1 DEF Wanted, Queued
    <3> QED  BY <2>3, <3>1, <3>2, <3>3 DEF Followed, NoSignalLost, FailureLeavesSignals, Coming
  <2> QED  BY <2>1, <2>2, <2>3
<1> QED  BY <1>1, <1>2, <1>3, <1>4

\* An attempt ends by a fresh look at the intent, or it fails and leaves the
\* signals where they are.
LEMMA EndIsFollowed ==
    ASSUME Followed, pc \in Places, NEW result, EndAttempt(result),
           \/ result.tag = "interrupted"
           \/ UNCHANGED <<intent, calling, signals>>
    PROVE  Followed'
<1>1. pc' = "closing" /\ outcome' = result
  BY DEF EndAttempt
<1>2. CASE result.tag = "interrupted"
  BY <1>1, <1>2 DEF Followed, NoSignalLost, FailureLeavesSignals
<1>3. CASE UNCHANGED <<intent, calling, signals>>
  <2>1. (Wanted' <=> Wanted) /\ calling' = calling /\ Queued' = Queued
    BY <1>3 DEF Wanted, Queued
  <2> QED  BY <1>1, <2>1 DEF Followed, NoSignalLost, FailureLeavesSignals, Coming, Places
<1> QED  BY <1>2, <1>3

\* A signal that an attempt takes and goes on after is not one that ends it.
LEMMA TakingIsFollowed ==
    ASSUME TypeOK, Followed, pc \in Places, signals # <<>>, ~Ends(Head(signals)),
           signals' = Tail(signals), UNCHANGED <<intent, calling, pc>>
    PROVE  Followed'
<1>1. Queued \subseteq Queued' \cup {Head(signals)}
  <2>1. signals \in Seq(Signals)
    BY DEF TypeOK
  <2>2. {signals[i] : i \in DOMAIN signals}
          \subseteq {signals'[i] : i \in DOMAIN signals'} \cup {Head(signals)}
    BY <2>1, QueueShrinks, ZenonT(60)
  <2> QED  BY <2>2 DEF Queued
<1>2. (Wanted' <=> Wanted) /\ calling' = calling
  BY DEF Wanted
<1> QED  BY <1>1, <1>2 DEF Followed, NoSignalLost, FailureLeavesSignals, Coming, Places

\* An attempt that is being established, or has been, ends or loses no signal
\* that would end it.
LEMMA AttemptIsFollowed ==
    ASSUME TypeOK, Held, Followed,
           \/ Progress \/ TakeWhileEstablishing \/ EndEstablishment \/ TakeWhileConnected
           \/ EndProbe \/ SessionClosed \/ TransportDies \/ PrepareReplacement
           \/ ReplacementFails \/ ReplacementGivesUp \/ ReplacementReady \/ ClosePrevious
    PROVE  Followed'
<1> USE DEF ConnectedUnchanged, callVars, Places
<1>1. UNCHANGED <<intent, calling>> /\ pc \in Places
  BY DEF Progress, TakeWhileEstablishing, EndEstablishment, EstablishmentFails, Established,
     TakeWhileConnected, EndProbe, ProbeSucceeds, ProbeFails, SessionClosed, TransportDies,
     PrepareReplacement, ReplacementFails, ReplacementGivesUp, ReplacementReady, ClosePrevious
<1>2. CASE TakeWhileEstablishing \/ TakeWhileConnected
  <2>1. signals # <<>> /\ signals' = Tail(signals)
    BY <1>2 DEF TakeWhileEstablishing, TakeWhileConnected
  <2>2. CASE ~Ends(Head(signals))
    BY <1>1, <1>2, <2>1, <2>2, TakingIsFollowed
       DEF TakeWhileEstablishing, TakeWhileConnected
  <2>3. CASE Ends(Head(signals))
    <3>1. PICK e \in BOOLEAN : EndAttempt(Interrupted(e, Head(signals) = "reconnect"))
      BY <1>2, <2>3 DEF TakeWhileEstablishing, TakeWhileConnected
    <3> QED  BY <1>1, <3>1, TakenResult, EndIsFollowed
  <2> QED  BY <2>2, <2>3
<1>3. ASSUME NEW result, EndAttempt(result), UNCHANGED signals
      PROVE  Followed'
  BY <1>1, <1>3, EndIsFollowed
<1>4. ASSUME pc' \in Places, UNCHANGED signals
      PROVE  Followed'
  <2>1. (Wanted' <=> Wanted) /\ calling' = calling /\ Queued' = Queued
    BY <1>1, <1>4 DEF Wanted, Queued
  <2> QED  BY <1>1, <1>4, <2>1 DEF Followed, NoSignalLost, FailureLeavesSignals, Coming
<1>5. CASE Progress \/ EndEstablishment
  <2>1. UNCHANGED signals /\ (pc' \in Places \/ \E result : EndAttempt(result))
    BY <1>1, <1>5 DEF Progress, EndEstablishment, EstablishmentFails, Established
  <2> QED  BY <1>3, <1>4, <2>1
<1>6. CASE \/ EndProbe \/ SessionClosed \/ TransportDies \/ PrepareReplacement
           \/ ReplacementFails \/ ReplacementGivesUp \/ ReplacementReady \/ ClosePrevious
  <2>1. UNCHANGED signals /\ (pc' \in Places \/ \E result : EndAttempt(result))
    BY <1>1, <1>6 DEF EndProbe, ProbeSucceeds, ProbeFails, SessionClosed, TransportDies,
       PrepareReplacement, ReplacementFails, ReplacementGivesUp, ReplacementReady, ClosePrevious
  <2> QED  BY <1>3, <1>4, <2>1
<1> QED  BY <1>2, <1>5, <1>6
-----------------------------------------------------------------------------
(* Theorems.                                                                *)

\* The invariant holds of every state.
THEOREM SupervisorInvariant == Spec => []IInv
<1>1. Init => IInv
  <2> SUFFICES ASSUME Init PROVE IInv
    OBVIOUS
  <2>1. resetRetryState = FALSE
    BY DEF Init
  <2>2. wakeProbeFailed = FALSE
    BY DEF Init
  <2>3. probe = FALSE
    BY DEF Init
  <2>4. dead = FALSE
    BY DEF Init
  <2>5. resetRetryState \in BOOLEAN
    BY ONLY <2>1, Zenon
  <2>6. wakeProbeFailed \in BOOLEAN
    BY ONLY <2>2, Zenon
  <2>7. probe \in BOOLEAN
    BY ONLY <2>3, Zenon
  <2>8. dead \in BOOLEAN
    BY ONLY <2>4, Zenon
  <2>9. signals \in Seq(Signals)
    BY EmptySeq DEF Init
  <2>10. TypeOK
    BY <2>5, <2>6, <2>7, <2>8, <2>9, SupervisorAssumption DEF Init, TypeOK
  <2>11. LeasesOwned /\ LeaseRoles /\ Generations /\ NoSignalLost /\ FailureLeavesSignals
    BY DEF Init, LeasesOwned, LeaseRoles, Generations, NoSignalLost, FailureLeavesSignals
  <2> QED  BY <2>10, <2>11 DEF IInv
<1>2. IInv /\ [Next]_vars => IInv'
  <2> SUFFICES ASSUME IInv, [Next]_vars
               PROVE  IInv'
    OBVIOUS
  <2> USE DEF IInv, Held, Followed
  <2>1. CASE Callers \/ \E signal \in calling : QueueSignal(signal)
    BY <2>1, CallsKeepTypes, CallsKeepLeases, CallsAreFollowed
  <2>2. CASE TopOfLoop \/ TakeWhileIdle \/ RetryDelayPasses \/ Conclude
    BY <2>2, LoopKeepsTypes, LoopKeepsLeases, LoopIsFollowed
  <2>3. CASE Progress \/ TakeWhileEstablishing \/ EndEstablishment
    BY <2>3, EstablishingKeepsTypes, EstablishingKeepsLeases, AttemptIsFollowed
  <2>4. CASE \/ TakeWhileConnected \/ EndProbe \/ SessionClosed \/ TransportDies
             \/ PrepareReplacement \/ ReplacementFails \/ ReplacementGivesUp
             \/ ReplacementReady \/ ClosePrevious
    <3>1. TypeOK'
      BY <2>4, TakeConnectedKeepsTypes, ConnectedEndKeepsTypes, ConnectedKeepsTypes DEF EndProbe
    <3> QED  BY <2>4, <3>1, ConnectedKeepsLeases, AttemptIsFollowed
  <2>5. CASE UNCHANGED vars
    <3> USE <2>5 DEF vars, callVars, publishedVars, leaseVars, fiberVars, loopVars, budgetVars
    <3>1. TypeOK'
      BY DEF TypeOK
    <3>2. Held'
      BY DEF LeasesOwned, LeaseRoles, Generations
    <3>3. Followed'
      BY DEF NoSignalLost, FailureLeavesSignals, Coming, Queued, Wanted
    <3> QED  BY <3>1, <3>2, <3>3
  <2> QED  BY <2>1, <2>2, <2>3, <2>4, <2>5 DEF Next, TakeSignal
<1> QED  BY <1>1, <1>2, PTL DEF Spec

\* Every variable keeps its type.
THEOREM SupervisorTypes == Spec => []TypeOK
<1>1. IInv => TypeOK
  BY DEF IInv
<1> QED  BY <1>1, SupervisorInvariant, PTL

\* A published session is that of the active lease in an open scope, and no scope
\* is left open that the loop could not close.
THEOREM LeasesAlwaysOwned == Spec => []LeasesOwned
<1>1. IInv => LeasesOwned
  BY DEF IInv
<1> QED  BY <1>1, SupervisorInvariant, PTL

\* No change of the intent is forgotten: a wait or a session that no longer fits
\* it has a signal that ends it queued, or about to be.
THEOREM NoSignalIsLost == Spec => []NoSignalLost
<1>1. IInv => NoSignalLost
  BY DEF IInv
<1> QED  BY <1>1, SupervisorInvariant, PTL

-----------------------------------------------------------------------------
(* The promise to the state modules of the client.                          *)

\* The values EnvironmentSession sees.
PublishedSession == IF session = NoLease THEN 0 ELSE activeGeneration
LastPublished == IF SessionPublished THEN activeGeneration ELSE generation

\* A step that changes neither the session nor the generation is one of the
\* surroundings.
LEMMA SurroundingStep ==
    ASSUME PublishedSession' = PublishedSession, LastPublished' = LastPublished
    PROVE  Promise!Next
<1>1. Wanted' \in BOOLEAN /\ (phase = "blocked")' \in BOOLEAN
  BY DEF Wanted
<1> QED  BY <1>1 DEF Promise!Next, Promise!Surroundings, PublishedSession, LastPublished

\* The end of an attempt takes its session away, if it had one.
LEMMA EndStep ==
    ASSUME TypeOK, Held, pc \in Places, NEW result, EndAttempt(result),
           result.established = (pc # "establishing"),
           UNCHANGED <<intent, phase, generation, activeGeneration>>
    PROVE  Promise!Next
<1>1. PublishedSession' = 0 /\ LastPublished' = LastPublished
  BY SupervisorAssumption DEF EndAttempt, ClearLease, PublishedSession, LastPublished,
     SessionPublished, Places
<1>2. CASE pc = "establishing"
  <2>1. PublishedSession = 0
    BY <1>2 DEF PublishedSession, Held, LeaseRoles
  <2> QED  BY <1>1, <2>1, SurroundingStep
<1>3. CASE pc # "establishing"
  <2>1. PublishedSession # 0
    <3>1. generation \in Nat /\ activeGeneration \in Nat /\ activeGeneration > generation
      BY <1>3 DEF Held, Generations, Places, TypeOK
    <3>2. session \in Leases
      BY <1>3 DEF Held, LeaseRoles, Places
    <3> QED  BY <3>1, <3>2, SupervisorAssumption DEF PublishedSession
  <2>2. (Wanted' <=> Wanted) /\ phase' = phase
    BY DEF Wanted
  <2> QED  BY <1>1, <2>1, <2>2
           DEF Promise!Next, Promise!Drop, PublishedSession, LastPublished, Wanted
<1> QED  BY <1>2, <1>3
\* Between attempts nothing is published, and what the loop counts is the
\* generation of the last session.
LEMMA LoopImplements ==
    ASSUME TypeOK, Held, TopOfLoop \/ TakeWhileIdle \/ RetryDelayPasses \/ Conclude
    PROVE  Promise!Next
<1>1. session = NoLease /\ session' = NoLease
  BY DEF Held, LeaseRoles, TopOfLoop, TakeWhileIdle, RetryDelayPasses, Conclude, ClearLease,
     publishedVars
<1>2. LastPublished' = LastPublished
  <2>1. CASE Conclude
    <3>1. ~SessionPublished'
      BY <2>1 DEF Conclude, SessionPublished
    <3> QED  BY <2>1, <3>1 DEF Conclude, LastPublished, SessionPublished
  <2>2. CASE TopOfLoop \/ TakeWhileIdle \/ RetryDelayPasses
    <3>1. /\ pc \in {"top", "idle"} /\ pc' \in {"top", "idle", "establishing"}
          /\ generation' = generation
      BY <2>2 DEF TopOfLoop, TakeWhileIdle, RetryDelayPasses, loopVars
    <3> QED  BY <3>1 DEF LastPublished, SessionPublished
  <2> QED  BY <2>1, <2>2
<1> QED  BY <1>1, <1>2, SurroundingStep DEF PublishedSession

\* An attempt that goes on publishes the session it is about, and a new one only
\* while it is wanted.
LEMMA AttemptImplements ==
    ASSUME TypeOK, Held,
           \/ Progress \/ TakeWhileEstablishing \/ EndEstablishment \/ TakeWhileConnected
           \/ EndProbe \/ SessionClosed \/ TransportDies \/ PrepareReplacement
           \/ ReplacementFails \/ ReplacementGivesUp \/ ReplacementReady \/ ClosePrevious
    PROVE  Promise!Next
<1> USE DEF ConnectedUnchanged, callVars, publishedVars, leaseVars, loopVars
<1>1. ASSUME NEW result, EndAttempt(result), pc \in Places,
             result.established = (pc # "establishing"),
             UNCHANGED <<intent, phase, generation, activeGeneration>>
      PROVE  Promise!Next
  BY <1>1, EndStep
<1>2. ASSUME pc \in Places, pc' \in Places, (pc = "establishing") <=> (pc' = "establishing"),
             UNCHANGED <<session, generation, activeGeneration>>
      PROVE  Promise!Next
  BY <1>2, SurroundingStep DEF PublishedSession, LastPublished, SessionPublished, Places
<1>3. CASE Progress
  BY <1>2, <1>3 DEF Progress, Places
<1>4. CASE TakeWhileEstablishing
  <2>1. CASE Ends(Head(signals))
    <3>1. EndAttempt(Interrupted(FALSE, Head(signals) = "reconnect"))
      BY <1>4, <2>1 DEF TakeWhileEstablishing
    <3>2. Interrupted(FALSE, Head(signals) = "reconnect").established = FALSE
      BY TakenResult
    <3>3. pc = "establishing" /\ UNCHANGED <<intent, phase, generation, activeGeneration>>
      BY <1>4 DEF TakeWhileEstablishing
    <3> QED  BY <1>1, <3>1, <3>2, <3>3 DEF Places
  <2>2. CASE ~Ends(Head(signals))
    BY <1>2, <1>4, <2>2 DEF TakeWhileEstablishing, Places
  <2> QED  BY <2>1, <2>2
<1>5. CASE EstablishmentFails
  <2>1. PICK error \in Errors : EndAttempt(Failure(FALSE, error))
    BY <1>5 DEF EstablishmentFails
  <2>2. Failure(FALSE, error).established = FALSE
    BY ResultTypes
  <2> QED  BY <1>1, <1>5, <2>1, <2>2 DEF EstablishmentFails, Places
<1>6. CASE Established
  <2>1. CASE ~Wanted
    <3>1. EndAttempt(Interrupted(FALSE, FALSE)) /\ UNCHANGED phase
      BY <1>6, <2>1 DEF Established
    <3>2. Interrupted(FALSE, FALSE).established = FALSE
      BY ResultTypes
    <3>3. pc = "establishing" /\ UNCHANGED <<intent, generation, activeGeneration>>
      BY <1>6 DEF Established
    <3> QED  BY <1>1, <3>1, <3>2, <3>3 DEF Places
  <2>2. CASE Wanted
    <3>1. /\ pc = "establishing" /\ pc' = "connected" /\ session' = candidate
          /\ phase' = "connected" /\ UNCHANGED <<intent, generation, activeGeneration>>
      BY <1>6, <2>2 DEF Established
    <3>2. candidate # NoLease /\ phase = "connecting" /\ activeGeneration = generation + 1
      BY <3>1, SupervisorAssumption DEF Held, LeaseRoles, Generations
    <3>3. LastPublished = generation /\ LastPublished' = activeGeneration
          /\ PublishedSession' = activeGeneration
      BY <3>1, <3>2 DEF LastPublished, PublishedSession, SessionPublished
    <3>4. (Wanted' <=> Wanted) /\ ((phase = "blocked")' <=> (phase = "blocked"))
      BY <3>1, <3>2 DEF Wanted
    <3> QED  BY <2>2, <3>2, <3>3, <3>4
             DEF Promise!Next, Promise!Publish, PublishedSession, LastPublished, Wanted
  <2> QED  BY <2>1, <2>2
<1>7. CASE TakeWhileConnected
  <2>1. CASE Ends(Head(signals))
    <3>1. EndAttempt(Interrupted(TRUE, Head(signals) = "reconnect"))
      BY <1>7, <2>1 DEF TakeWhileConnected
    <3>2. Interrupted(TRUE, Head(signals) = "reconnect").established = TRUE
      BY TakenResult
    <3>3. pc = "connected" /\ UNCHANGED <<intent, phase, generation, activeGeneration>>
      BY <1>7 DEF TakeWhileConnected
    <3> QED  BY <1>1, <3>1, <3>2, <3>3 DEF Places
  <2>2. CASE ~Ends(Head(signals))
    BY <1>2, <1>7, <2>2 DEF TakeWhileConnected, Places
  <2> QED  BY <2>1, <2>2
<1>8. CASE ProbeFails \/ SessionClosed
  <2>1. PICK error \in Errors : EndAttempt(Failure(TRUE, error))
    BY <1>8 DEF ProbeFails, SessionClosed
  <2>2. Failure(TRUE, error).established = TRUE
    BY ResultTypes
  <2>3. pc = "connected" /\ UNCHANGED <<intent, phase, generation, activeGeneration>>
    BY <1>8 DEF ProbeFails, SessionClosed
  <2> QED  BY <1>1, <2>1, <2>2, <2>3 DEF Places
<1>9. CASE ReplacementGivesUp
  <2>1. PICK result : EndAttempt(result) /\ result \in {Failure(TRUE, "blocked"), Interrupted(TRUE, TRUE)}
    BY <1>9 DEF ReplacementGivesUp
  <2>2. result.established = TRUE
    BY <2>1, ResultTypes DEF Errors
  <2>3. pc = "connected" /\ UNCHANGED <<intent, phase, generation, activeGeneration>>
    BY <1>9 DEF ReplacementGivesUp
  <2> QED  BY <1>1, <2>1, <2>2, <2>3 DEF Places
<1>10. CASE ReplacementReady
  <2>1. CASE ~Wanted
    <3>1. EndAttempt(Interrupted(TRUE, FALSE)) /\ UNCHANGED <<phase, activeGeneration>>
      BY <1>10, <2>1 DEF ReplacementReady
    <3>2. Interrupted(TRUE, FALSE).established = TRUE
      BY ResultTypes
    <3>3. pc = "connected" /\ UNCHANGED <<intent, generation>>
      BY <1>10 DEF ReplacementReady
    <3> QED  BY <1>1, <3>1, <3>2, <3>3 DEF Places
  <2>2. CASE Wanted
    <3>1. /\ pc = "connected" /\ pc' = "swapping" /\ session' = candidate
          /\ refresh = "preparing" /\ phase' = "connected"
          /\ activeGeneration' = activeGeneration + 1 /\ UNCHANGED intent
      BY <1>10, <2>2 DEF ReplacementReady
    <3>2. candidate # NoLease /\ phase = "connected"
      BY <3>1 DEF Held, LeaseRoles, Generations
    <3>3. LastPublished = activeGeneration /\ LastPublished' = activeGeneration + 1
          /\ PublishedSession' = activeGeneration + 1
      BY <3>1, <3>2 DEF LastPublished, PublishedSession, SessionPublished
    <3>4. (Wanted' <=> Wanted) /\ ((phase = "blocked")' <=> (phase = "blocked"))
      BY <3>1, <3>2 DEF Wanted
    <3> QED  BY <2>2, <3>3, <3>4
             DEF Promise!Next, Promise!Publish, PublishedSession, LastPublished, Wanted
  <2> QED  BY <2>1, <2>2
<1>11. CASE ProbeSucceeds \/ TransportDies \/ PrepareReplacement \/ ReplacementFails \/ ClosePrevious
  BY <1>2, <1>11 DEF ProbeSucceeds, TransportDies, PrepareReplacement, ReplacementFails,
     ClosePrevious, Places
<1> QED  BY <1>3, <1>4, <1>5, <1>6, <1>7, <1>8, <1>9, <1>10, <1>11 DEF EndEstablishment, EndProbe

\* Every step of the supervisor is one EnvironmentSession promises: a session is
\* published only while it is wanted, each with the next generation, and none
\* comes back.  (That one does appear, and does go, is left to TLC.)
THEOREM SupervisorKeepsItsPromise == Spec => Promise!Init /\ [][Promise!Next]_(Promise!vars)
<1>1. Init => Promise!Init
  <2> SUFFICES ASSUME Init PROVE Promise!Init
    OBVIOUS
  <2>1. PublishedSession = 0 /\ LastPublished = 0
    BY DEF Init, PublishedSession, LastPublished, SessionPublished
  <2>2. Wanted \in BOOLEAN /\ phase # "blocked"
    BY DEF Init, Wanted
  <2> QED  BY <2>1, <2>2 DEF Promise!Init, PublishedSession, LastPublished
<1>2. IInv /\ [Next]_vars => [Promise!Next]_(Promise!vars)
  <2> SUFFICES ASSUME IInv, [Next]_vars
               PROVE  [Promise!Next]_(Promise!vars)
    OBVIOUS
  <2> USE DEF IInv, Held
  <2>1. CASE Callers \/ \E signal \in calling : QueueSignal(signal)
    <3>1. SupervisorUnchanged
      BY <2>1 DEF Callers, Connect, Disconnect, RetryNow, NetworkChanges, Wakeup,
         QueueSignal, Call
    <3> QED  BY <3>1, SurroundingStep DEF SupervisorUnchanged, publishedVars, loopVars,
             PublishedSession, LastPublished, SessionPublished
  <2>2. CASE TopOfLoop \/ TakeWhileIdle \/ RetryDelayPasses \/ Conclude
    BY <2>2, LoopImplements
  <2>3. CASE \/ Progress \/ TakeWhileEstablishing \/ EndEstablishment \/ TakeWhileConnected
             \/ EndProbe \/ SessionClosed \/ TransportDies \/ PrepareReplacement
             \/ ReplacementFails \/ ReplacementGivesUp \/ ReplacementReady \/ ClosePrevious
    BY <2>3, AttemptImplements
  <2>4. CASE UNCHANGED vars
    BY <2>4 DEF vars, callVars, publishedVars, loopVars, Promise!vars, SessionPublished, Wanted
  <2> QED  BY <2>1, <2>2, <2>3, <2>4 DEF Next, TakeSignal
<1> QED  BY <1>1, <1>2, SupervisorInvariant, PTL DEF Spec
=============================================================================
