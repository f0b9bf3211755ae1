----------------------- MODULE ThreadLifecycle_proofs -----------------------
(***************************************************************************)
(* TLAPS proofs about ThreadLifecycle, for every set of requests, every    *)
(* activity window and every value of the bounds.                          *)
(***************************************************************************)
EXTENDS ThreadLifecycle, SequenceTheorems, FiniteSetTheorems, TLAPS

\* A settled thread is never pinned: pinning ends a settlement, settling ends a
\* pin, and nothing else makes a thread settled or pinned.
THEOREM SettledNeverPinned == Spec => []PinnedNotSettled
<1>1. Init => PinnedNotSettled
  BY DEF Init, PinnedNotSettled
<1>2. PinnedNotSettled /\ [Next]_vars => PinnedNotSettled'
  <2> SUFFICES ASSUME PinnedNotSettled, [Next]_vars PROVE PinnedNotSettled'
    OBVIOUS
  <2> USE DEF PinnedNotSettled, Commit, status
  <2>1. CASE Pin
    BY <2>1 DEF Pin
  <2>2. CASE Settle \/ AutoSettle
    BY <2>2 DEF Settle, AutoSettle, BecomeSettled
  <2>3. CASE Unsettle
    BY <2>3 DEF Unsettle
  <2>4. CASE UNCHANGED vars
    BY <2>4 DEF vars
  <2>5. CASE Archive \/ Unarchive \/ Snooze \/ Unsnooze \/ Unpin \/ StopSession
    BY <2>5 DEF Archive, Unarchive, Snooze, Unsnooze, Unpin, StopSession
  <2>6. CASE StartTurn \/ \E q \in Questions : AnswerQuestion(q)
    BY <2>6 DEF StartTurn, AnswerQuestion, ReEngage, WakeIf
  <2>7. CASE OtherActivity \/ \E r \in Requests : CloseRequest(r)
    BY <2>7 DEF OtherActivity, CloseRequest
  <2>8. CASE \E r \in Approvals \cup Questions : Ask(r)
    BY <2>8 DEF Ask, Open, WakeIf
  <2>9. CASE \E r \in Offers : OfferFallback(r) \/ OfferAfterFailure(r)
    BY <2>9 DEF OfferFallback, OfferAfterFailure, Open, WakeIf
  <2>10. CASE \E s \in Statuses \ {"none"} : SetSession(s)
    BY <2>10 DEF SetSession, BecomeSession, WakeIf
  <2>11. CASE ProcessStop \/ TurnStartFails
    BY <2>11 DEF ProcessStop, TurnStartFails, BecomeSession, WakeIf
  <2>12. CASE ProcessTurn
    BY <2>12 DEF ProcessTurn, BecomeSession, WakeIf
  <2>13. CASE MessageAgesOut \/ TakeSnapshot \/ SweepEnds \/ ProcessSettled \/ StopFails
    BY <2>13 DEF MessageAgesOut, TakeSnapshot, SweepEnds, ProcessSettled, StopFails
  <2>14. CASE AttemptEnds \/ Restart
    BY <2>14 DEF AttemptEnds, Restart
  <2> QED
    BY <2>1, <2>2, <2>3, <2>4, <2>5, <2>6, <2>7, <2>8, <2>9, <2>10, <2>11, <2>12, <2>13, <2>14
       DEF Next
<1> QED
  BY <1>1, <1>2, PTL DEF Spec

-----------------------------------------------------------------------------
(* The late clean-up stop.  A step does one of three things to the inbox:  *)
(* it leaves it alone, it adds events to its end, or it takes the first.   *)

\* The sequence of the thread only grows.
Later == version' \in Nat /\ version' >= version

\* Nobody becomes settled by a step that keeps the time of the settlement.
NotNewlySettled ==
    /\ settledVersion' = settledVersion
    /\ override' = "settled" => override = "settled"

\* Everything said about the inbox in one sequence range holds in a later one.
LEMMA IntentGrows ==
    ASSUME version \in Nat, Later, NEW e \in Intent PROVE e \in Intent'
BY DEF Intent, Later

\* A step that leaves the inbox alone, and the provider's turn or ends it.
LEMMA InboxKept ==
    ASSUME IInv, Later, NotNewlySettled, inbox' = inbox, liveTurn' \in {liveTurn, 0}
    PROVE  IInv'
<1> USE DEF IInv, Timeline, Later, NotNewlySettled
<1>1. inbox \in Seq(Intent')
  BY IntentGrows
<1>2. Timeline'
  BY <1>1
<1>3. TurnsPrecedeSettlement'
  BY DEF TurnsPrecedeSettlement
<1>4. TurnsPrecedeStops'
  BY DEF TurnsPrecedeStops, Intent, ByUser
<1> QED
  BY <1>2, <1>3, <1>4

\* A step that takes the first event and does nothing about turns, or gives
\* the provider the turn that event asks for.
LEMMA InboxTaken ==
    ASSUME IInv, Later, NotNewlySettled, inbox # <<>>, inbox' = Tail(inbox),
           \/ liveTurn' \in {liveTurn, 0}
           \/ Head(inbox).kind = "turn" /\ liveTurn' = Head(inbox).at
    PROVE  IInv'
<1> USE DEF IInv, Timeline, Later, NotNewlySettled
<1>1. /\ inbox[1] = Head(inbox) /\ Head(inbox) \in Intent /\ 1 \in DOMAIN inbox
      /\ Len(inbox') = Len(inbox) - 1
      /\ \A i \in DOMAIN inbox' : inbox'[i] = inbox[i + 1] /\ i + 1 \in DOMAIN inbox
  OBVIOUS
<1>2. Timeline'
  <2>1. inbox' \in Seq(Intent')
    BY IntentGrows
  <2>2. Head(inbox).kind = "turn" => Head(inbox).at \in 0..version
    BY <1>1 DEF Intent
  <2> QED
    BY <2>1, <2>2
<1>3. TurnsPrecedeSettlement'
  BY <1>1 DEF TurnsPrecedeSettlement, Intent
<1>4. TurnsPrecedeStops'
  <2> SUFFICES ASSUME NEW i \in DOMAIN inbox', inbox'[i].kind = "stop", inbox'[i].settlement # ByUser
               PROVE  /\ liveTurn' < inbox'[i].settlement
                      /\ \A j \in 1..(i - 1) :
                            inbox'[j].kind = "turn" => inbox'[j].at < inbox'[i].settlement
    BY DEF TurnsPrecedeStops
  <2>1. /\ liveTurn < inbox'[i].settlement
        /\ \A j \in 1..i : inbox[j].kind = "turn" => inbox[j].at < inbox'[i].settlement
    BY <1>1 DEF TurnsPrecedeStops
  <2>2. inbox'[i] \in Intent /\ inbox'[i].settlement \in Int
    BY <1>1 DEF Intent, ByUser
  <2>3. i \in Nat \ {0} /\ \A j \in 1..(i - 1) : j + 1 \in 1..i /\ inbox'[j] = inbox[j + 1]
    BY <1>1
  <2>4. \A j \in 1..(i - 1) : inbox'[j].kind = "turn" => inbox'[j].at < inbox'[i].settlement
    BY <2>1, <2>3
  <2>5. liveTurn' < inbox'[i].settlement
    BY <1>1, <2>1, <2>2, <2>3
  <2> QED
    BY <2>4, <2>5
<1> QED
  BY <1>2, <1>3, <1>4

\* A step that adds an event the clean-up has nothing to do with: a turn, which
\* ends a settlement; a settlement, which is later than every turn; or the stop
\* a user asked for.
LEMMA InboxTold ==
    ASSUME IInv, version' = version + 1, liveTurn' = liveTurn,
           NEW e \in Intent', inbox' = inbox \o <<e>>,
           e.kind = "stop" => e.settlement = ByUser,
           \/ NotNewlySettled /\ (e.kind = "turn" => override' # "settled")
           \/ settledVersion' = version' /\ e.kind = "settled"
    PROVE  IInv'
<1> USE DEF IInv, Timeline, NotNewlySettled
<1>1. /\ Len(inbox') = Len(inbox) + 1
      /\ \A i \in DOMAIN inbox : inbox'[i] = inbox[i] /\ inbox[i] \in Intent
      /\ inbox'[Len(inbox) + 1] = e
      /\ DOMAIN inbox' = 1..(Len(inbox) + 1) /\ DOMAIN inbox = 1..Len(inbox)
  OBVIOUS
<1>2. Timeline'
  <2>1. inbox \in Seq(Intent')
    BY IntentGrows DEF Later
  <2> QED
    BY <2>1
<1>3. TurnsPrecedeSettlement'
  BY <1>1, SMTT(30) DEF TurnsPrecedeSettlement, Intent
<1>4. TurnsPrecedeStops'
  BY <1>1 DEF TurnsPrecedeStops
<1> QED
  BY <1>2, <1>3, <1>4

\* The reactor turns the first event into the clean-up stop of a thread that is
\* still settled: every turn it knows of is older than the settlement.
LEMMA CleanUpQueued ==
    ASSUME IInv, version' = version + 1, NotNewlySettled, liveTurn' = liveTurn,
           inbox # <<>>, override = "settled",
           inbox' = Append(Tail(inbox),
                [kind |-> "stop", at |-> version', settlement |-> settledVersion])
    PROVE  IInv'
<1> DEFINE e == [kind |-> "stop", at |-> version', settlement |-> settledVersion]
<1> USE DEF IInv, Timeline, NotNewlySettled
<1>1. e \in Intent' /\ e.kind = "stop" /\ e.settlement = settledVersion
  BY DEF Intent
<1> HIDE DEF e
<1>2. inbox' = Append(Tail(inbox), e)
  BY DEF e
<1>3. /\ Len(inbox') = Len(inbox) /\ Len(inbox) \in Nat \ {0}
      /\ \A i \in 1..(Len(inbox) - 1) :
            inbox'[i] = inbox[i + 1] /\ i + 1 \in DOMAIN inbox /\ inbox[i + 1] \in Intent
      /\ inbox'[Len(inbox)] = e
      /\ DOMAIN inbox' = 1..Len(inbox)
  BY <1>2
<1>4. Timeline'
  <2>1. Tail(inbox) \in Seq(Intent')
    BY IntentGrows DEF Later
  <2> QED
    BY <1>1, <1>2, <2>1
<1>5. TurnsPrecedeSettlement'
  BY <1>1, <1>3 DEF TurnsPrecedeSettlement
<1>6. TurnsPrecedeStops'
  <2>1. ASSUME NEW i \in 1..(Len(inbox) - 1), inbox'[i].kind = "stop",
               inbox'[i].settlement # ByUser
        PROVE  /\ liveTurn < inbox'[i].settlement
               /\ \A j \in 1..(i - 1) :
                    inbox'[j].kind = "turn" => inbox'[j].at < inbox'[i].settlement
    <3>1. \A j \in 1..(i - 1) : j + 1 \in 1..i /\ inbox'[j] = inbox[j + 1]
      <4>1. Len(inbox) \in Nat /\ i \in Int /\ i <= Len(inbox) - 1
        BY <1>3
      <4>2. \A j \in 1..(i - 1) : j \in 1..(Len(inbox) - 1) /\ j + 1 \in 1..i
        BY <4>1
      <4> QED
        BY <1>3, <4>2
    <3>2. inbox'[i] = inbox[i + 1] /\ i + 1 \in DOMAIN inbox /\ (i + 1) - 1 = i
      BY <1>3
    <3> QED
      BY <2>1, <3>1, <3>2 DEF TurnsPrecedeStops
  <2>2. /\ liveTurn < settledVersion
        /\ \A j \in 1..(Len(inbox) - 1) : inbox'[j].kind = "turn" => inbox'[j].at < settledVersion
    BY <1>3 DEF TurnsPrecedeSettlement
  <2> SUFFICES ASSUME NEW i \in DOMAIN inbox', inbox'[i].kind = "stop",
                      inbox'[i].settlement # ByUser
               PROVE  /\ liveTurn' < inbox'[i].settlement
                      /\ \A j \in 1..(i - 1) :
                            inbox'[j].kind = "turn" => inbox'[j].at < inbox'[i].settlement
    BY DEF TurnsPrecedeStops
  <2>3. CASE i = Len(inbox)
    BY <1>1, <1>3, <2>2, <2>3
  <2>4. CASE i # Len(inbox)
    <3>1. i \in 1..(Len(inbox) - 1)
      BY <1>3, <2>4
    <3> QED
      BY <2>1, <3>1
  <2> QED
    BY <2>3, <2>4
<1> QED
  BY <1>4, <1>5, <1>6

\* Every step preserves the timeline of turns, settlements and stops.
LEMMA TimelinePreserved == IInv /\ [Next]_vars => IInv'
<1> SUFFICES ASSUME IInv, [Next]_vars PROVE IInv'
  OBVIOUS
<1> USE DEF Commit, status, message, requests, reactors
<1>0. version \in Nat /\ inbox \in Seq(Intent)
  BY DEF IInv, Timeline
<1>1. CASE UNCHANGED vars
  BY <1>0, <1>1, InboxKept DEF vars, Later, NotNewlySettled
<1>2. CASE Archive \/ Unarchive \/ Snooze \/ Unsnooze \/ Unpin \/ Unsettle \/ Pin
  BY <1>0, <1>2, InboxKept
     DEF Archive, Unarchive, Snooze, Unsnooze, Unpin, Unsettle, Pin, Later, NotNewlySettled
<1>3. CASE OtherActivity \/ \E r \in Requests : CloseRequest(r)
  BY <1>0, <1>3, InboxKept DEF OtherActivity, CloseRequest, Later, NotNewlySettled
<1>4. CASE \E r \in Approvals \cup Questions : Ask(r)
  BY <1>0, <1>4, InboxKept DEF Ask, Open, WakeIf, Later, NotNewlySettled
<1>5. CASE \E s \in Statuses \ {"none"} : SetSession(s)
  BY <1>0, <1>5, InboxKept DEF SetSession, BecomeSession, WakeIf, Later, NotNewlySettled
<1>6. CASE MessageAgesOut \/ TakeSnapshot \/ SweepEnds \/ AttemptEnds
  BY <1>0, <1>6, InboxKept
     DEF MessageAgesOut, TakeSnapshot, SweepEnds, AttemptEnds, Later, NotNewlySettled
<1>7. CASE \E r \in Offers : OfferAfterFailure(r)
  BY <1>0, <1>7, InboxKept DEF OfferAfterFailure, Open, WakeIf, Later, NotNewlySettled
<1>8. CASE Settle \/ AutoSettle
  <2> DEFINE e == [kind |-> "settled", at |-> version']
  <2>1. version' = version + 1 /\ liveTurn' = liveTurn /\ inbox' = inbox \o <<e>>
        /\ settledVersion' = version'
    BY <1>8 DEF Settle, AutoSettle, BecomeSettled, Tell
  <2>2. e \in Intent' /\ e.kind = "settled"
    BY <1>0, <2>1 DEF Intent
  <2> HIDE DEF e
  <2> QED
    BY <2>1, <2>2, InboxTold
<1>9. CASE StartTurn \/ \E q \in Questions : AnswerQuestion(q)
  <2> DEFINE e == [kind |-> "turn", at |-> version']
  <2>1. version' = version + 1 /\ liveTurn' = liveTurn /\ inbox' = inbox \o <<e>>
        /\ settledVersion' = settledVersion /\ override' = "none"
    BY <1>9 DEF StartTurn, AnswerQuestion, ReEngage, WakeIf, Tell
  <2>2. e \in Intent' /\ e.kind = "turn"
    BY <1>0, <2>1 DEF Intent
  <2> HIDE DEF e
  <2> QED
    BY <2>1, <2>2, InboxTold DEF NotNewlySettled
<1>10. CASE StopSession
  <2> DEFINE e == [kind |-> "stop", at |-> version', settlement |-> ByUser]
  <2>1. version' = version + 1 /\ liveTurn' = liveTurn /\ inbox' = inbox \o <<e>>
        /\ NotNewlySettled
    BY <1>10 DEF StopSession, Tell, NotNewlySettled
  <2>2. e \in Intent' /\ e.kind = "stop" /\ e.settlement = ByUser
    BY <1>0, <2>1 DEF Intent, ByUser
  <2> HIDE DEF e
  <2> QED
    BY <2>1, <2>2, InboxTold
<1>11. CASE ProcessSettled
  <2>1. inbox # <<>> /\ liveTurn' = liveTurn /\ NotNewlySettled
    BY <1>11 DEF ProcessSettled, Process, NotNewlySettled
  <2>2. CASE StillSettled /\ version' = version + 1 /\ inbox' = Append(Tail(inbox),
                [kind |-> "stop", at |-> version', settlement |-> settledVersion])
    BY <2>1, <2>2, CleanUpQueued DEF StillSettled
  <2>3. CASE version' = version /\ inbox' = Tail(inbox)
    BY <1>0, <2>1, <2>3, InboxTaken DEF Later
  <2> QED
    BY <1>11, <2>2, <2>3 DEF ProcessSettled
<1>12. CASE ProcessStop \/ StopFails \/ TurnStartFails
  <2>1. inbox # <<>> /\ inbox' = Tail(inbox) /\ liveTurn' \in {liveTurn, 0}
        /\ version' = version + 1
    BY <1>12 DEF ProcessStop, StopFails, TurnStartFails, Process
  <2>2. NotNewlySettled
    BY <1>12
       DEF ProcessStop, StopFails, TurnStartFails, BecomeSession, WakeIf, NotNewlySettled
  <2> QED
    BY <1>0, <2>1, <2>2, InboxTaken DEF Later
<1>13. CASE ProcessTurn
  BY <1>0, <1>13, InboxTaken
     DEF ProcessTurn, Process, BecomeSession, WakeIf, Later, NotNewlySettled
<1>14. CASE \E r \in Offers : OfferFallback(r)
  BY <1>0, <1>14, InboxTaken DEF OfferFallback, Process, Open, WakeIf, Later, NotNewlySettled
<1>15. CASE Restart
  BY <1>0, <1>15 DEF Restart, IInv, Timeline, TurnsPrecedeSettlement, TurnsPrecedeStops
<1> QED
  BY <1>1, <1>2, <1>3, <1>4, <1>5, <1>6, <1>7, <1>8, <1>9, <1>10, <1>11, <1>12, <1>13, <1>14,
     <1>15 DEF Next

\* The clean-up stop of a settled thread, however late it runs, never
\* interrupts a turn asked for after the settlement.
THEOREM CleanUpNeverInterruptsNewTurns == Spec => CleanUpSparesNewTurns
<1>1. Init => IInv
  BY DEF Init, IInv, Timeline, TurnsPrecedeSettlement, TurnsPrecedeStops, Intent
<1>2. IInv => ((Process("stop") /\ inbox' # inbox /\ Head(inbox).settlement # ByUser
                    /\ liveTurn # 0 /\ liveTurn' = 0 /\ restarts' = restarts)
                => liveTurn < Head(inbox).settlement)
  BY DEF IInv, Timeline, TurnsPrecedeStops, Process
<1> QED
  BY <1>1, <1>2, TimelinePreserved, PTL DEF Spec, CleanUpSparesNewTurns
-----------------------------------------------------------------------------
(* What the decider sees of the requests that wait for the user.           *)

\* While the thread has had no more events than the window retains, the window
\* pushes no activity out: no two have the same place in the log.
LEMMA AllRecent ==
    ASSUME NEW acts, NEW n \in Nat, n <= ActivityWindow,
           \A b \in acts : b.at \in 1..n,
           \A b, c \in acts : b.at = c.at => b = c,
           NEW a \in acts
    PROVE  Recent(acts, a)
<1> DEFINE later == {b \in acts : b.at > a.at}
           place == [b \in later |-> b.at]
<1>1. a.at \in 1..n
  OBVIOUS
<1>2. a.at + 1 \in Int /\ n \in Int /\ (a.at + 1 > n => n - a.at = 0)
  BY <1>1
<1>3. IsFiniteSet((a.at + 1)..n) /\ Cardinality((a.at + 1)..n) = n - a.at
  <2>1. IsFiniteSet((a.at + 1)..n)
        /\ Cardinality((a.at + 1)..n) = IF a.at + 1 > n THEN 0 ELSE n - (a.at + 1) + 1
    BY ONLY <1>2, FS_Interval
  <2>2. n - (a.at + 1) + 1 = n - a.at
    BY <1>1
  <2> QED
    BY <1>2, <2>1, <2>2
<1>4. place \in Injection(later, (a.at + 1)..n)
  BY <1>1 DEF Injection, IsInjective
<1>5. Cardinality(later) <= n - a.at
  <2> HIDE DEF later, place
  <2> QED
    BY <1>3, <1>4, FS_Injection
<1>6. IsFiniteSet(later)
  <2> HIDE DEF later, place
  <2> QED
    BY <1>3, <1>4, FS_Injection
<1>7. Cardinality(later) \in Nat
  BY <1>6, FS_CardinalityType
<1>8. Cardinality(later) < ActivityWindow
  <2> HIDE DEF later
  <2> QED
    BY <1>1, <1>5, <1>7, LifecycleAssumption
<1> QED
  BY <1>8 DEF Recent

\* A request that waits, and that the window cannot have pushed out, blocks.
LEMMA WaitingRequestBlocks ==
    ASSUME LifecycleInv, restarts = 0, NEW r \in openRequests, Kept(r)
    PROVE  HasOpenBlockingRequest
BY DEF LifecycleInv, OpenRequestsSeen, ActivitiesTrue, HasOpenBlockingRequest, OpenAtEnd

\* What is known of the requests and the activities that speak of them.
RequestsInv ==
    /\ asked \subseteq Requests /\ openRequests \subseteq asked /\ activities \subseteq Activity
    /\ ActivitiesTrue /\ OpenRequestsSeen

LEMMA RequestsKept ==
    ASSUME LifecycleInv, Later, UNCHANGED requests, restarts' = restarts
    PROVE  RequestsInv'
<1> USE DEF LifecycleInv, TypeOK, Later, requests
<1>1. Activity \subseteq Activity'
  BY DEF Activity
<1>2. (asked \subseteq Requests /\ openRequests \subseteq asked /\ activities \subseteq Activity)'
  BY <1>1
<1>3. ActivitiesTrue'
  BY DEF ActivitiesTrue
<1>4. OpenRequestsSeen'
  BY LifecycleAssumption DEF OpenRequestsSeen, Kept
<1> QED
  BY <1>2, <1>3, <1>4 DEF RequestsInv

\* An activity that opens a new request, closes one that waits, or is about
\* neither: the window that follows still shows every waiting request it must.
LEMMA RequestsAppended ==
    ASSUME LifecycleInv, version' = version + 1, restarts' = restarts,
           NEW e \in Activity', e.at = version', AppendActivity(e),
           \/ /\ e.kind = "opened" /\ e.request \notin asked
              /\ asked' = asked \cup {e.request}
              /\ openRequests' = openRequests \cup {e.request}
           \/ /\ e.kind = "closed" /\ e.request \in openRequests
              /\ asked' = asked /\ openRequests' = openRequests \ {e.request}
           \/ e.kind = "other" /\ asked' = asked /\ openRequests' = openRequests
    PROVE  RequestsInv'
<1> DEFINE acts == activities \cup {e}
<1>1. version \in Nat /\ activities \subseteq Activity /\ asked \subseteq Requests
      /\ openRequests \subseteq asked
  BY LifecycleAssumption DEF LifecycleInv, TypeOK
<1>2. Activity \subseteq Activity'
  BY <1>1 DEF Activity
<1>3. activities' \subseteq acts /\ acts \subseteq Activity'
  BY <1>1, <1>2 DEF AppendActivity, Retain
<1>4. e.kind # "other" => e.request \in Requests
  BY DEF Activity
<1>5. /\ \A a \in activities : a.at \in 1..version
      /\ \A a \in acts : a.at \in 1..version'
  BY <1>1, <1>3 DEF Activity
<1>6. \A a, b \in acts : a.at = b.at => a = b
  <2>1. \A a \in activities : a.at # e.at
    BY <1>1, <1>5
  <2> QED
    BY <2>1 DEF LifecycleInv, ActivitiesTrue
<1>7. \A a \in acts : /\ a.kind # "other" => a.request \in asked'
                      /\ a.kind = "closed" => a.request \notin openRequests'
  BY <1>1 DEF LifecycleInv, ActivitiesTrue
<1>8. (asked \subseteq Requests /\ openRequests \subseteq asked)'
  BY <1>1, <1>4
<1>9. ActivitiesTrue'
  BY <1>3, <1>6, <1>7 DEF ActivitiesTrue
<1>10. OpenRequestsSeen'
  <2> SUFFICES ASSUME restarts' = 0, NEW r \in openRequests', Kept(r)'
               PROVE  \E a \in activities' : a.kind = "opened" /\ a.request = r
    BY DEF OpenRequestsSeen
  <2>1. PICK a \in acts : a.kind = "opened" /\ a.request = r
    <3>1. CASE e.kind = "opened" /\ r = e.request
      BY <3>1
    <3>2. CASE r \in openRequests
      <4>1. Kept(r)
        BY <1>1, LifecycleAssumption DEF Kept
      <4> QED
        BY <3>2, <4>1 DEF LifecycleInv, OpenRequestsSeen
    <3> QED
      BY <3>1, <3>2
  <2>2. OpenAtEnd(acts, a)
    BY <1>7, <2>1 DEF OpenAtEnd
  <2>3. CASE r \in Questions
    BY <2>1, <2>2, <2>3 DEF AppendActivity, Retain
  <2>4. CASE version' <= ActivityWindow
    <3>1. version' \in Nat
      BY <1>1
    <3>2. Recent(acts, a)
      <4> HIDE DEF acts
      <4> QED
        BY <1>5, <1>6, <2>4, <3>1, AllRecent
    <3> QED
      BY <2>1, <3>2 DEF AppendActivity, Retain
  <2> QED
    BY <2>3, <2>4 DEF Kept
<1> QED
  BY <1>3, <1>8, <1>9, <1>10 DEF RequestsInv

\* Every step keeps what is known of the requests.
LEMMA RequestsPreserved == LifecycleInv /\ [Next]_vars => RequestsInv'
<1> SUFFICES ASSUME LifecycleInv, [Next]_vars PROVE RequestsInv'
  OBVIOUS
<1>0. version \in Nat /\ asked \subseteq Requests /\ openRequests \subseteq asked
      /\ activities \subseteq Activity
  BY LifecycleAssumption DEF LifecycleInv, TypeOK
<1> USE DEF status, message, reactors
<1>1. CASE UNCHANGED requests /\ Later /\ restarts' = restarts
  BY <1>1, RequestsKept
<1>2. ASSUME NEW r \in Requests, Open(r), restarts' = restarts PROVE RequestsInv'
  <2>1. Opened(r) \in Activity' /\ Opened(r).at = version' /\ Opened(r).kind = "opened"
        /\ Opened(r).request = r
    BY <1>0, <1>2 DEF Opened, Open, Commit, Activity
  <2>2. /\ version' = version + 1 /\ r \notin asked /\ AppendActivity(Opened(r))
        /\ asked' = asked \cup {r} /\ openRequests' = openRequests \cup {r}
    BY <1>2 DEF Open, Commit
  <2> DEFINE e == Opened(r)
  <2>3. e \in Activity' /\ e.at = version' /\ e.kind = "opened" /\ e.request = r
        /\ AppendActivity(e)
    BY <2>1, <2>2
  <2> HIDE DEF e
  <2> QED
    BY <1>2, <2>2, <2>3, RequestsAppended
<1>3. ASSUME NEW r \in Requests, Close(r), Commit, restarts' = restarts PROVE RequestsInv'
  <2>1. Closed(r) \in Activity' /\ Closed(r).at = version' /\ Closed(r).kind = "closed"
        /\ Closed(r).request = r
    BY <1>0, <1>3 DEF Closed, Commit, Activity
  <2>2. /\ version' = version + 1 /\ r \in openRequests /\ AppendActivity(Closed(r))
        /\ asked' = asked /\ openRequests' = openRequests \ {r}
    BY <1>3 DEF Close, Commit
  <2> DEFINE e == Closed(r)
  <2>3. e \in Activity' /\ e.at = version' /\ e.kind = "closed" /\ e.request = r
        /\ AppendActivity(e)
    BY <2>1, <2>2
  <2> HIDE DEF e
  <2> QED
    BY <1>3, <2>2, <2>3, RequestsAppended
<1>4. ASSUME AppendActivity(Other), Commit, asked' = asked, openRequests' = openRequests,
             restarts' = restarts
      PROVE  RequestsInv'
  <2> DEFINE e == Other
  <2>1. e \in Activity' /\ e.at = version' /\ e.kind = "other" /\ AppendActivity(e)
    BY <1>0, <1>4 DEF Other, Commit, Activity
  <2>2. version' = version + 1
    BY <1>4 DEF Commit
  <2> HIDE DEF e
  <2> QED
    BY <1>4, <2>1, <2>2, RequestsAppended
<1>5. CASE UNCHANGED vars
  BY <1>0, <1>1, <1>5 DEF vars, requests, Later
<1>6. CASE Archive \/ Unarchive \/ Settle \/ Unsettle \/ Snooze \/ Unsnooze \/ Pin \/ Unpin
             \/ StartTurn \/ StopSession
  BY <1>0, <1>1, <1>6
     DEF Archive, Unarchive, Settle, Unsettle, Snooze, Unsnooze, Pin, Unpin, StartTurn,
         StopSession, Commit, Later
<1>7. CASE MessageAgesOut \/ TakeSnapshot \/ AutoSettle \/ SweepEnds \/ AttemptEnds
  BY <1>0, <1>1, <1>7 DEF MessageAgesOut, TakeSnapshot, AutoSettle, SweepEnds, AttemptEnds,
                          Commit, Later
<1>8. CASE ProcessSettled \/ ProcessTurn
  <2>1. version' \in {version, version + 1} /\ UNCHANGED requests /\ restarts' = restarts
    BY <1>8 DEF ProcessSettled, ProcessTurn, Commit
  <2> QED
    BY <1>0, <1>1, <2>1 DEF Later
<1>15. CASE ProcessStop \/ \E s \in Statuses \ {"none"} : SetSession(s)
  <2>1. version' = version + 1 /\ UNCHANGED requests /\ restarts' = restarts
    BY <1>15 DEF ProcessStop, SetSession, Commit
  <2> QED
    BY <1>0, <1>1, <2>1 DEF Later
<1>9. CASE OtherActivity \/ StopFails \/ TurnStartFails
  BY <1>4, <1>9 DEF OtherActivity, StopFails, TurnStartFails
<1>10. CASE \E r \in Approvals \cup Questions : Ask(r)
  BY <1>2, <1>10 DEF Ask, Requests
<1>11. CASE \E r \in Offers : OfferFallback(r) \/ OfferAfterFailure(r)
  BY <1>2, <1>11 DEF OfferFallback, OfferAfterFailure, Requests
<1>12. CASE \E r \in Requests : CloseRequest(r)
  BY <1>3, <1>12 DEF CloseRequest
<1>13. CASE \E q \in Questions : AnswerQuestion(q)
  BY <1>3, <1>13 DEF AnswerQuestion, Requests
<1>14. CASE Restart
  <2>1. activities' = {} /\ asked' = asked /\ openRequests' = openRequests
        /\ restarts' = restarts + 1 /\ restarts \in Nat
    BY <1>14, LifecycleAssumption DEF Restart, LifecycleInv, TypeOK
  <2> QED
    BY <1>0, <2>1 DEF RequestsInv, ActivitiesTrue, OpenRequestsSeen
<1> QED
  BY <1>5, <1>6, <1>7, <1>8, <1>9, <1>10, <1>11, <1>12, <1>13, <1>14,
     <1>15 DEF Next

-----------------------------------------------------------------------------
(* What a settled thread hides.                                            *)

\* A thread that was not settled by this step, whose session did not come alive
\* and of which nobody asked anything but an offer, is as quiet as it was.
LEMMA QuietKept ==
    ASSUME LifecycleInv, Later, restarts' \in {restarts, restarts + 1},
           override' = "settled" =>
               /\ override = "settled"
               /\ session' = session \/ session' \notin Alive
               /\ openRequests' \ Offers \subseteq openRequests
    PROVE  SettledIsQuiet'
<1>1. version \in Nat /\ restarts \in Nat
  BY LifecycleAssumption DEF LifecycleInv, TypeOK
<1>2. \A r : Kept(r)' => Kept(r)
  BY <1>1, LifecycleAssumption DEF Kept, Later
<1>3. restarts' = 0 => restarts = 0
  BY <1>1
<1> QED
  BY <1>2, <1>3 DEF LifecycleInv, SettledIsQuiet

\* The decider settles a thread only when it sees no reason against it.
LEMMA QuietSettled ==
    ASSUME LifecycleInv, ~SettleBlocked, version' = version + 1,
           UNCHANGED <<session, openRequests, restarts>>
    PROVE  SettledIsQuiet'
<1>1. version \in Nat
  BY LifecycleAssumption DEF LifecycleInv, TypeOK
<1>2. \A r : Kept(r)' => Kept(r)
  BY <1>1, LifecycleAssumption DEF Kept
<1>3. restarts = 0 => \A r \in openRequests : ~Kept(r)
  BY WaitingRequestBlocks DEF SettleBlocked
<1> QED
  BY <1>2, <1>3 DEF SettledIsQuiet, SettleBlocked

\* Every step keeps a settled thread quiet.
LEMMA QuietPreserved == LifecycleInv /\ [Next]_vars => SettledIsQuiet'
<1> SUFFICES ASSUME LifecycleInv, [Next]_vars PROVE SettledIsQuiet'
  OBVIOUS
<1>0. version \in Nat /\ restarts \in Nat
  BY LifecycleAssumption DEF LifecycleInv, TypeOK
<1> USE DEF Commit, status, message, requests, reactors
<1>1. CASE UNCHANGED vars
  BY <1>0, <1>1, QuietKept DEF vars, Later
<1>2. CASE Archive \/ Unarchive \/ Snooze \/ Unsnooze \/ Unpin \/ Unsettle \/ Pin \/ StopSession
  BY <1>0, <1>2, QuietKept
     DEF Archive, Unarchive, Snooze, Unsnooze, Unpin, Unsettle, Pin, StopSession, Later
<1>3. CASE Settle \/ AutoSettle
  BY <1>3, QuietSettled DEF Settle, AutoSettle
<1>4. CASE StartTurn \/ \E q \in Questions : AnswerQuestion(q)
  BY <1>0, <1>4, QuietKept DEF StartTurn, AnswerQuestion, ReEngage, WakeIf, Later
<1>5. CASE OtherActivity \/ StopFails \/ \E r \in Requests : CloseRequest(r)
  BY <1>0, <1>5, QuietKept DEF OtherActivity, StopFails, CloseRequest, Close, Later
<1>6. CASE \E r \in Approvals \cup Questions : Ask(r)
  <2>1. PICK r \in Approvals \cup Questions : Ask(r)
    BY <1>6
  <2>2. override' = "none"
    BY <2>1, LifecycleAssumption DEF Ask, Open, WakeIf
  <2> QED
    BY <2>2 DEF SettledIsQuiet
<1>7. CASE \E r \in Offers : OfferFallback(r) \/ OfferAfterFailure(r)
  BY <1>0, <1>7, QuietKept DEF OfferFallback, OfferAfterFailure, Open, WakeIf, Later
<1>8. CASE \E s \in Statuses \ {"none"} : SetSession(s)
  BY <1>0, <1>8, QuietKept DEF SetSession, BecomeSession, WakeIf, Later
<1>9. CASE MessageAgesOut \/ TakeSnapshot \/ SweepEnds \/ AttemptEnds
  BY <1>0, <1>9, QuietKept DEF MessageAgesOut, TakeSnapshot, SweepEnds, AttemptEnds, Later
<1>10. CASE ProcessSettled
  BY <1>0, <1>10, QuietKept DEF ProcessSettled, Later
<1>11. CASE ProcessStop \/ TurnStartFails
  <2>1. /\ version' = version + 1 /\ restarts' = restarts /\ openRequests' = openRequests
        /\ session' \in {"stopped", "error"} /\ override' = override
    BY <1>11 DEF ProcessStop, TurnStartFails, BecomeSession, WakeIf, Alive
  <2> QED
    BY <1>0, <2>1, QuietKept DEF Alive, Later
<1>13. CASE ProcessTurn
  <2>1. CASE session' = session /\ version' = version /\ override' = override
    BY <1>0, <1>13, <2>1, QuietKept DEF ProcessTurn, Later
  <2>2. CASE BecomeSession("starting") /\ version' = version + 1
    BY <2>2 DEF BecomeSession, WakeIf, Alive, SettledIsQuiet
  <2> QED
    BY <1>13, <2>1, <2>2 DEF ProcessTurn
<1>12. CASE Restart
  BY <1>0, <1>12, QuietKept DEF Restart, Alive, Later
<1> QED
  BY <1>1, <1>2, <1>3, <1>4, <1>5, <1>6, <1>7, <1>8, <1>9, <1>10, <1>11, <1>12, <1>13
     DEF Next

-----------------------------------------------------------------------------
(* What the settlement sweep saw.                                          *)

\* Every step that changes what the sweep looked at commits something.
LEMMA SweepPreserved == LifecycleInv /\ [Next]_vars => SweepStillTrue'
<1> SUFFICES ASSUME LifecycleInv, [Next]_vars PROVE SweepStillTrue'
  OBVIOUS
<1>0. version \in Nat /\ sweep \in Int /\ sweep <= version /\ SweepStillTrue
  BY LifecycleAssumption DEF LifecycleInv, TypeOK, NoSweep
<1> USE DEF Commit, status, message, requests, reactors
<1>1. CASE sweep' \in {sweep, NoSweep} /\ version' = version + 1
  BY <1>0, <1>1 DEF SweepStillTrue, NoSweep
<1>2. CASE UNCHANGED <<version, openRequests, session, override>> /\ sweep' \in {sweep, NoSweep}
  BY <1>0, <1>2 DEF SweepStillTrue, NoSweep
<1>3. CASE TakeSnapshot
  BY <1>3 DEF TakeSnapshot, IsAutoSettlementCandidate, SweepStillTrue
<1>4. CASE UNCHANGED vars
  BY <1>2, <1>4 DEF vars
<1>5. CASE Archive \/ Unarchive \/ Settle \/ Unsettle \/ Snooze \/ Unsnooze \/ Pin \/ Unpin
             \/ StartTurn \/ StopSession
  BY <1>1, <1>5
     DEF Archive, Unarchive, Settle, Unsettle, Snooze, Unsnooze, Pin, Unpin, StartTurn, StopSession
<1>6. CASE \/ \E r \in Approvals \cup Questions : Ask(r)
           \/ \E r \in Requests : CloseRequest(r)
           \/ \E q \in Questions : AnswerQuestion(q)
           \/ \E r \in Offers : OfferFallback(r) \/ OfferAfterFailure(r)
  BY <1>1, <1>6 DEF Ask, CloseRequest, AnswerQuestion, OfferFallback, OfferAfterFailure, Open
<1>7. CASE OtherActivity \/ StopFails \/ TurnStartFails \/ ProcessStop
             \/ \E s \in Statuses \ {"none"} : SetSession(s)
  BY <1>1, <1>7 DEF OtherActivity, StopFails, TurnStartFails, ProcessStop, SetSession
<1>8. CASE MessageAgesOut \/ SweepEnds \/ AttemptEnds
  BY <1>2, <1>8 DEF MessageAgesOut, SweepEnds, AttemptEnds
<1>9. CASE AutoSettle
  BY <1>1, <1>9 DEF AutoSettle
<1>10. CASE ProcessSettled
  BY <1>1, <1>2, <1>10 DEF ProcessSettled
<1>11. CASE ProcessTurn
  BY <1>1, <1>2, <1>11 DEF ProcessTurn
<1>12. CASE Restart
  BY <1>0, <1>12 DEF Restart, SweepStillTrue, NoSweep
<1> QED
  BY <1>3, <1>4, <1>5, <1>6, <1>7, <1>8, <1>9, <1>10, <1>11, <1>12 DEF Next

-----------------------------------------------------------------------------
(* Types.                                                                  *)

\* The flags of the thread stay Booleans.
LEMMA FlagsTyped ==
    LifecycleInv /\ [Next]_vars =>
        /\ archived' \in BOOLEAN /\ pinned' \in BOOLEAN /\ snoozed' \in BOOLEAN
        /\ queuedMessage' \in BOOLEAN /\ seesMessage' \in BOOLEAN /\ attempt' \in BOOLEAN
<1> DEFINE Flags == /\ archived' \in BOOLEAN /\ pinned' \in BOOLEAN /\ snoozed' \in BOOLEAN
                    /\ queuedMessage' \in BOOLEAN /\ seesMessage' \in BOOLEAN
                    /\ attempt' \in BOOLEAN
<1> SUFFICES ASSUME LifecycleInv, [Next]_vars PROVE Flags
  OBVIOUS
<1>0. /\ archived \in BOOLEAN /\ pinned \in BOOLEAN /\ snoozed \in BOOLEAN
      /\ queuedMessage \in BOOLEAN /\ seesMessage \in BOOLEAN /\ attempt \in BOOLEAN
  BY DEF LifecycleInv, TypeOK
<1>a. TRUE \in BOOLEAN /\ FALSE \in BOOLEAN
  OBVIOUS
<1> USE <1>0, <1>a DEF status, message, reactors
<1>1. CASE UNCHANGED vars
  BY <1>1, Zenon DEF vars
<1>2. CASE Archive \/ Unarchive \/ Unsettle \/ Snooze \/ Unsnooze \/ Pin \/ Unpin \/ StopSession
  BY <1>2, Zenon DEF Archive, Unarchive, Unsettle, Snooze, Unsnooze, Pin, Unpin, StopSession
<1>3. CASE Settle \/ AutoSettle
  BY <1>3, Zenon DEF Settle, AutoSettle, BecomeSettled
<1>4. CASE StartTurn \/ \E q \in Questions : AnswerQuestion(q)
  BY <1>4, Zenon DEF StartTurn, AnswerQuestion, ReEngage
<1>5. CASE \/ \E r \in Approvals \cup Questions : Ask(r)
           \/ \E r \in Offers : OfferFallback(r) \/ OfferAfterFailure(r)
  BY <1>5, Zenon DEF Ask, OfferFallback, OfferAfterFailure, Open
<1>6. CASE OtherActivity \/ StopFails \/ TurnStartFails \/ \E r \in Requests : CloseRequest(r)
  BY <1>6, Zenon DEF OtherActivity, StopFails, TurnStartFails, BecomeSession, CloseRequest
<1>7. CASE \E s \in Statuses \ {"none"} : SetSession(s)
  BY <1>7, Zenon DEF SetSession, BecomeSession
<1>8. CASE MessageAgesOut \/ TakeSnapshot \/ SweepEnds \/ AttemptEnds
  BY <1>8, Zenon DEF MessageAgesOut, TakeSnapshot, SweepEnds, AttemptEnds
<1>9. CASE ProcessSettled \/ ProcessTurn
  BY <1>9, Zenon DEF ProcessSettled, ProcessTurn, BecomeSession
<1>10. CASE ProcessStop
  <2>1. queuedMessage' \in BOOLEAN
    BY <1>10 DEF ProcessStop
  <2> QED
    BY <1>10, <2>1, Zenon DEF ProcessStop, BecomeSession
<1>11. CASE Restart
  BY <1>11, Zenon DEF Restart
<1> QED
  BY <1>1, <1>2, <1>3, <1>4, <1>5, <1>6, <1>7, <1>8, <1>9, <1>10, <1>11, Zenon DEF Next

\* The override and the session's status stay among the values the schema allows.
LEMMA StatusesTyped ==
    LifecycleInv /\ [Next]_vars => override' \in Overrides /\ session' \in Statuses
<1> SUFFICES ASSUME LifecycleInv, [Next]_vars
             PROVE  override' \in Overrides /\ session' \in Statuses
  OBVIOUS
<1>0. override \in Overrides /\ session \in Statuses
  BY DEF LifecycleInv, TypeOK
<1> USE <1>0 DEF status, Overrides, WakeIf
<1>1. CASE UNCHANGED vars
  BY <1>1 DEF vars
<1>2. CASE Archive \/ Unarchive \/ Unsettle \/ Snooze \/ Unsnooze \/ Pin \/ Unpin \/ StopSession
  BY <1>2 DEF Archive, Unarchive, Unsettle, Snooze, Unsnooze, Pin, Unpin, StopSession
<1>3. CASE Settle \/ AutoSettle
  BY <1>3 DEF Settle, AutoSettle, BecomeSettled
<1>4. CASE StartTurn \/ \E q \in Questions : AnswerQuestion(q)
  BY <1>4 DEF StartTurn, AnswerQuestion, ReEngage
<1>5. CASE \/ \E r \in Approvals \cup Questions : Ask(r)
           \/ \E r \in Offers : OfferFallback(r) \/ OfferAfterFailure(r)
  BY <1>5 DEF Ask, OfferFallback, OfferAfterFailure, Open
<1>6. CASE OtherActivity \/ StopFails \/ \E r \in Requests : CloseRequest(r)
  BY <1>6 DEF OtherActivity, StopFails, CloseRequest
<1>7. CASE \E s \in Statuses \ {"none"} : SetSession(s)
  BY <1>7 DEF SetSession, BecomeSession
<1>8. CASE MessageAgesOut \/ TakeSnapshot \/ SweepEnds \/ AttemptEnds \/ ProcessSettled
  BY <1>8 DEF MessageAgesOut, TakeSnapshot, SweepEnds, AttemptEnds, ProcessSettled
<1>9. CASE ProcessStop \/ ProcessTurn \/ TurnStartFails
  BY <1>9 DEF ProcessStop, ProcessTurn, TurnStartFails, BecomeSession, Statuses
<1>10. CASE Restart
  BY <1>10 DEF Restart, Statuses
<1> QED
  BY <1>1, <1>2, <1>3, <1>4, <1>5, <1>6, <1>7, <1>8, <1>9, <1>10 DEF Next

\* The counters stay within their bounds, and the sweep behind the log.
LEMMA CountersTyped ==
    LifecycleInv /\ [Next]_vars =>
        version' \in 0..MaxVersion /\ sweep' \in NoSweep..version' /\ restarts' \in 0..MaxRestarts
<1> DEFINE Counters == /\ version' \in 0..MaxVersion
                       /\ sweep' \in NoSweep..version'
                       /\ restarts' \in 0..MaxRestarts
<1> SUFFICES ASSUME LifecycleInv, [Next]_vars PROVE Counters
  OBVIOUS
<1>0. version \in 0..MaxVersion /\ sweep \in NoSweep..version /\ restarts \in 0..MaxRestarts
      /\ MaxVersion \in Nat /\ MaxRestarts \in Nat
  BY LifecycleAssumption DEF LifecycleInv, TypeOK
<1>1. CASE version' = version \/ Commit
  <2>1. version' \in 0..MaxVersion /\ version' >= version
    BY <1>0, <1>1 DEF Commit
  <2>2. CASE sweep' \in {sweep, NoSweep, version} /\ restarts' = restarts
    BY <1>0, <2>1, <2>2 DEF NoSweep
  <2>3. CASE Restart
    BY <1>0, <2>1, <2>3 DEF Restart, NoSweep
  <2> QED
    <3> USE DEF reactors
    <3>1. CASE UNCHANGED vars
      BY <2>2, <3>1 DEF vars
    <3>2. CASE Archive \/ Unarchive \/ Settle \/ Unsettle \/ Snooze \/ Unsnooze \/ Pin \/ Unpin
                 \/ StartTurn \/ StopSession
      BY <2>2, <3>2
         DEF Archive, Unarchive, Settle, Unsettle, Snooze, Unsnooze, Pin, Unpin, StartTurn, StopSession
    <3>3. CASE \/ \E r \in Approvals \cup Questions : Ask(r)
               \/ \E r \in Requests : CloseRequest(r)
               \/ \E q \in Questions : AnswerQuestion(q)
               \/ \E r \in Offers : OfferFallback(r) \/ OfferAfterFailure(r)
      BY <2>2, <3>3 DEF Ask, CloseRequest, AnswerQuestion, OfferFallback, OfferAfterFailure
    <3>4. CASE OtherActivity \/ StopFails \/ TurnStartFails \/ ProcessStop
                 \/ \E s \in Statuses \ {"none"} : SetSession(s)
      BY <2>2, <3>4 DEF OtherActivity, StopFails, TurnStartFails, ProcessStop, SetSession
    <3>5. CASE MessageAgesOut \/ TakeSnapshot \/ SweepEnds \/ AttemptEnds \/ AutoSettle
      BY <2>2, <3>5 DEF MessageAgesOut, TakeSnapshot, SweepEnds, AttemptEnds, AutoSettle
    <3>6. CASE ProcessSettled \/ ProcessTurn
      BY <2>2, <3>6 DEF ProcessSettled, ProcessTurn
    <3> QED
      BY <2>3, <3>1, <3>2, <3>3, <3>4, <3>5, <3>6 DEF Next
<1>2. version' = version \/ Commit
  <2>1. CASE UNCHANGED vars
    BY <2>1 DEF vars
  <2>2. CASE Archive \/ Unarchive \/ Settle \/ Unsettle \/ Snooze \/ Unsnooze \/ Pin \/ Unpin
               \/ StartTurn \/ StopSession
    BY <2>2
       DEF Archive, Unarchive, Settle, Unsettle, Snooze, Unsnooze, Pin, Unpin, StartTurn, StopSession
  <2>3. CASE \/ \E r \in Approvals \cup Questions : Ask(r)
             \/ \E r \in Requests : CloseRequest(r)
             \/ \E q \in Questions : AnswerQuestion(q)
             \/ \E r \in Offers : OfferFallback(r) \/ OfferAfterFailure(r)
    BY <2>3 DEF Ask, CloseRequest, AnswerQuestion, OfferFallback, OfferAfterFailure, Open
  <2>4. CASE OtherActivity \/ StopFails \/ TurnStartFails \/ ProcessStop
               \/ \E s \in Statuses \ {"none"} : SetSession(s)
    BY <2>4 DEF OtherActivity, StopFails, TurnStartFails, ProcessStop, SetSession
  <2>5. CASE MessageAgesOut \/ TakeSnapshot \/ SweepEnds \/ AttemptEnds \/ AutoSettle
    BY <2>5 DEF MessageAgesOut, TakeSnapshot, SweepEnds, AttemptEnds, AutoSettle
  <2>6. CASE ProcessSettled \/ ProcessTurn \/ Restart
    BY <2>6 DEF ProcessSettled, ProcessTurn, Restart
  <2> QED
    BY <2>1, <2>2, <2>3, <2>4, <2>5, <2>6 DEF Next
<1> QED
  BY <1>1, <1>2

-----------------------------------------------------------------------------
(* The invariant, and what follows from it.                                *)

LEMMA LifecyclePreserved == LifecycleInv /\ [Next]_vars => LifecycleInv'
<1> SUFFICES ASSUME LifecycleInv, [Next]_vars PROVE LifecycleInv'
  OBVIOUS
<1>1. IInv'
  BY TimelinePreserved DEF LifecycleInv
<1>2. RequestsInv' /\ SettledIsQuiet' /\ SweepStillTrue'
  BY RequestsPreserved, QuietPreserved, SweepPreserved
<1>3. TypeOK'
  BY <1>1, <1>2, FlagsTyped, StatusesTyped, CountersTyped, Zenon
     DEF IInv, Timeline, RequestsInv, TypeOK
<1> QED
  BY <1>1, <1>2, <1>3 DEF LifecycleInv, RequestsInv

\* The invariant of the lifecycle holds of every execution.
THEOREM LifecycleInvariant == Spec => []LifecycleInv
<1>1. Init => LifecycleInv
  <2> SUFFICES ASSUME Init PROVE LifecycleInv
    OBVIOUS
  <2>1. IInv
    BY DEF Init, IInv, Timeline, TurnsPrecedeSettlement, TurnsPrecedeStops, Intent
  <2>2. /\ archived \in BOOLEAN /\ pinned \in BOOLEAN /\ snoozed \in BOOLEAN
        /\ queuedMessage \in BOOLEAN /\ seesMessage \in BOOLEAN /\ attempt \in BOOLEAN
    BY Zenon DEF Init
  <2>3. /\ version \in 0..MaxVersion /\ settledVersion \in 0..version
        /\ sweep \in NoSweep..version /\ liveTurn \in 0..version /\ restarts \in 0..MaxRestarts
    BY LifecycleAssumption DEF Init, NoSweep
  <2>4. /\ override \in Overrides /\ session \in Statuses
        /\ asked \subseteq Requests /\ openRequests \subseteq asked
        /\ activities \subseteq Activity /\ inbox \in Seq(Intent)
    BY DEF Init, Overrides, Statuses
  <2>5. TypeOK
    BY <2>2, <2>3, <2>4, Zenon DEF TypeOK
  <2>6. ActivitiesTrue /\ OpenRequestsSeen /\ SettledIsQuiet /\ SweepStillTrue
    BY DEF Init, ActivitiesTrue, OpenRequestsSeen, SettledIsQuiet, SweepStillTrue, NoSweep
  <2> QED
    BY <2>1, <2>5, <2>6 DEF LifecycleInv
<1> QED
  BY <1>1, LifecyclePreserved, PTL DEF Spec

\* Every variable keeps its type.
THEOREM TypesHold == Spec => []TypeOK
<1>1. LifecycleInv => TypeOK
  BY DEF LifecycleInv
<1> QED
  BY <1>1, LifecycleInvariant, PTL

\* A question that waits for the user keeps its thread from being settled, whatever
\* the size of the window the decider sees, as long as the server stays up.
THEOREM QuestionsOutliveTheWindow == Spec => []WindowKeepsQuestions
<1>1. LifecycleInv => WindowKeepsQuestions
  BY LifecycleAssumption
     DEF LifecycleInv, SettledIsQuiet, WindowKeepsQuestions, Kept
<1> QED
  BY <1>1, LifecycleInvariant, PTL

\* Through any restarts and with any window, a settled thread has no live session;
\* while the server stays up it hides no question, and no approval that the window
\* of activities has kept.
THEOREM SettledHidesNothing == Spec => []SettledIsQuiet
<1>1. LifecycleInv => SettledIsQuiet
  BY DEF LifecycleInv
<1> QED
  BY <1>1, LifecycleInvariant, PTL

\* So it hides no work at all while the server stays up and the thread has had no
\* more events than the window keeps.
COROLLARY SettledHidesNothingInWindow ==
    ASSUME MaxRestarts = 0, MaxVersion <= ActivityWindow
    PROVE  Spec => []SettledHidesNoWork
<1>1. LifecycleInv => SettledHidesNoWork
  <2> SUFFICES ASSUME LifecycleInv, override = "settled"
               PROVE  session \notin Alive /\ openRequests \subseteq Offers
    BY DEF SettledHidesNoWork
  <2>1. restarts = 0 /\ version <= ActivityWindow
    BY LifecycleAssumption DEF LifecycleInv, TypeOK
  <2> QED
    BY <2>1 DEF LifecycleInv, SettledIsQuiet, Kept
<1> QED
  BY <1>1, LifecycleInvariant, PTL

\* An automatic settlement, however late, and whatever restarts and windows did to
\* the decider's view, hides no work of any kind: nothing has happened to the thread
\* since the sweep looked.
THEOREM AutoSettlesOnlyIdleThreads == Spec => AutoSettleHidesNothing
<1> DEFINE Settles == sweep # NoSweep /\ sweep' = NoSweep /\ settledVersion' # settledVersion
<1>1. [Next]_vars /\ Settles => AutoSettle
  <2> SUFFICES ASSUME [Next]_vars, Settles PROVE AutoSettle
    OBVIOUS
  <2> USE DEF status, reactors
  <2>1. CASE UNCHANGED vars
    BY <2>1 DEF vars
  <2>2. CASE Archive \/ Unarchive \/ Settle \/ Unsettle \/ Snooze \/ Unsnooze \/ Pin \/ Unpin
               \/ StartTurn \/ StopSession
    BY <2>2
       DEF Archive, Unarchive, Settle, Unsettle, Snooze, Unsnooze, Pin, Unpin, StartTurn, StopSession
  <2>3. CASE \/ \E r \in Approvals \cup Questions : Ask(r)
             \/ \E r \in Requests : CloseRequest(r)
             \/ \E q \in Questions : AnswerQuestion(q)
             \/ \E r \in Offers : OfferFallback(r) \/ OfferAfterFailure(r)
    BY <2>3 DEF Ask, CloseRequest, AnswerQuestion, OfferFallback, OfferAfterFailure
  <2>4. CASE OtherActivity \/ StopFails \/ TurnStartFails \/ ProcessStop
               \/ \E s \in Statuses \ {"none"} : SetSession(s)
    BY <2>4 DEF OtherActivity, StopFails, TurnStartFails, ProcessStop, SetSession
  <2>5. CASE MessageAgesOut \/ TakeSnapshot \/ SweepEnds \/ AttemptEnds
    BY <2>5 DEF MessageAgesOut, TakeSnapshot, SweepEnds, AttemptEnds
  <2>6. CASE ProcessSettled \/ ProcessTurn \/ Restart
    BY <2>6 DEF ProcessSettled, ProcessTurn, Restart
  <2> QED
    BY <2>1, <2>2, <2>3, <2>4, <2>5, <2>6 DEF Next
<1>2. LifecycleInv /\ AutoSettle =>
        openRequests = {} /\ session \notin Alive /\ override # "active"
  BY DEF LifecycleInv, SweepStillTrue, AutoSettle, ChangedSinceSnapshot
<1>3. LifecycleInv /\ [Next]_vars =>
        [Settles => openRequests = {} /\ session \notin Alive /\ override # "active"]_vars
  BY <1>1, <1>2
<1> QED
  BY <1>3, LifecycleInvariant, PTL DEF Spec, AutoSettleHidesNothing
=============================================================================
