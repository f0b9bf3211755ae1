----------------------------- MODULE ThreadStream -----------------------------
(***************************************************************************)
(* A client that shows one thread: subscribeThread of apps/server/src/ws.ts*)
(* and makeEnvironmentThreadState of                                       *)
(* packages/client-runtime/src/state/threads.ts.                           *)
(*                                                                         *)
(* A subscription attaches a ThreadEventCoalescer to the live events, then *)
(* replays the events after the client's cursor, or sends a snapshot, then *)
(* a synchronization marker and the live events.  The next piece is sent   *)
(* once the client has acknowledged the last.  A subscription that fails   *)
(* is made again after a delay, from the client's cursor.                  *)
(*                                                                         *)
(* That an event is published only after latestSequence covers it is       *)
(* checked in ShellSync; here committing one is a single step.             *)
(***************************************************************************)
EXTENDS ThreadEventCoalescer

CONSTANTS
    MaxReplay,       \* THREAD_RESUME_MAX_EVENTS
    MaxEvents,       \* bound: events of the thread
    MaxDisturbances  \* bound: failed reads, sessions that end

ASSUME StreamAssumption ==
    MaxReplay \in Nat /\ MaxEvents \in Nat /\ MaxDisturbances \in Nat

VARIABLES
    stage,      \* of the subscription; "none" and "failed": there is none
    replay,     \* the next event to replay, and the last
    wire,       \* what the client has yet to apply of what was sent
    cursor,     \* lastSequence of the client, or NoData
    shown,      \* the events the client's thread reflects
    live,       \* status "live"
    fence,      \* history: what the marker stands for
    disturbances

clientVars == <<cursor, shown, live>>
vars == <<log, coalescerVars, stage, replay, wire, clientVars, fence, disturbances>>

NoData == -1
NoReplay == [next |-> 1, last |-> 0]
Event(n) == [kind |-> "event", sequence |-> n]
Snapshot(n) == [kind |-> "snapshot", sequence |-> n]
Synchronized == [kind |-> "synchronized", sequence |-> Marker]
Wired(s) == [i \in DOMAIN s |-> IF s[i] = Marker THEN Synchronized ELSE Event(s[i])]

Init ==
    /\ log = <<>> /\ Fresh(0)
    /\ stage = "none" /\ replay = NoReplay /\ wire = <<>>
    /\ cursor = NoData /\ shown = {} /\ live = FALSE
    /\ fence = 0 /\ disturbances = 0

Commit ==
    /\ Len(log) < MaxEvents
    /\ \E event \in Calls \cup {Other} : log' = Append(log, event)
    /\ UNCHANGED <<coalescerVars, stage, replay, wire, clientVars, fence, disturbances>>

-----------------------------------------------------------------------------
(* Subscribing.                                                             *)

\* A client without data loads a snapshot over HTTP, or goes without one.
LoadSnapshot ==
    /\ stage = "none" /\ cursor = NoData
    /\ cursor' = Len(log) /\ shown' = 1..Len(log)
    /\ UNCHANGED <<log, coalescerVars, stage, replay, wire, live, fence, disturbances>>

\* The coalescer is attached before anything is read.
Subscribe ==
    /\ stage = "none"
    /\ stage' = "attached" /\ Attach(Len(log))
    /\ UNCHANGED <<log, replay, wire, clientVars, fence, disturbances>>

\* Faulty variant: the replay begins after the first missing event.
ReadHeadPastFirst ==
    /\ stage = "attached"
    /\ IF cursor # NoData /\ Len(log) - cursor <= MaxReplay
       THEN /\ stage' = "replay" /\ replay' = [next |-> cursor + 2, last |-> Len(log)]
            /\ fence' = Len(log)
       ELSE stage' = "snapshot" /\ UNCHANGED <<replay, fence>>
    /\ UNCHANGED <<log, coalescerVars, wire, clientVars, disturbances>>

\* A range that is short enough is replayed.
ReadHead ==
    /\ stage = "attached"
    /\ IF cursor # NoData /\ Len(log) - cursor <= MaxReplay
       THEN /\ stage' = "replay" /\ replay' = [next |-> cursor + 1, last |-> Len(log)]
            /\ fence' = Len(log)
       ELSE stage' = "snapshot" /\ UNCHANGED <<replay, fence>>
    /\ UNCHANGED <<log, coalescerVars, wire, clientVars, disturbances>>

SendSnapshot ==
    /\ stage = "snapshot"
    /\ stage' = "marker" /\ wire' = <<Snapshot(Len(log))>> /\ fence' = Len(log)
    /\ UNCHANGED <<log, coalescerVars, replay, clientVars, disturbances>>

SendReplay ==
    /\ stage = "replay" /\ wire = <<>>
    /\ IF replay.next <= replay.last
       THEN /\ wire' = <<Event(replay.next)>> /\ replay' = [replay EXCEPT !.next = @ + 1]
            /\ UNCHANGED stage
       ELSE stage' = "marker" /\ replay' = NoReplay /\ UNCHANGED wire
    /\ UNCHANGED <<log, coalescerVars, clientVars, fence, disturbances>>

\* The marker is offered when what goes before it has been acknowledged; what was
\* pulled by then goes before it too.
SendMarker ==
    /\ stage = "marker" /\ wire = <<>>
    /\ OfferMarker
    /\ stage' = "live" /\ fence' = IF pulled > fence THEN pulled ELSE fence
    /\ UNCHANGED <<replay, wire, clientVars, disturbances>>

AskForMore ==
    /\ stage = "live" /\ wire = <<>> /\ Acknowledge
    /\ UNCHANGED <<stage, replay, wire, clientVars, fence, disturbances>>

SendLive ==
    /\ stage = "live" /\ Deliver /\ wire' = Wired(taken)
    /\ UNCHANGED <<stage, replay, clientVars, fence, disturbances>>

CoalescerWorks ==
    /\ stage \notin {"none", "failed"}
    /\ PullBatch \/ OfferEvent \/ WindowFires \/ CloseCoalescer \/ TakeOutput \/ CleanUp
    /\ UNCHANGED <<stage, replay, wire, clientVars, fence, disturbances>>

-----------------------------------------------------------------------------
(* Failing, and beginning again.                                            *)

Ends(next) ==
    /\ Attach(0) /\ stage' = next /\ replay' = NoReplay /\ wire' = <<>> /\ live' = FALSE /\ fence' = 0
    /\ UNCHANGED <<log, cursor, shown>>

\* The budget's failure reaches the stream when the marker is offered, as the next
\* batch is asked for, or while it is pulled.
StreamFails ==
    /\ failed
    /\ \/ stage = "marker" /\ wire = <<>> /\ batch = <<>>
       \/ stage = "live" /\ (puller = "pulling" \/ wire = <<>>)
    /\ Ends("failed") /\ UNCHANGED disturbances

\* Reading the range, the snapshot or the events failed.
ReadFails ==
    /\ disturbances < MaxDisturbances /\ disturbances' = disturbances + 1
    /\ stage \in {"attached", "replay", "snapshot"} /\ wire = <<>>
    /\ Ends("failed")

\* A new session, or a wakeup of the client.
Resubscribe ==
    /\ disturbances < MaxDisturbances /\ disturbances' = disturbances + 1
    /\ Ends("none")

\* Faulty variant: a failed subscription waits for a new session.
RetryOnNewSession ==
    /\ stage = "failed"
    /\ disturbances < MaxDisturbances /\ disturbances' = disturbances + 1
    /\ stage' = "none"
    /\ UNCHANGED <<log, coalescerVars, replay, wire, clientVars, fence>>

\* retryExpectedFailureAfter
Retry ==
    /\ stage = "failed"
    /\ stage' = "none"
    /\ UNCHANGED <<log, coalescerVars, replay, wire, clientVars, fence, disturbances>>

-----------------------------------------------------------------------------
(* The client.                                                              *)

ApplyItem ==
    /\ wire # <<>>
    /\ LET item == Head(wire)
       IN  CASE item.kind = "synchronized" -> live' = TRUE /\ UNCHANGED <<cursor, shown>>
             [] item.kind = "snapshot" ->
                  cursor' = item.sequence /\ shown' = 1..item.sequence /\ UNCHANGED live
             [] item.kind = "event" ->
                  /\ IF item.sequence > cursor
                     THEN cursor' = item.sequence /\ shown' = shown \cup {item.sequence}
                     ELSE UNCHANGED <<cursor, shown>>
                  /\ UNCHANGED live
    /\ wire' = Tail(wire)
    /\ UNCHANGED <<log, coalescerVars, stage, replay, fence, disturbances>>

Subscription ==
    \/ Subscribe \/ ReadHead \/ SendSnapshot \/ SendReplay \/ SendMarker
    \/ AskForMore \/ SendLive \/ StreamFails \/ Retry

Next ==
    \/ Commit \/ LoadSnapshot
    \/ Subscribe \/ ReadHead \/ SendSnapshot \/ SendReplay \/ SendMarker
    \/ AskForMore \/ SendLive \/ CoalescerWorks
    \/ StreamFails \/ ReadFails \/ Resubscribe \/ Retry
    \/ ApplyItem

\* Fibers are scheduled, timers fire, and the client acknowledges.
Spec == Init /\ [][Next]_vars
        /\ WF_vars(Subscription) /\ WF_vars(ApplyItem)
        /\ WF_vars(CoalescerWorks)

-----------------------------------------------------------------------------
(* Properties                                                               *)

TypeOK ==
    /\ CoalescerTypeOK
    /\ stage \in {"none", "failed", "attached", "replay", "snapshot", "marker", "live"}
    /\ \A i \in DOMAIN wire : wire[i].kind \in {"event", "snapshot", "synchronized"}
    /\ cursor \in {NoData} \cup (0..Len(log)) /\ shown \subseteq 1..Len(log)
    /\ fence \in 0..Len(log)

Superseded(n) == IsUpdate(n) /\ \E m \in (n + 1)..Len(log) : log[m] = log[n]

\* Whatever is replayed, coalesced, dropped as old and lost with a subscription:
\* the client has every event up to its cursor, but for updates of a tool call
\* that has a later one.
NothingLost == \A n \in 1..cursor : n \in shown \/ Superseded(n)

\* A client that is told it is synchronized has what the thread was when the
\* subscription began and all that was pulled before the marker.
LiveMeansCaughtUp == live => cursor >= fence

\* Once nothing is committed or disturbed any more, the client is live and has
\* everything: no update is stuck in a window, and a full budget is got over.
Converges == <>[](live /\ cursor = Len(log))

-----------------------------------------------------------------------------
(* The inductive invariant behind these properties.                         *)

Items == [kind: {"event"}, sequence: 1..Len(log)]
    \cup [kind: {"snapshot"}, sequence: 0..Len(log)] \cup {Synchronized}

StreamTypeOK ==
    /\ TypeOK
    /\ wire \in Seq(Items) /\ replay \in [next: Nat, last: Nat] /\ live \in BOOLEAN

\* What the client has yet to apply before the subscription goes on.
StageShape ==
    /\ stage \in {"none", "failed", "attached", "snapshot"} => wire = <<>>
    /\ stage # "live" => puller = "off" /\ ~live /\ Marker \notin Elements(output)
    /\ stage = "replay" =>
        /\ replay.last = fence /\ replay.next \in 1..(fence + 1)
        /\ \/ wire = <<>> /\ cursor >= replay.next - 1
           \/ wire = <<Event(replay.next - 1)>> /\ cursor >= replay.next - 2
    /\ stage = "marker" => \/ wire = <<>> /\ cursor >= fence
                           \/ wire = <<Snapshot(fence)>>
    /\ stage = "live" => \A i \in DOMAIN wire : wire[i].kind # "snapshot"
    /\ puller = "pulling" \/ Marker \in Elements(output) => wire = <<>>

SupersededBy(n, k) == IsUpdate(n) /\ \E m \in (n + 1)..k : log[m] = log[n]
Arriving == {wire[i].sequence : i \in DOMAIN wire}

\* An item that arrives leaves nothing out between the client's cursor and itself.
WireCovers ==
    \A i \in DOMAIN wire : wire[i].kind = "event" =>
        \A n \in 1..wire[i].sequence :
            n > cursor => Superseded(n) \/ \E j \in 1..i : wire[j].sequence = n

\* Until the budget fails, what was pulled and is not superseded is held, or the
\* client has it: from the snapshot or the replay, or since.
HeldCovers ==
    ~failed =>
        /\ stage \in {"replay", "marker"} =>
            \A n \in 1..pulled : n > fence => n \in Held \/ SupersededBy(n, pulled)
        /\ stage = "live" =>
            \A n \in 1..pulled : n > cursor => n \in Arriving \cup Held \/ SupersededBy(n, pulled)

\* The marker does not overtake the event it stands for.
FenceAhead(i, s) == \E j \in 1..(i - 1) : s[j] = fence /\ fence # Marker
MarkerBehindFence ==
    cursor >= fence
        \/ /\ \A i \in DOMAIN output : output[i] = Marker => FenceAhead(i, output)
           /\ \A i \in DOMAIN taken : taken[i] = Marker => FenceAhead(i, taken)
           /\ \A i \in DOMAIN wire : wire[i] = Synchronized =>
                  \E j \in 1..(i - 1) : wire[j] = Event(fence)

IInv ==
    /\ StreamTypeOK /\ CoalescerInv
    /\ StageShape /\ WireCovers /\ HeldCovers /\ MarkerBehindFence
    /\ NothingLost /\ LiveMeansCaughtUp
=============================================================================
