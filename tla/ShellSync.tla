----------------------------- MODULE ShellSync -----------------------------
(***************************************************************************)
(* How one client keeps its shell (the sidebar of projects and threads) in *)
(* step with the server: subscribeShell in apps/server/src/ws.ts and       *)
(* makeEnvironmentShellState in                                            *)
(* packages/client-runtime/src/state/shell.ts.                             *)
(*                                                                         *)
(* The server commits events, moves latestSequence and publishes, in that  *)
(* order.  A subscription attaches to the live events first, then sends a  *)
(* snapshot or replays the events after the client's cursor, then a        *)
(* completion marker, then the live events.  Bursts are coalesced: the row *)
(* of an aggregate is read when its item is sent, so it may be newer than  *)
(* the event the item carries.  The client drops items at or below its     *)
(* cursor.                                                                 *)
(*                                                                         *)
(* A row is the sequence of the last event it reflects, or Absent.         *)
(***************************************************************************)
EXTENDS Integers, Sequences, FiniteSets

CONSTANTS
    Aggregates,      \* projects and threads
    MaxReplayGap,    \* SHELL_RESUME_MAX_GAP
    MaxEvents, MaxSessions,
    MaxDisturbances  \* bounds; a failure, a restart and a wakeup are disturbances

ASSUME ShellAssumption ==
    /\ MaxReplayGap \in Nat /\ MaxEvents \in Nat /\ MaxSessions \in Nat
    /\ MaxDisturbances \in Nat

VARIABLES
    log,            \* committed events; the projections are a function of it
    latest,         \* latestSequence of the engine
    feed,           \* events published so far
    session,        \* number of the client's current session, if connected
    connected,
    clientStage,    \* where makeSubscribeInput and its stream are
    cursor,         \* snapshotSequence of the client's snapshot, or NoSnapshot
    rows,           \* the client's rows
    status,         \* what the shell state shows the user
    awaiting,       \* awaitingCompletion
    authoritative,  \* lastAuthoritativeSession
    cache,          \* the snapshot saved on the client's disk
    request,        \* afterSequence of the pending subscription, or NoSnapshot
    serverStage,    \* where the subscription's stream is
    replay,         \* the events a catch-up still has to send: next and last
    liveBuffer,     \* events retained for this subscription
    batch,          \* coalesced events whose rows are still to be read
    markerDue,      \* the completion marker follows the batch
    wire,           \* items on their way to the client
    markerAt,       \* how much had been published when the marker was queued
    stranded,       \* events whose row read failed twice, without a later item or snapshot
    disturbances

engine == <<log, latest, feed>>
shell == <<cursor, rows, status, awaiting, authoritative, stranded>>
subscription == <<request, serverStage, replay, liveBuffer, batch, markerDue, wire, markerAt>>
vars == <<log, latest, feed, session, connected, clientStage, cursor, rows, status, awaiting,
          authoritative, cache, request, serverStage, replay, liveBuffer, batch, markerDue, wire,
          markerAt, stranded, disturbances>>

-----------------------------------------------------------------------------

NoSnapshot == -1
Absent == 0
NoReplay == [next |-> 1, last |-> 0]

\* The projected row of an aggregate after the first k events.
EventsOn(events, a, k) == {i \in 1..k : events[i].aggregate = a}
Latest(S) == CHOOSE i \in S : \A j \in S : j <= i
Present(events, a, k) ==
    \E i \in EventsOn(events, a, k) :
        /\ events[i].kind = "show"
        /\ \A j \in EventsOn(events, a, k) : j > i => events[j].kind # "hide"
RowIn(events, a, k) ==
    IF Present(events, a, k) THEN Latest(EventsOn(events, a, k)) ELSE Absent
RowAt(a, k) == RowIn(log, a, k)
Row(a) == RowAt(a, Len(log))
AllRows == [a \in Aggregates |-> Row(a)]
NoRows == [a \in Aggregates |-> Absent]

Disturbance ==
    /\ disturbances < MaxDisturbances
    /\ disturbances' = disturbances + 1

Init ==
    /\ log = <<>> /\ latest = 0 /\ feed = 0
    /\ session = 0 /\ connected = FALSE /\ clientStage = "idle"
    /\ cursor = NoSnapshot /\ rows = NoRows
    /\ status = "synchronizing" /\ awaiting = FALSE /\ authoritative = 0
    /\ cache = [cursor |-> NoSnapshot, rows |-> NoRows, stranded |-> {}]
    /\ request = NoSnapshot /\ serverStage = "none" /\ replay = NoReplay
    /\ liveBuffer = {} /\ batch = {} /\ markerDue = FALSE /\ wire = <<>> /\ markerAt = 0
    /\ stranded = {}
    /\ disturbances = 0

-----------------------------------------------------------------------------
(* The engine: commit, swap the read model, publish                        *)

\* "show" is a creation or an unarchival, "hide" a deletion or an archival,
\* "touch" any other event of an aggregate that was created.
Commit(a, kind) ==
    /\ Len(log) < MaxEvents
    /\ feed = Len(log)
    /\ CASE kind = "show"  -> Row(a) = Absent
         [] kind = "hide"  -> Row(a) # Absent
         [] kind = "touch" -> EventsOn(log, a, Len(log)) # {}
    /\ log' = Append(log, [aggregate |-> a, kind |-> kind])
    /\ UNCHANGED <<latest, feed, session, connected, clientStage, shell, cache, subscription, disturbances>>

SwapLatest ==
    /\ latest < Len(log)
    /\ latest' = Len(log)
    /\ UNCHANGED <<log, feed, session, connected, clientStage, shell, cache, subscription, disturbances>>

\* Faulty variant: an event is published before latestSequence covers it.
PublishBeforeSwap ==
    /\ feed < Len(log)
    /\ feed' = feed + 1
    /\ liveBuffer' = IF serverStage = "none" THEN liveBuffer ELSE liveBuffer \cup {feed + 1}
    /\ UNCHANGED <<log, latest, session, connected, clientStage, shell, cache, request,
                   serverStage, replay, batch, markerDue, wire, markerAt, disturbances>>

\* Faulty variant: live delivery is attached only when the catch-up has ended.
PublishToCaughtUp ==
    /\ feed < latest
    /\ feed' = feed + 1
    /\ liveBuffer' = IF serverStage \in {"replayed", "live"} THEN liveBuffer \cup {feed + 1}
                                                             ELSE liveBuffer
    /\ UNCHANGED <<log, latest, session, connected, clientStage, shell, cache, request,
                   serverStage, replay, batch, markerDue, wire, markerAt, disturbances>>

\* Every subscription attached by now retains the event.
Publish ==
    /\ feed < latest
    /\ feed' = feed + 1
    /\ liveBuffer' = IF serverStage = "none" THEN liveBuffer ELSE liveBuffer \cup {feed + 1}
    /\ UNCHANGED <<log, latest, session, connected, clientStage, shell, cache, request,
                   serverStage, replay, batch, markerDue, wire, markerAt, disturbances>>

-----------------------------------------------------------------------------
(* The subscription on the server                                          *)

\* Live delivery is attached before the cursor or the projections are read.
Attach ==
    /\ clientStage = "subscribing"
    /\ serverStage = "none"
    /\ serverStage' = "attached"
    /\ clientStage' = "streaming"
    /\ UNCHANGED <<engine, session, connected, shell, cache, request, replay, liveBuffer, batch,
                   markerDue, wire, markerAt, disturbances>>

\* canReplayPersistedRange: not behind by too much, not ahead of this engine.
CanReplay ==
    /\ request # NoSnapshot
    /\ latest - request \in 0..MaxReplayGap

StartReplay ==
    /\ serverStage = "attached"
    /\ CanReplay
    /\ serverStage' = "replaying"
    /\ replay' = [next |-> request + 1, last |-> latest]
    /\ request' = NoSnapshot
    /\ UNCHANGED <<engine, session, connected, clientStage, shell, cache, liveBuffer, batch,
                   markerDue, wire, markerAt, disturbances>>

\* Without a usable cursor, or when the payload of the range is too large.
SendSnapshot ==
    /\ serverStage = "attached"
    /\ CanReplay => latest > request
    /\ serverStage' = "replayed"
    /\ wire' = Append(wire, [kind |-> "snapshot", sequence |-> Len(log), rows |-> AllRows])
    /\ request' = NoSnapshot
    /\ UNCHANGED <<engine, session, connected, clientStage, shell, cache, replay, liveBuffer,
                   batch, markerDue, markerAt, disturbances>>

\* The last event of each aggregate.
Coalesce(events) ==
    {i \in events : \A j \in events : log[j].aggregate = log[i].aggregate => j <= i}

Idle == batch = {} /\ ~markerDue

\* A chunk of the catch-up, of any length: the window is a timer.
ReplayChunk ==
    /\ serverStage = "replaying"
    /\ Idle
    /\ \E last \in replay.next..replay.last :
        /\ batch' = Coalesce(replay.next..last)
        /\ replay' = [replay EXCEPT !.next = last + 1]
    /\ UNCHANGED <<engine, session, connected, clientStage, shell, cache, request, serverStage,
                   liveBuffer, markerDue, wire, markerAt, disturbances>>

FinishReplay ==
    /\ serverStage = "replaying"
    /\ Idle
    /\ replay.next > replay.last
    /\ serverStage' = "replayed"
    /\ UNCHANGED <<engine, session, connected, clientStage, shell, cache, request, replay,
                   liveBuffer, batch, markerDue, wire, markerAt, disturbances>>

\* Faulty variant: the marker overtakes what was retained.
OfferMarkerFirst ==
    /\ serverStage = "replayed"
    /\ serverStage' = "live"
    /\ batch' = Coalesce(liveBuffer)
    /\ wire' = Append(wire, [kind |-> "synchronized"])
    /\ liveBuffer' = {}
    /\ markerAt' = feed
    /\ UNCHANGED <<engine, session, connected, clientStage, shell, cache, request, replay,
                   markerDue, disturbances>>

\* The marker goes behind everything retained so far, and all of it is taken.
OfferMarker ==
    /\ serverStage = "replayed"
    /\ serverStage' = "live"
    /\ batch' = Coalesce(liveBuffer)
    /\ markerDue' = TRUE
    /\ liveBuffer' = {}
    /\ markerAt' = feed
    /\ UNCHANGED <<engine, session, connected, clientStage, shell, cache, request, replay, wire,
                   disturbances>>

LiveChunk ==
    /\ serverStage = "live"
    /\ Idle
    /\ \E last \in liveBuffer :
        /\ batch' = Coalesce({i \in liveBuffer : i <= last})
        /\ liveBuffer' = {i \in liveBuffer : i > last}
    /\ UNCHANGED <<engine, session, connected, clientStage, shell, cache, request, serverStage,
                   replay, markerDue, wire, markerAt, disturbances>>

\* toShellStreamEvent: a deletion or an archival removes the row, anything else
\* sends the row as it is projected now.
ItemFor(i) ==
    [kind |-> "row", sequence |-> i, aggregate |-> log[i].aggregate,
     row |-> IF log[i].kind = "hide" THEN Absent ELSE Row(log[i].aggregate)]

\* In ascending sequence.
Leave(i, item) ==
    /\ \A j \in batch : i <= j
    /\ batch' = batch \ {i}
    /\ wire' = Append(wire, item)
    /\ UNCHANGED <<engine, session, connected, clientStage, shell, cache, request, serverStage,
                   replay, liveBuffer, markerDue, markerAt>>

EmitItem == \E i \in batch : Leave(i, ItemFor(i)) /\ UNCHANGED disturbances

\* Both reads of a row failed: the item is dropped and only logged.  The "lost"
\* item stands for its absence; the client sees nothing.
DropItem ==
    \E i \in batch :
        /\ log[i].kind # "hide"
        /\ Disturbance
        /\ Leave(i, [kind |-> "lost", sequence |-> i])

EmitMarker ==
    /\ batch = {} /\ markerDue
    /\ markerDue' = FALSE
    /\ wire' = Append(wire, [kind |-> "synchronized"])
    /\ UNCHANGED <<engine, session, connected, clientStage, shell, cache, request, serverStage,
                   replay, liveBuffer, batch, markerAt, disturbances>>

\* The stream ends with an error: a failed query, or an overflowing budget.
FailStream ==
    /\ serverStage # "none"
    /\ Disturbance
    /\ serverStage' = "none"
    /\ liveBuffer' = {} /\ batch' = {} /\ markerDue' = FALSE /\ replay' = NoReplay
    /\ wire' = Append(wire, [kind |-> "error"])
    /\ request' = NoSnapshot
    /\ UNCHANGED <<engine, session, connected, clientStage, shell, cache, markerAt>>

-----------------------------------------------------------------------------
(* The client                                                              *)

NoSubscription ==
    /\ serverStage' = "none" /\ replay' = NoReplay
    /\ liveBuffer' = {} /\ batch' = {} /\ markerDue' = FALSE /\ wire' = <<>>

\* shellStatusForSnapshot
StatusOffline == IF cursor = NoSnapshot THEN "empty" ELSE "cached"

\* makeSubscribeInput: the same session resumes from the cursor in memory, a new
\* session loads the snapshot over HTTP first.
MakeSubscribeInput(s) ==
    /\ awaiting' = TRUE
    /\ status' = "synchronizing"
    /\ IF authoritative = s /\ cursor # NoSnapshot
       THEN clientStage' = "subscribing" /\ request' = cursor
       ELSE clientStage' = "loading" /\ request' = NoSnapshot

Connect ==
    /\ ~connected
    /\ session < MaxSessions
    /\ session' = session + 1
    /\ connected' = TRUE
    /\ MakeSubscribeInput(session + 1)
    /\ UNCHANGED <<engine, cursor, rows, authoritative, stranded, cache, serverStage, replay,
                   liveBuffer, batch, markerDue, wire, markerAt, disturbances>>

\* Before its authorization expires a session is replaced without a disconnect;
\* the old one is closed.
ReplaceSession ==
    /\ connected
    /\ session < MaxSessions
    /\ session' = session + 1
    /\ NoSubscription
    /\ MakeSubscribeInput(session + 1)
    /\ UNCHANGED <<engine, connected, cursor, rows, authoritative, stranded, cache, markerAt,
                   disturbances>>

\* A foreground wakeup resubscribes on the same session (switchMap).
Resubscribe ==
    /\ connected
    /\ Disturbance
    /\ NoSubscription
    /\ MakeSubscribeInput(session)
    /\ UNCHANGED <<engine, session, connected, cursor, rows, authoritative, stranded, cache,
                   markerAt>>

RetryAfterError ==
    /\ clientStage = "retrying"
    /\ NoSubscription
    /\ MakeSubscribeInput(session)
    /\ UNCHANGED <<engine, session, connected, cursor, rows, authoritative, stranded, cache,
                   markerAt, disturbances>>

\* A snapshot replaces what the client has and makes this session authoritative.
TakeSnapshot(sequence, snapshotRows) ==
    /\ cursor' = sequence
    /\ rows' = snapshotRows
    /\ status' = IF awaiting THEN "synchronizing" ELSE "live"
    /\ authoritative' = session
    /\ stranded' = {}

LoadSnapshot ==
    /\ clientStage = "loading"
    /\ TakeSnapshot(Len(log), AllRows)
    /\ request' = Len(log)
    /\ clientStage' = "subscribing"
    /\ UNCHANGED <<engine, session, connected, awaiting, cache, serverStage, replay, liveBuffer,
                   batch, markerDue, wire, markerAt, disturbances>>

\* Without a fresh snapshot the cached cursor is not offered to the server.
LoadFails ==
    /\ clientStage = "loading"
    /\ request' = NoSnapshot
    /\ clientStage' = "subscribing"
    /\ UNCHANGED <<engine, session, connected, shell, cache, serverStage, replay, liveBuffer,
                   batch, markerDue, wire, markerAt, disturbances>>

NextItem(kind) ==
    /\ wire # <<>>
    /\ Head(wire).kind = kind
    /\ wire' = Tail(wire)
    /\ UNCHANGED <<engine, session, connected, cache, request, serverStage, replay, liveBuffer,
                   batch, markerDue, markerAt, disturbances>>

\* applyItem, one action per kind of item.
ApplySnapshot ==
    /\ NextItem("snapshot")
    /\ TakeSnapshot(Head(wire).sequence, Head(wire).rows)
    /\ UNCHANGED <<clientStage, awaiting>>

\* A row makes up for what was lost of its aggregate before it.
Unreached(item) ==
    {i \in stranded : log[i].aggregate = item.aggregate => i > item.sequence}

\* Faulty variant: a removal is applied whatever the cursor is, as there is no row that
\* could be stale.
ApplyRemovalAlways ==
    /\ NextItem("row")
    /\ cursor # NoSnapshot
    /\ LET item == Head(wire) IN
        /\ cursor' = IF item.sequence > cursor THEN item.sequence ELSE cursor
        /\ IF item.sequence > cursor \/ item.row = Absent
           THEN /\ rows' = [rows EXCEPT ![item.aggregate] = item.row]
                /\ stranded' = Unreached(item)
           ELSE UNCHANGED <<rows, stranded>>
    /\ status' = IF awaiting THEN "synchronizing" ELSE "live"
    /\ UNCHANGED <<clientStage, awaiting, authoritative>>

ApplyRow ==
    /\ NextItem("row")
    /\ cursor # NoSnapshot
    /\ LET item == Head(wire) IN
        IF item.sequence > cursor
        THEN /\ cursor' = item.sequence
             /\ rows' = [rows EXCEPT ![item.aggregate] = item.row]
             /\ stranded' = Unreached(item)
        ELSE UNCHANGED <<cursor, rows, stranded>>
    /\ status' = IF awaiting THEN "synchronizing" ELSE "live"
    /\ UNCHANGED <<clientStage, awaiting, authoritative>>

\* Faulty variant: the completion marker does not change the status.
ApplySynchronizedSilently ==
    /\ NextItem("synchronized")
    /\ awaiting' = FALSE
    /\ UNCHANGED <<status, clientStage, cursor, rows, authoritative, stranded>>

ApplySynchronized ==
    /\ NextItem("synchronized")
    /\ awaiting' = FALSE
    /\ status' = IF cursor = NoSnapshot THEN status ELSE "live"
    /\ UNCHANGED <<clientStage, cursor, rows, authoritative, stranded>>

ApplyError ==
    /\ NextItem("error")
    /\ awaiting' = FALSE
    /\ status' = StatusOffline
    /\ clientStage' = "retrying"
    /\ UNCHANGED <<cursor, rows, authoritative, stranded>>

\* Not a step of the client: it records which event its cursor may pass unseen.
PassLostItem ==
    /\ NextItem("lost")
    /\ stranded' = stranded \cup {Head(wire).sequence}
    /\ UNCHANGED <<clientStage, cursor, rows, status, awaiting, authoritative>>

Disconnect ==
    /\ connected
    /\ session < MaxSessions
    /\ connected' = FALSE
    /\ clientStage' = "idle"
    /\ awaiting' = FALSE
    /\ status' = StatusOffline
    /\ NoSubscription
    /\ request' = NoSnapshot
    /\ UNCHANGED <<engine, session, cursor, rows, authoritative, stranded, cache, markerAt,
                   disturbances>>

\* The debounced write of the current snapshot.
Persist ==
    /\ cursor # NoSnapshot
    /\ cache' = [cursor |-> cursor, rows |-> rows, stranded |-> stranded]
    /\ UNCHANGED <<engine, session, connected, clientStage, shell, subscription, disturbances>>

\* The application is closed and opened again: it starts from its cache.
RestartClient ==
    /\ session < MaxSessions
    /\ Disturbance
    /\ connected' = FALSE
    /\ clientStage' = "idle"
    /\ cursor' = cache.cursor /\ rows' = cache.rows /\ stranded' = cache.stranded
    /\ status' = "synchronizing" /\ awaiting' = FALSE /\ authoritative' = 0
    /\ NoSubscription
    /\ request' = NoSnapshot
    /\ UNCHANGED <<engine, session, cache, markerAt>>

\* The server restarts: an event that was committed but not published never
\* will be, and every client loses its session.
RestartServer ==
    /\ session < MaxSessions
    /\ Disturbance
    /\ latest' = Len(log) /\ feed' = Len(log)
    /\ connected' = FALSE
    /\ clientStage' = "idle"
    /\ awaiting' = FALSE
    /\ status' = StatusOffline
    /\ NoSubscription
    /\ request' = NoSnapshot
    /\ UNCHANGED <<log, session, cursor, rows, authoritative, stranded, cache, markerAt>>

-----------------------------------------------------------------------------

EngineStep == SwapLatest \/ Publish

ServerStep ==
    \/ Attach \/ StartReplay \/ SendSnapshot \/ ReplayChunk \/ FinishReplay
    \/ OfferMarker \/ LiveChunk \/ EmitItem \/ EmitMarker

ClientStep ==
    \/ RetryAfterError \/ LoadSnapshot \/ LoadFails
    \/ ApplySnapshot \/ ApplyRow \/ ApplySynchronized \/ ApplyError \/ PassLostItem

Next ==
    \/ \E a \in Aggregates, kind \in {"show", "hide", "touch"} : Commit(a, kind)
    \/ EngineStep
    \/ ServerStep \/ DropItem \/ FailStream
    \/ ClientStep \/ Connect \/ ReplaceSession \/ Resubscribe \/ Disconnect
    \/ Persist \/ RestartClient \/ RestartServer

Spec == Init /\ [][Next]_vars

\* Every fiber is scheduled, and the supervisor keeps reconnecting.
FairSpec ==
    Spec /\ WF_vars(EngineStep) /\ WF_vars(ServerStep) /\ WF_vars(ClientStep) /\ WF_vars(Connect)

-----------------------------------------------------------------------------
(* Properties                                                              *)

Items ==
    [kind: {"row"}, sequence: Nat, aggregate: Aggregates, row: Nat]
        \cup [kind: {"snapshot"}, sequence: Nat, rows: [Aggregates -> Nat]]
        \cup [kind: {"synchronized", "error"}]
        \cup [kind: {"lost"}, sequence: Nat]

\* Every variable keeps its type.
TypeOK ==
    /\ log \in Seq([aggregate: Aggregates, kind: {"show", "hide", "touch"}])
    /\ feed \in 0..latest /\ latest \in 0..Len(log)
    /\ session \in Nat /\ connected \in BOOLEAN
    /\ clientStage \in {"idle", "loading", "subscribing", "streaming", "retrying"}
    /\ cursor \in NoSnapshot..Len(log) /\ rows \in [Aggregates -> Nat]
    /\ status \in {"empty", "cached", "synchronizing", "live"}
    /\ awaiting \in BOOLEAN /\ authoritative \in Nat
    /\ cache.cursor \in NoSnapshot..Len(log) /\ cache.rows \in [Aggregates -> Nat]
    /\ cache.stranded \subseteq 1..latest
    /\ request \in NoSnapshot..Len(log)
    /\ serverStage \in {"none", "attached", "replaying", "replayed", "live"}
    /\ replay \in [next: Nat \ {0}, last: Nat]
    /\ liveBuffer \subseteq 1..feed /\ batch \subseteq 1..latest /\ markerDue \in BOOLEAN
    /\ wire \in Seq(Items)
    /\ markerAt \in 0..feed /\ stranded \subseteq 1..latest

\* Aggregates of which an item is lost.
Stranded == {log[i].aggregate : i \in stranded}

\* A row reflects the first k events, or more of them.
Reflects(a, k) == \E n \in k..Len(log) : rows[a] = RowAt(a, n)

\* Resuming from the cursor loses nothing.  Coalescing can move the cursor past
\* an event whose item is dropped for a later one of the same aggregate, and a
\* disconnect, a resubscription or a write of the cache can fall in between;
\* but then that later event is still ahead of the cursor.  Only a row whose
\* read failed twice is excused.
ResumeLosesNothing ==
    cursor # NoSnapshot =>
        \A a \in Aggregates \ Stranded :
            Reflects(a, cursor) \/ \E i \in (cursor + 1)..Len(log) : log[i].aggregate = a

\* "live" is a promise: the client is connected and reflects every event that
\* had been published when the server queued the completion marker.
LiveMeansSynchronized ==
    status = "live" =>
        /\ connected
        /\ \A a \in Aggregates \ Stranded : Reflects(a, markerAt)

Removes(events, i, a) == events[i].aggregate = a /\ events[i].kind = "hide"

\* Of two rows of an aggregate the second is as new, or the aggregate was removed
\* after the first.
FollowsIn(events, old, new, a) ==
    \/ new >= old
    \/ new = Absent /\ \E i \in (old + 1)..Len(events) : Removes(events, i, a)
Follows(old, new, a) == FollowsIn(log, old, new, a)

\* The client has just come to a removal of the aggregate that is older than the row
\* it had: the row was read ahead of its event, which is still to come.
OlderRemoval(a) ==
    /\ cursor < cursor' /\ cursor' < rows[a]
    /\ cursor' \in 1..Len(log) /\ Removes(log, cursor', a)

\* When the sidebar goes back in time.  The cursor never does, except that a restarted
\* application begins with what it saved.  A row gives way to an older one in that case
\* only; it vanishes when the aggregate was removed after it, and also on an older
\* removal, because the item of an event carries the row as it is when the item is
\* sent.  Then the newer event is still ahead of the cursor.
BackwardsOnlyByRemoval ==
    [][\/ RestartClient
       \/ /\ cursor' >= cursor
          /\ \A a \in Aggregates :
               \/ Follows(rows[a], rows'[a], a)
               \/ rows'[a] = Absent /\ OlderRemoval(a)]_vars

\* Once the environment is quiet the client is live and shows what the server
\* has, whatever was lost on the way.
Converges ==
    <>[](/\ status = "live"
         /\ \A a \in Aggregates \ Stranded : rows[a] = Row(a))

-----------------------------------------------------------------------------
(* The inductive invariant behind the safety properties.                    *)

SameAggregate(i, j) == log[i].aggregate = log[j].aggregate

\* A row that reflects the first n events, or more of them.
Shows(row, a, n) == \E k \in n..Len(log) : row = RowAt(a, k)

\* What a client with these rows and this cursor lacks behind the cursor is lost, or
\* there is a later event of that aggregate ahead of the cursor.
Keeps(position, itsRows, lost) ==
    \A n \in 1..position :
        \/ Shows(itsRows[log[n].aggregate], log[n].aggregate, n)
        \/ \E m \in lost : m >= n /\ SameAggregate(m, n)
        \/ \E m \in (position + 1)..latest : SameAggregate(m, n)

ClientKeeps ==
    /\ Keeps(cursor, rows, stranded)
    /\ Keeps(cache.cursor, cache.rows, cache.stranded)

\* The client's rows were all true at some time.
RowsTrue == \A a \in Aggregates : Shows(rows[a], a, 0) /\ Shows(cache.rows[a], a, 0)

\* Sequence n is ahead of the cursor, and will be when the items before item p, or
\* all items, have been applied.
Passes(q, n) == wire[q].kind \in {"row", "snapshot"} => wire[q].sequence < n
Ahead(n, p) == n > cursor /\ \A q \in 1..(p - 1) : Passes(q, n)
AheadOfAll(n) == n > cursor /\ \A q \in DOMAIN wire : Passes(q, n)

\* Event n is shown, known as lost, or made up for by one of the first p items.
Shown(n) == n <= cursor /\ Shows(rows[log[n].aggregate], log[n].aggregate, n)
Lost(n) == \E m \in stranded : m >= n /\ SameAggregate(m, n)
MakesUp(q, n) ==
    \/ wire[q].kind = "snapshot" /\ wire[q].sequence >= n
    \/ \E m \in n..latest :
        /\ SameAggregate(m, n)
        /\ wire[q].kind \in {"row", "lost"} /\ wire[q].sequence = m
        /\ Ahead(m, q)
Accounted(n, p) == Shown(n) \/ Lost(n) \/ \E q \in 1..p : MakesUp(q, n)

\* By any item, or by an event whose item is about to be sent.
AccountedFor(n) == Shown(n) \/ Lost(n) \/ \E q \in DOMAIN wire : MakesUp(q, n)
Batched(n) == \E m \in batch : m >= n /\ SameAggregate(m, n) /\ AheadOfAll(m)
Pending(n) == AheadOfAll(n) /\ (n \in liveBuffer \/ n > feed)

\* An item leaves out nothing behind it but what a later event makes up for, and the
\* marker nothing that was published when it was queued.
WireCovers ==
    \A p \in DOMAIN wire :
        /\ wire[p].kind = "row" =>
            \A n \in 1..wire[p].sequence :
                \/ Accounted(n, p)
                \/ \E m \in (wire[p].sequence + 1)..latest : SameAggregate(m, n)
        /\ wire[p].kind = "synchronized" => \A n \in 1..markerAt : Accounted(n, p)

ReplayCovers ==
    serverStage = "replaying" =>
        /\ replay.last <= latest /\ replay.next <= replay.last + 1
        /\ cursor < replay.next /\ \A m \in batch : m < replay.next
        /\ \A p \in DOMAIN wire : /\ wire[p].kind # "snapshot"
                                  /\ wire[p].kind = "row" => wire[p].sequence < replay.next
        /\ \A n \in 1..(replay.next - 1) :
            \/ AccountedFor(n) \/ Batched(n)
            \/ \E m \in replay.next..replay.last : SameAggregate(m, n)
        /\ \A n \in (replay.last + 1)..feed : n \in liveBuffer

LiveCovers ==
    /\ serverStage \in {"replayed", "live"} =>
        \A n \in 1..Len(log) : AccountedFor(n) \/ Batched(n) \/ Pending(n)
    /\ serverStage = "live" => \A m \in batch : m <= feed /\ \A n \in liveBuffer : m < n
    /\ markerDue => \A n \in 1..markerAt : AccountedFor(n) \/ Batched(n)

\* Once the marker was applied, nothing it stands for is missing.
MarkerKept ==
    clientStage = "streaming" /\ ~awaiting => \A n \in 1..markerAt : Shown(n) \/ Lost(n)

\* Items say what was true when they were sent.  A snapshot is the first of its
\* subscription.
ItemsTrue ==
    \A p \in DOMAIN wire :
        /\ wire[p].kind = "row" =>
            /\ wire[p].sequence \in 1..latest
            /\ wire[p].aggregate = log[wire[p].sequence].aggregate
            /\ Shows(wire[p].row, wire[p].aggregate, wire[p].sequence)
        /\ wire[p].kind = "lost" => wire[p].sequence \in 1..latest
        /\ wire[p].kind = "snapshot" =>
            /\ p = 1 /\ wire[p].sequence \in 0..Len(log) /\ cursor <= wire[p].sequence
            /\ \A a \in Aggregates : wire[p].rows[a] = RowAt(a, wire[p].sequence)
            /\ \A m \in stranded : m <= wire[p].sequence

\* A row has an older one sent behind it by a removal only.
RowsForward ==
    \A p \in DOMAIN wire :
        /\ wire[p].kind = "row" =>
            \/ wire[p].row = Absent /\ Removes(log, wire[p].sequence, wire[p].aggregate)
            \/ /\ Follows(rows[wire[p].aggregate], wire[p].row, wire[p].aggregate)
               /\ \A q \in 1..(p - 1) :
                   /\ (wire[q].kind = "row" /\ wire[q].aggregate = wire[p].aggregate)
                        => Follows(wire[q].row, wire[p].row, wire[p].aggregate)
                   /\ wire[q].kind = "snapshot"
                        => Follows(wire[q].rows[wire[p].aggregate], wire[p].row, wire[p].aggregate)
        /\ wire[p].kind = "snapshot" =>
            \A a \in Aggregates : Follows(rows[a], wire[p].rows[a], a)

\* Where client and server are in a subscription, and with what between them.
Stages ==
    /\ clientStage # "idle" => connected
    /\ clientStage # "streaming" => serverStage = "none" /\ wire = <<>>
    /\ clientStage \in {"loading", "subscribing"} => awaiting
    /\ clientStage = "subscribing" \/ serverStage = "attached" => request \in {NoSnapshot, cursor}
    /\ serverStage = "attached" => wire = <<>>
    /\ serverStage \in {"none", "attached", "replayed"} => batch = {}
    /\ markerDue => serverStage = "live"
    /\ awaiting => status # "live"
    /\ status = "live" => clientStage = "streaming"
    /\ serverStage # "none" => \A p \in DOMAIN wire : wire[p].kind # "error"
    /\ \A p \in DOMAIN wire : wire[p].kind = "error" => p = Len(wire)

\* There is one marker, and the client awaits it.
OneMarker ==
    /\ serverStage \in {"attached", "replaying", "replayed"} \/ markerDue =>
        awaiting /\ \A p \in DOMAIN wire : wire[p].kind # "synchronized"
    /\ \A p, q \in DOMAIN wire : wire[p].kind = "synchronized" =>
        /\ awaiting
        /\ wire[q].kind = "synchronized" => p = q

IInv ==
    /\ TypeOK /\ Stages /\ OneMarker
    /\ RowsTrue /\ ItemsTrue /\ RowsForward
    /\ ClientKeeps /\ WireCovers /\ ReplayCovers /\ LiveCovers /\ MarkerKept

=============================================================================
