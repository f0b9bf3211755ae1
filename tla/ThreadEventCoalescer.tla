------------------------- MODULE ThreadEventCoalescer -------------------------
(***************************************************************************)
(* What stands between the engine's events and one subscriber of a thread: *)
(* makeThreadLiveEventCoalescer and makeLiveStreamBudget in                *)
(* apps/server/src/orchestration.                                          *)
(*                                                                         *)
(* Updates of tool calls wait in a window; of each call only the latest is *)
(* sent.  Everything retained for the subscriber is charged to a budget    *)
(* until the subscriber acknowledges it; when the budget is exceeded, the  *)
(* subscription fails and everything but what waits for the                *)
(* acknowledgement is released.                                            *)
(*                                                                         *)
(* An event is the tool call it updates, or Other.  Its items are known by *)
(* its sequence: the one retained as it is pulled, and the one that        *)
(* replaces it in the output.  The budget counts items; bytes are a second *)
(* limit of the same form.  An update without a call id is not modelled.   *)
(***************************************************************************)
EXTENDS Integers, Sequences, FiniteSets

CONSTANTS
    Calls, Other,
    MaxItems,     \* LIVE_STREAM_MAX_ITEMS
    MaxPending    \* MAX_PENDING_UPDATES

ASSUME CoalescerAssumption ==
    /\ Other \notin Calls
    /\ MaxItems \in Nat \ {0} /\ MaxPending \in Nat /\ MaxPending > 1

VARIABLES
    log,         \* the thread's events, published as they are committed
    pulled,      \* the last event pulled from the subscription to them
    batch,       \* what offerAll has yet to take; it holds the mutex meanwhile
    pending,     \* pendingUpdates
    window,      \* a window is open; cancelWindow waits for the end of its fiber,
                 \* so that none of an older generation ever fires
    output,      \* the output queue
    puller,      \* the delivery: "off", "idle" until acknowledged, or "pulling"
    taken,       \* pulled off the output, not yet known to be delivered
    inFlight,
    retained,    \* the budget's items
    failed, cleaned, closed   \* failure, cleanupComplete of the budget, closed

budgetVars == <<retained, failed, cleaned>>
coalescerVars == <<pulled, batch, pending, window, output, puller, taken, inFlight,
                   retained, failed, cleaned, closed>>

Marker == 0
Raw(n) == <<"raw", n>>
Sent(n) == <<"sent", n>>
Raws(s) == {Raw(s[i]) : i \in DOMAIN s}
Sents(s) == {Sent(s[i]) : i \in DOMAIN s}

Fresh(from) ==
    /\ pulled = from /\ batch = <<>> /\ pending = <<>> /\ window = FALSE /\ output = <<>>
    /\ puller = "off" /\ taken = <<>> /\ inFlight = <<>>
    /\ retained = {} /\ failed = FALSE /\ cleaned = FALSE /\ closed = FALSE

\* makeThreadLiveEventCoalescer; what an earlier one held is gone with its scope.
Attach(from) ==
    /\ pulled' = from /\ batch' = <<>> /\ pending' = <<>> /\ window' = FALSE /\ output' = <<>>
    /\ puller' = "off" /\ taken' = <<>> /\ inFlight' = <<>>
    /\ retained' = {} /\ failed' = FALSE /\ cleaned' = FALSE /\ closed' = FALSE

-----------------------------------------------------------------------------
(* The coalescer.                                                           *)

IsUpdate(n) == log[n] \in Calls

Elements(s) == {s[i] : i \in DOMAIN s}

\* The sequence of the members of a finite set of numbers, in their order.
Ascending(K) ==
    CHOOSE s \in [1..Cardinality(K) -> K] : \A i, j \in DOMAIN s : i < j => s[i] < s[j]

\* coalesceLiveToolUpdatedEvents, of the updates of one window and what ends it:
\* the latest of each call, and what is no update.
Survivors(s) ==
    {n \in Elements(s) : ~\E m \in Elements(s) : m > n /\ IsUpdate(n) /\ log[m] = log[n]}
Coalesce(s) == Ascending(Survivors(s))

Fits(items) == Cardinality(items) <= MaxItems

\* flushPending, of these pending updates: replace never makes more items.
Flush(updates, items) ==
    /\ output' = output \o Coalesce(updates)
    /\ retained' = (items \ Raws(updates)) \cup Sents(Coalesce(updates))
    /\ pending' = <<>> /\ window' = FALSE

\* The subscription to the engine's events hands over what there is.
PullBatch ==
    /\ batch = <<>> /\ ~failed /\ pulled < Len(log)
    /\ batch' = [i \in 1..(Len(log) - pulled) |-> pulled + i]
    /\ pulled' = Len(log)
    /\ UNCHANGED <<log, pending, window, output, puller, taken, inFlight, budgetVars, closed>>

\* budget.retain fails: so does offerAll, and nothing more is pulled.
Overflow ==
    /\ failed' = TRUE /\ batch' = <<>>
    /\ UNCHANGED <<pending, window, output, retained>>

\* Faulty variant: every update postpones the window, and one that waits with
\* others closes it.
OfferDebounced ==
    /\ batch # <<>>
    /\ LET n       == Head(batch)
           updates == Append(pending, n)
           items   == retained \cup {Raw(n)}
       IN  IF failed \/ ~Fits(items)
           THEN Overflow
           ELSE /\ batch' = Tail(batch) /\ UNCHANGED failed
                /\ IF IsUpdate(n) /\ Len(updates) < MaxPending
                   THEN /\ pending' = updates /\ retained' = items /\ UNCHANGED output
                        /\ window' = (Len(updates) = 1)
                   ELSE Flush(updates, items)
    /\ UNCHANGED <<log, pulled, puller, taken, inFlight, cleaned, closed>>

\* Faulty variant: the budget is checked one item too late.
OfferUnchecked ==
    /\ batch # <<>>
    /\ LET n       == Head(batch)
           updates == Append(pending, n)
           items   == retained \cup {Raw(n)}
       IN  IF failed \/ ~Fits(retained)
           THEN Overflow
           ELSE /\ batch' = Tail(batch) /\ UNCHANGED failed
                /\ IF IsUpdate(n) /\ Len(updates) < MaxPending
                   THEN /\ pending' = updates /\ retained' = items /\ UNCHANGED output
                        /\ window' = (window \/ Len(updates) = 1)
                   ELSE Flush(updates, items)
    /\ UNCHANGED <<log, pulled, puller, taken, inFlight, cleaned, closed>>

\* offerAll, one input.  The first update opens a window; a full one, or an event
\* that is no update, ends it at once.  cancelWindow waits for its fiber.
OfferEvent ==
    /\ batch # <<>>
    /\ LET n       == Head(batch)
           updates == Append(pending, n)
           items   == retained \cup {Raw(n)}
       IN  IF failed \/ ~Fits(items)
           THEN Overflow
           ELSE /\ batch' = Tail(batch) /\ UNCHANGED failed
                /\ IF IsUpdate(n) /\ Len(updates) < MaxPending
                   THEN /\ pending' = updates /\ retained' = items /\ UNCHANGED output
                        /\ window' = (window \/ Len(updates) = 1)
                   ELSE Flush(updates, items)
    /\ UNCHANGED <<log, pulled, puller, taken, inFlight, cleaned, closed>>

\* Faulty variant: the marker does not end the window.
OfferMarkerAhead ==
    /\ batch = <<>> /\ ~failed
    /\ LET items == retained \cup {Sent(Marker)}
       IN  /\ UNCHANGED <<pending, window>>
           /\ IF Fits(items)
              THEN output' = Append(output, Marker) /\ retained' = items /\ UNCHANGED failed
              ELSE UNCHANGED <<output, retained>> /\ failed' = TRUE
    /\ UNCHANGED <<log, pulled, batch, puller, taken, inFlight, cleaned, closed>>

\* offer of a synchronization marker.
OfferMarker ==
    /\ batch = <<>> /\ ~failed
    /\ LET sent  == output \o Coalesce(pending)
           items == (retained \ Raws(pending)) \cup Sents(Coalesce(pending))
       IN  /\ pending' = <<>> /\ window' = FALSE
           /\ IF Fits(items \cup {Sent(Marker)})
              THEN /\ output' = Append(sent, Marker) /\ retained' = items \cup {Sent(Marker)}
                   /\ UNCHANGED failed
              ELSE output' = sent /\ retained' = items /\ failed' = TRUE
    /\ UNCHANGED <<log, pulled, batch, puller, taken, inFlight, cleaned, closed>>

\* flushWindow, once it has slept and has the mutex.
WindowFires ==
    /\ batch = <<>> /\ window
    /\ IF failed
       THEN window' = FALSE /\ UNCHANGED <<output, retained, pending>>
       ELSE Flush(pending, retained)
    /\ UNCHANGED <<log, pulled, batch, puller, taken, inFlight, failed, cleaned, closed>>

\* close, after the budget failed.
CloseCoalescer ==
    /\ failed /\ ~closed /\ batch = <<>>
    /\ closed' = TRUE /\ window' = FALSE
    /\ retained' = retained \ (Raws(pending) \cup Sents(output))
    /\ pending' = <<>> /\ output' = <<>>
    /\ UNCHANGED <<log, pulled, batch, puller, taken, inFlight, failed, cleaned>>

-----------------------------------------------------------------------------
(* deliver of the budget.                                                   *)

\* The client has acknowledged a batch, or asks for the first.
Acknowledge ==
    /\ puller # "pulling"
    /\ retained' = retained \ Sents(inFlight) /\ inFlight' = <<>>
    /\ ~failed /\ puller' = "pulling"
    /\ UNCHANGED <<log, pulled, batch, pending, window, output, taken, failed, cleaned, closed>>

TakeOutput ==
    /\ puller = "pulling" /\ taken = <<>> /\ output # <<>>
    /\ taken' = output /\ output' = <<>>
    /\ UNCHANGED <<log, pulled, batch, pending, window, puller, inFlight, budgetVars, closed>>

\* Faulty variant: what is sent is no longer charged.
DeliverReleased ==
    /\ taken # <<>> /\ ~failed
    /\ inFlight' = taken /\ taken' = <<>> /\ puller' = "idle"
    /\ retained' = retained \ Sents(taken)
    /\ UNCHANGED <<log, pulled, batch, pending, window, output, failed, cleaned, closed>>

Deliver ==
    /\ taken # <<>> /\ ~failed
    /\ inFlight' = taken /\ taken' = <<>> /\ puller' = "idle"
    /\ UNCHANGED <<log, pulled, batch, pending, window, output, budgetVars, closed>>

\* The fiber that awaits the failure.
CleanUp ==
    /\ failed /\ ~cleaned /\ puller # "off"
    /\ cleaned' = TRUE /\ retained' = retained \cap Sents(inFlight)
    /\ UNCHANGED <<log, pulled, batch, pending, window, output, puller, taken, inFlight, failed, closed>>

-----------------------------------------------------------------------------
(* Properties                                                               *)

CoalescerTypeOK ==
    /\ log \in Seq(Calls \cup {Other}) /\ pulled \in 0..Len(log)
    /\ batch \in Seq(1..Len(log)) /\ pending \in Seq(1..Len(log))
        /\ output \in Seq(0..Len(log)) /\ taken \in Seq(0..Len(log)) /\ inFlight \in Seq(0..Len(log))
    /\ puller \in {"off", "idle", "pulling"}
    /\ retained \subseteq {"raw", "sent"} \X (0..Len(log)) /\ Fits(retained)
    /\ {window, failed, cleaned, closed} \subseteq BOOLEAN

\* The budget is charged for what is held and for nothing else, for a batch until
\* it is acknowledged, and after a failure for that batch only.
ChargesHeld ==
    /\ Sents(inFlight) \subseteq retained
    /\ ~failed => retained = Raws(pending) \cup Sents(output) \cup Sents(taken) \cup Sents(inFlight)
    /\ cleaned => retained = Sents(inFlight)

\* A pending update does not wait for another event to be sent: its window is open.
PendingHasWindow == pending # <<>> /\ batch = <<>> /\ ~failed => window

-----------------------------------------------------------------------------
(* The inductive invariant behind these properties.                         *)

Before(A, B) == \A m \in A \ {Marker}, n \in B \ {Marker} : m < n
InOrder(s) ==
    \A i, j \in DOMAIN s : (i < j /\ s[i] # Marker /\ s[j] # Marker) => s[i] < s[j]

Sending == Elements(inFlight) \cup Elements(taken)
Held == Elements(taken) \cup Elements(output) \cup Elements(pending) \cup Elements(batch)

\* What is retained lies in the order of the log, from the batch that awaits its
\* acknowledgement to the events not yet offered.
HeldInOrder ==
    /\ InOrder(taken) /\ InOrder(output) /\ InOrder(pending) /\ InOrder(batch)
    /\ Before(Sending, Elements(output))
    /\ Before(Sending \cup Elements(output), Elements(pending))
    /\ Before(Sending \cup Elements(output) \cup Elements(pending), Elements(batch))
    /\ \A n \in Elements(inFlight) \cup Held : n <= pulled

\* One batch is under way at a time, and the marker in one place.
OneBatch ==
    /\ puller = "pulling" => inFlight = <<>>
    /\ puller # "pulling" => taken = <<>>
    /\ puller = "off" => inFlight = <<>>
    /\ Marker \in Elements(output) => Sending = {}

WindowOpen == pending # <<>> /\ ~failed => window

CoalescerInv ==
    /\ CoalescerTypeOK /\ HeldInOrder /\ OneBatch /\ ChargesHeld /\ WindowOpen
    /\ cleaned => failed
=============================================================================
