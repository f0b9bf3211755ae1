-------------------------- MODULE ShellSync_proofs --------------------------
(***************************************************************************)
(* Proofs of when the client's shell goes back, that resuming from its     *)
(* cursor loses nothing and that "live" is true, for any number of         *)
(* aggregates, events, sessions, failures and restarts.                    *)
(*                                                                         *)
(* IInv follows each event from the log to the client's rows: what is      *)
(* behind an item of the stream is shown, known as lost, or made up for by *)
(* an item before it.  The lemmas go up from rows and events over what one *)
(* kind of step does to this to the steps of engine, server and client.    *)
(***************************************************************************)
EXTENDS ShellSync, SequenceTheorems, WellFoundedInduction, TLAPS

-----------------------------------------------------------------------------
(* The projected rows.                                                      *)

Below == {pair \in Nat \X Nat : pair[1] < pair[2]}

\* A set of natural numbers that is not empty has a least one.
LEMMA LeastOf ==
    ASSUME NEW T \in SUBSET Nat, T # {}
    PROVE  \E x \in T : \A y \in T : x <= y
<1>1. IsWellFoundedOn(Below, Nat)
  BY NatLessThanWellFounded, Zenon DEF OpToRel, Below
<1>2. PICK x \in T : \A y \in T : ~(<<y, x>> \in Below)
  BY <1>1, WFMin
<1>3. ASSUME NEW y \in T, y < x PROVE FALSE
  <2>1. <<y, x>> \in Below
    BY <1>3 DEF Below
  <2> QED
    BY <1>2, <2>1
<1> QED
  BY <1>3

\* The last of the first k events of a kind.
LEMMA LatestOf ==
    ASSUME NEW k \in Nat, NEW S \in SUBSET (1..k), S # {}
    PROVE  Latest(S) \in S /\ \A j \in S : j <= Latest(S)
<1> DEFINE T == {k - j : j \in S}
<1>1. T \in SUBSET Nat /\ T # {}
  <2>1. \A j \in S : k - j \in Nat
    OBVIOUS
  <2> QED
    BY <2>1
<1>2. PICK x \in T : \A y \in T : x <= y
  <2> HIDE DEF T
  <2> QED
    BY <1>1, LeastOf
<1>3. PICK i \in S : x = k - i
  OBVIOUS
<1>4. \A j \in S : j <= i
  BY <1>2, <1>3
<1> QED
  BY <1>3, <1>4 DEF Latest

\* A row is absent, or the last event of its aggregate.
LEMMA RowFacts ==
    ASSUME NEW events, NEW a, NEW k \in Nat
    PROVE  /\ RowIn(events, a, k) \in 0..k
           /\ RowIn(events, a, k) # Absent =>
                /\ RowIn(events, a, k) \in EventsOn(events, a, k)
                /\ \A i \in EventsOn(events, a, k) : i <= RowIn(events, a, k)
<1> DEFINE S == EventsOn(events, a, k)
<1>1. S \in SUBSET (1..k)
  BY DEF EventsOn
<1>2. CASE Present(events, a, k)
  <2>1. S # {}
    BY <1>2 DEF Present
  <2>2. Latest(S) \in S /\ \A j \in S : j <= Latest(S)
    <3> HIDE DEF S
    <3> QED
      BY <1>1, <2>1, LatestOf
  <2> QED
    BY <1>1, <1>2, <2>2 DEF RowIn
<1>3. CASE ~Present(events, a, k)
  BY <1>3 DEF RowIn, Absent
<1> QED
  BY <1>2, <1>3

\* A row is as it was when there was no later event.
LEMMA RowStays ==
    ASSUME NEW events, NEW a, NEW k \in Nat, NEW m \in Nat, k <= m,
           \A i \in (k + 1)..m : events[i].aggregate # a
    PROVE  RowIn(events, a, k) = RowIn(events, a, m)
<1>1. EventsOn(events, a, k) = EventsOn(events, a, m)
  BY DEF EventsOn
<1> QED
  BY <1>1 DEF RowIn, Present

\* The row of an aggregate that is deleted or archived.
LEMMA HiddenRow ==
    ASSUME NEW events, NEW i \in Nat \ {0}, events[i].kind = "hide"
    PROVE  RowIn(events, events[i].aggregate, i) = Absent
<1>1. i \in EventsOn(events, events[i].aggregate, i)
      /\ \A j \in EventsOn(events, events[i].aggregate, i) : j <= i /\ j \in Int
  BY DEF EventsOn
<1>2. ~Present(events, events[i].aggregate, i)
  BY <1>1 DEF Present
<1> QED
  BY <1>2 DEF RowIn

\* Rows are what they were after an event is appended.
LEMMA RowAppended ==
    ASSUME NEW events, NEW more, NEW k \in Nat, NEW a,
           \A i \in 1..k : more[i] = events[i]
    PROVE  RowIn(more, a, k) = RowIn(events, a, k)
<1>1. EventsOn(events, a, k) = EventsOn(more, a, k)
      /\ \A i \in EventsOn(events, a, k) : more[i] = events[i]
  BY DEF EventsOn
<1>2. Present(events, a, k) <=> Present(more, a, k)
  BY <1>1, Zenon DEF Present
<1> QED
  BY <1>1, <1>2 DEF RowIn

-----------------------------------------------------------------------------
(* What a step does to the account of the events.                          *)

\* The types the lemmas rely on.
LEMMA Basics ==
    ASSUME TypeOK
    PROVE  /\ Len(log) \in Nat /\ latest \in Nat /\ latest <= Len(log)
           /\ feed \in Nat /\ feed <= latest
           /\ cursor \in Int /\ -1 <= cursor /\ cursor <= Len(log)
           /\ stranded \subseteq 1..latest /\ batch \subseteq 1..latest
           /\ wire \in Seq(Items) /\ Len(wire) \in Nat /\ DOMAIN wire = 1..Len(wire)
           /\ \A n \in 1..Len(log) : log[n].aggregate \in Aggregates
           /\ rows \in [Aggregates -> Nat]
           /\ markerAt \in Nat /\ markerAt <= feed
           /\ replay.next \in Nat \ {0} /\ replay.last \in Nat
<1>1. log \in Seq([aggregate: Aggregates, kind: {"show", "hide", "touch"}])
  BY DEF TypeOK
<1>2. Len(log) \in Nat /\ \A n \in 1..Len(log) : log[n].aggregate \in Aggregates
  <2> DEFINE Event == [aggregate: Aggregates, kind: {"show", "hide", "touch"}]
  <2>1. \A e \in Event : e.aggregate \in Aggregates
    OBVIOUS
  <2>2. log \in Seq(Event)
    BY <1>1
  <2> HIDE DEF Event
  <2>3. Len(log) \in Nat /\ \A n \in 1..Len(log) : log[n] \in Event
    BY <2>2
  <2> QED
    BY <2>1, <2>3
<1>3. wire \in Seq(Items)
  BY DEF TypeOK
<1>4. Len(wire) \in Nat /\ DOMAIN wire = 1..Len(wire)
  BY <1>3
<1>5. /\ latest \in Nat /\ latest <= Len(log) /\ feed \in Nat /\ feed <= latest
      /\ cursor \in Int /\ -1 <= cursor /\ cursor <= Len(log)
  BY <1>2 DEF TypeOK, NoSnapshot
<1>6. /\ markerAt \in Nat /\ markerAt <= feed
      /\ replay.next \in Nat \ {0} /\ replay.last \in Nat
  BY <1>5 DEF TypeOK
<1> QED
  BY <1>2, <1>3, <1>4, <1>5, <1>6 DEF TypeOK

\* The log and latestSequence only grow.
Grows ==
    /\ Len(log') \in Nat /\ Len(log') >= Len(log)
    /\ \A i \in 1..Len(log) : log'[i] = log[i]
    /\ latest' \in Nat /\ latest' >= latest

LEMMA RowsKept ==
    ASSUME TypeOK, Grows
    PROVE  \A a : \A k \in 0..Len(log) : RowIn(log', a, k) = RowIn(log, a, k)
<1> TAKE a
<1> TAKE k \in 0..Len(log)
<1>1. Len(log) \in Nat
  BY Basics
<1>2. k \in Nat /\ \A i \in 1..k : log'[i] = log[i]
  BY <1>1 DEF Grows
<1> QED
  BY <1>2, RowAppended

\* What reflects some events reflects fewer.
LEMMA ShowsFewer ==
    ASSUME NEW n \in Int, NEW m \in Int, n <= m, NEW row, NEW a, Len(log) \in Nat,
           Shows(row, a, m)
    PROVE  Shows(row, a, n)
BY DEF Shows

\* The client stands still, and the stream is sent more.
Receives ==
    /\ Grows
    /\ UNCHANGED <<cursor, rows, stranded>>
    /\ Len(wire') \in Nat /\ DOMAIN wire' = 1..Len(wire') /\ Len(wire') >= Len(wire)
    /\ \A q \in DOMAIN wire : wire'[q] = wire[q]

LEMMA ShownStays ==
    ASSUME TypeOK, Receives, NEW n \in 1..Len(log)
    PROVE  /\ Shown(n) => Shown(n)'
           /\ Lost(n) => Lost(n)'
<1>1. log'[n] = log[n] /\ n \in Nat
  BY Basics DEF Receives, Grows
<1>2. Shown(n) => Shown(n)'
  <2> SUFFICES ASSUME Shown(n) PROVE Shown(n)'
    OBVIOUS
  <2>1. PICK k \in n..Len(log) :
            rows[log[n].aggregate] = RowIn(log, log[n].aggregate, k)
    BY DEF Shown, Shows, RowAt
  <2>2. k \in n..Len(log') /\ k \in 0..Len(log)
    BY <1>1, Basics DEF Receives, Grows
  <2>3. rows'[log'[n].aggregate] = RowIn(log', log'[n].aggregate, k)
    BY <1>1, <2>1, <2>2, RowsKept DEF Receives
  <2> QED
    BY <2>2, <2>3 DEF Shown, Shows, RowAt, Receives
<1>3. Lost(n) => Lost(n)'
  <2> SUFFICES ASSUME Lost(n) PROVE Lost(n)'
    OBVIOUS
  <2>1. PICK m \in stranded : m >= n /\ SameAggregate(m, n)
    BY DEF Lost
  <2>2. m \in 1..Len(log)
    BY Basics
  <2> QED
    BY <1>1, <2>1, <2>2 DEF Lost, SameAggregate, Receives, Grows
<1> QED
  BY <1>2, <1>3

LEMMA MadeUpStays ==
    ASSUME TypeOK, Receives, NEW n \in 1..Len(log), NEW q \in DOMAIN wire, MakesUp(q, n)
    PROVE  MakesUp(q, n)'
<1>1. wire'[q] = wire[q] /\ log'[n] = log[n]
  BY DEF Receives, Grows
<1>2. CASE wire[q].kind = "snapshot" /\ wire[q].sequence >= n
  BY <1>1, <1>2 DEF MakesUp
<1>3. ASSUME NEW m \in n..latest, SameAggregate(m, n), wire[q].kind \in {"row", "lost"},
             wire[q].sequence = m, Ahead(m, q)
      PROVE  MakesUp(q, n)'
  <2>0. m \in 1..Len(log) /\ log'[m] = log[m] /\ m \in n..latest'
    BY <1>3, Basics DEF Receives, Grows
  <2>1. m \in n..latest' /\ SameAggregate(m, n)'
    BY <1>1, <1>3, <2>0 DEF SameAggregate
  <2>2. Ahead(m, q)'
    <3>1. \A p \in 1..(q - 1) : p \in DOMAIN wire
      BY Basics
    <3> QED
      BY <1>3, <3>1 DEF Ahead, Passes, Receives
  <2> QED
    BY <1>1, <1>3, <2>1, <2>2 DEF MakesUp
<1> QED
  BY <1>2, <1>3 DEF MakesUp

LEMMA AccountStays ==
    ASSUME TypeOK, Receives, NEW n \in 1..Len(log)
    PROVE  /\ \A p \in DOMAIN wire : Accounted(n, p) => Accounted(n, p)'
           /\ AccountedFor(n) => AccountedFor(n)'
<1>1. Shown(n) \/ Lost(n) => Shown(n)' \/ Lost(n)'
  BY ShownStays
<1>2. \A q \in DOMAIN wire : MakesUp(q, n) => MakesUp(q, n)'
  BY MadeUpStays
<1>3. \A p \in DOMAIN wire : \A q \in 1..p : q \in DOMAIN wire
  BY Basics
<1>4. \A q \in DOMAIN wire : q \in DOMAIN wire'
  BY Basics DEF Receives
<1> QED
  BY <1>1, <1>2, <1>3, <1>4 DEF Accounted, AccountedFor

LEMMA AheadStays ==
    ASSUME TypeOK, Receives, NEW n, AheadOfAll(n),
           \/ wire' = wire
           \/ /\ DOMAIN wire' = 1..(Len(wire) + 1)
              /\ wire'[Len(wire) + 1].kind \in {"row", "snapshot"}
                    => wire'[Len(wire) + 1].sequence < n
    PROVE  AheadOfAll(n)'
<1>1. \A q \in DOMAIN wire : Passes(q, n)'
  BY DEF AheadOfAll, Passes, Receives
<1>2. CASE wire' = wire
  BY <1>1, <1>2 DEF AheadOfAll, Receives
<1>3. CASE /\ DOMAIN wire' = 1..(Len(wire) + 1)
           /\ wire'[Len(wire) + 1].kind \in {"row", "snapshot"}
                 => wire'[Len(wire) + 1].sequence < n
  <2>2. \A q \in DOMAIN wire' : Passes(q, n)'
    <3> TAKE q \in DOMAIN wire'
    <3>1. CASE q \in DOMAIN wire
      BY <1>1, <3>1
    <3>2. CASE q = Len(wire) + 1
      BY <1>3, <3>2 DEF Passes
    <3> QED
      BY <1>3, <3>1, <3>2, Basics
  <2> QED
    BY <2>2 DEF AheadOfAll, Receives
<1> QED
  BY <1>2, <1>3

\* The item of an event makes up for what its batch would have.
LEMMA SentMakesUp ==
    ASSUME TypeOK, Receives, DOMAIN wire' = 1..(Len(wire) + 1),
           NEW i \in 1..latest, AheadOfAll(i),
           wire'[Len(wire) + 1].kind \in {"row", "lost"}, wire'[Len(wire) + 1].sequence = i,
           NEW n \in 1..Len(log), i >= n, SameAggregate(i, n)
    PROVE  AccountedFor(n)'
<1> DEFINE p == Len(wire) + 1
<1>1. p \in DOMAIN wire' /\ p \in Nat
  BY Basics
<1>0. latest \in Nat /\ latest <= Len(log) /\ Len(log) \in Nat
  BY Basics
<1>2. i \in n..latest' /\ i \in 1..Len(log) /\ log'[i] = log[i] /\ log'[n] = log[n]
  BY <1>0 DEF Receives, Grows
<1>3. SameAggregate(i, n)'
  BY <1>2 DEF SameAggregate
<1>4. \A r : r = p => Ahead(i, r)'
  <2>1. 1..(p - 1) = DOMAIN wire /\ \A q \in DOMAIN wire : Passes(q, i)'
    BY Basics DEF AheadOfAll, Passes, Receives
  <2> QED
    BY <2>1 DEF Ahead, AheadOfAll, Receives
<1>5. \A r : r = p => MakesUp(r, n)'
  BY <1>2, <1>3, <1>4 DEF MakesUp
<1> QED
  BY <1>1, <1>5 DEF AccountedFor

\* The client applies the first item.
Applies ==
    /\ UNCHANGED <<log, latest>>
    /\ wire # <<>> /\ wire' = Tail(wire)
    /\ \/ /\ wire[1].kind = "row" /\ wire[1].sequence > cursor
          /\ cursor' = wire[1].sequence
          /\ rows' = [rows EXCEPT ![wire[1].aggregate] = wire[1].row]
          /\ stranded' = Unreached(wire[1])
       \/ /\ wire[1].kind = "row" => wire[1].sequence <= cursor
          /\ wire[1].kind \notin {"lost", "snapshot"}
          /\ UNCHANGED <<cursor, rows, stranded>>
       \/ /\ wire[1].kind = "lost"
          /\ stranded' = stranded \cup {wire[1].sequence}
          /\ UNCHANGED <<cursor, rows>>
       \/ /\ wire[1].kind = "snapshot"
          /\ cursor' = wire[1].sequence /\ rows' = wire[1].rows /\ stranded' = {}

LEMMA TailFacts ==
    ASSUME TypeOK, Applies
    PROVE  /\ Len(wire) \in Nat \ {0} /\ 1 \in DOMAIN wire /\ wire[1] = Head(wire)
           /\ Len(wire') = Len(wire) - 1 /\ DOMAIN wire' = 1..(Len(wire) - 1)
           /\ \A q \in DOMAIN wire' : wire'[q] = wire[q + 1] /\ q + 1 \in DOMAIN wire
           /\ wire' \in Seq(Items)
BY Basics DEF Applies

\* What the client shows, it goes on showing, and it shows what it applies.
LEMMA ShownApplied ==
    ASSUME TypeOK, ItemsTrue, Applies, NEW n \in 1..Len(log)
    PROVE  /\ Shown(n) => Shown(n)'
           /\ Lost(n) \/ MakesUp(1, n) => Shown(n)' \/ Lost(n)'
<1> DEFINE item == wire[1]
           a == log[n].aggregate
<1>1. 1 \in DOMAIN wire /\ UNCHANGED <<log, latest>> /\ a \in Aggregates /\ n \in Nat
      /\ Len(log) \in Nat /\ rows \in [Aggregates -> Nat] /\ cursor \in Int
  BY Basics, TailFacts DEF Applies
<1>0. item.kind = "row" => item.sequence \in Int /\ item.sequence > 0
  <2>1. item.kind = "row" => item.sequence \in 1..latest
    BY <1>1 DEF ItemsTrue
  <2>2. latest \in Nat
    BY Basics
  <2> QED
    BY <2>1, <2>2
<1>2. CASE item.kind = "row" /\ item.sequence > cursor
  <2>1. /\ cursor' = item.sequence
        /\ rows' = [rows EXCEPT ![item.aggregate] = item.row]
        /\ stranded' = Unreached(item)
    BY <1>0, <1>1, <1>2 DEF Applies
  <2>2. /\ item.sequence \in 1..latest /\ item.aggregate = log[item.sequence].aggregate
        /\ Shows(item.row, item.aggregate, item.sequence)
    BY <1>1, <1>2 DEF ItemsTrue
  <2>3. ASSUME a = item.aggregate, n <= item.sequence PROVE Shown(n)'
    <3>1. item.sequence \in Int /\ n \in Int
      BY <2>2
    <3>2. Shows(item.row, item.aggregate, n)
      BY <1>1, <2>2, <2>3, <3>1, ShowsFewer
    <3>3. rows'[a] = item.row
      BY <1>1, <2>1, <2>3
    <3> QED
      BY <1>1, <2>1, <2>3, <3>2, <3>3 DEF Shown, Shows, RowAt
  <2>4. ASSUME Shown(n) PROVE Shown(n)'
    <3>1. CASE a = item.aggregate
      BY <1>1, <1>2, <2>2, <2>3, <2>4, <3>1 DEF Shown
    <3>2. CASE a # item.aggregate
      <4>1. rows'[a] = rows[a]
        BY <1>1, <2>1, <3>2
      <4> QED
        BY <1>1, <1>2, <2>1, <2>2, <2>4, <4>1 DEF Shown, Shows, RowAt
    <3> QED
      BY <3>1, <3>2
  <2>5. ASSUME Lost(n) PROVE Shown(n)' \/ Lost(n)'
    <3>1. PICK m \in stranded : m >= n /\ SameAggregate(m, n)
      BY <2>5 DEF Lost
    <3>2. CASE m \in stranded'
      BY <1>1, <3>1, <3>2 DEF Lost, SameAggregate
    <3>3. CASE m \notin stranded'
      <4>1. log[m].aggregate = item.aggregate /\ m <= item.sequence
        BY <2>1, <2>2, <3>1, <3>3, Basics DEF Unreached
      <4> QED
        BY <2>2, <2>3, <3>1, <4>1, Basics DEF SameAggregate
    <3> QED
      BY <3>2, <3>3
  <2>6. ASSUME MakesUp(1, n) PROVE Shown(n)'
    BY <1>2, <2>2, <2>3, <2>6, Basics DEF MakesUp, SameAggregate
  <2> QED
    BY <2>4, <2>5, <2>6
<1>3. CASE /\ item.kind = "row" => item.sequence <= cursor
           /\ item.kind \notin {"lost", "snapshot"}
  <2>1. UNCHANGED <<cursor, rows, stranded>>
    BY <1>0, <1>1, <1>3 DEF Applies
  <2>2. ~MakesUp(1, n)
    BY <1>1, <1>3, Basics DEF MakesUp, Ahead
  <2>3. Shown(n) => Shown(n)'
    BY <1>1, <2>1 DEF Shown, Shows, RowAt
  <2>4. Lost(n) => Lost(n)'
    BY <1>1, <2>1 DEF Lost, SameAggregate
  <2> QED
    BY <2>2, <2>3, <2>4
<1>4. CASE item.kind = "lost"
  <2>1. stranded' = stranded \cup {item.sequence} /\ UNCHANGED <<cursor, rows>>
    BY <1>4 DEF Applies
  <2>2. Shown(n) => Shown(n)'
    BY <1>1, <2>1 DEF Shown, Shows, RowAt
  <2>3. Lost(n) => Lost(n)'
    BY <1>1, <2>1 DEF Lost, SameAggregate
  <2>4. MakesUp(1, n) => Lost(n)'
    BY <1>1, <1>4, <2>1 DEF MakesUp, Lost, SameAggregate
  <2> QED
    BY <2>2, <2>3, <2>4
<1>5. CASE item.kind = "snapshot"
  <2>1. cursor' = item.sequence /\ rows' = item.rows /\ stranded' = {}
    BY <1>5 DEF Applies
  <2>2. /\ item.sequence \in 0..Len(log) /\ cursor <= item.sequence
        /\ item.rows[a] = RowAt(a, item.sequence)
        /\ \A m \in stranded : m <= item.sequence
    BY <1>1, <1>5 DEF ItemsTrue
  <2>3. ASSUME n <= item.sequence PROVE Shown(n)'
    <3>1. item.sequence \in n..Len(log) /\ rows'[a] = RowIn(log, a, item.sequence)
      BY <1>1, <2>1, <2>2, <2>3 DEF RowAt
    <3>2. Shows(rows[a], a, n)'
      BY <1>1, <3>1 DEF Shows, RowAt
    <3> QED
      BY <1>1, <2>1, <2>3, <3>1 DEF Shown, Shows, RowAt
  <2>4. Shown(n) => n <= item.sequence
    BY <1>1, <2>2 DEF Shown
  <2>5. Lost(n) => n <= item.sequence
    BY <1>1, <2>2, Basics DEF Lost
  <2>6. MakesUp(1, n) => n <= item.sequence
    BY <1>1, <1>5, <2>2 DEF MakesUp
  <2> QED
    BY <2>3, <2>4, <2>5, <2>6
<1> QED
  BY <1>2, <1>3, <1>4, <1>5 DEF Applies

\* What is still ahead is made up for by the same items, one place nearer.
LEMMA AheadApplied ==
    ASSUME TypeOK, ItemsTrue, Applies, NEW n \in Int
    PROVE  /\ \A q \in DOMAIN wire' : Ahead(n, q + 1) => Ahead(n, q)'
           /\ AheadOfAll(n) => AheadOfAll(n)'
<1>1. n > cursor /\ Passes(1, n) => n > cursor'
  <2>1. cursor' = cursor \/ (wire[1].kind \in {"row", "snapshot"} /\ cursor' = wire[1].sequence)
    BY DEF Applies
  <2> QED
    BY <2>1 DEF Passes
<1>2. \A q \in DOMAIN wire' : Passes(q + 1, n) => Passes(q, n)'
  <2> TAKE q \in DOMAIN wire'
  <2>1. wire'[q] = wire[q + 1]
    BY TailFacts
  <2> QED
    BY <2>1 DEF Passes
<1>3. ASSUME NEW q \in DOMAIN wire', Ahead(n, q + 1) PROVE Ahead(n, q)'
  <2>1. q \in Nat \ {0} /\ \A r \in 1..(q - 1) : r \in DOMAIN wire' /\ r + 1 \in 1..((q + 1) - 1)
    BY TailFacts
  <2>2. 1 \in 1..((q + 1) - 1)
    BY <2>1
  <2>3. n > cursor'
    BY <1>1, <1>3, <2>2 DEF Ahead
  <2>4. \A r \in 1..(q - 1) : Passes(r, n)'
    BY <1>2, <1>3, <2>1 DEF Ahead
  <2> QED
    BY <2>3, <2>4 DEF Ahead
<1>4. ASSUME AheadOfAll(n) PROVE AheadOfAll(n)'
  <2>1. n > cursor'
    BY <1>1, <1>4, TailFacts DEF AheadOfAll
  <2>2. \A q \in DOMAIN wire' : Passes(q, n)'
    BY <1>2, <1>4, TailFacts DEF AheadOfAll
  <2> QED
    BY <2>1, <2>2 DEF AheadOfAll
<1> QED
  BY <1>3, <1>4

LEMMA MadeUpApplied ==
    ASSUME TypeOK, ItemsTrue, Applies, NEW n \in 1..Len(log), NEW q \in DOMAIN wire',
           MakesUp(q + 1, n)
    PROVE  MakesUp(q, n)'
<1>1. wire'[q] = wire[q + 1] /\ UNCHANGED <<log, latest>>
  BY TailFacts DEF Applies
<1>2. CASE wire[q + 1].kind = "snapshot" /\ wire[q + 1].sequence >= n
  BY <1>1, <1>2 DEF MakesUp
<1>3. ASSUME NEW m \in n..latest, SameAggregate(m, n), wire[q + 1].kind \in {"row", "lost"},
             wire[q + 1].sequence = m, Ahead(m, q + 1)
      PROVE  MakesUp(q, n)'
  <2>1. Ahead(m, q)'
    BY <1>3, AheadApplied
  <2>2. SameAggregate(m, n)'
    BY <1>1, <1>3 DEF SameAggregate
  <2> QED
    BY <1>1, <1>3, <2>1, <2>2 DEF MakesUp
<1> QED
  BY <1>2, <1>3 DEF MakesUp

LEMMA AccountApplied ==
    ASSUME TypeOK, ItemsTrue, Applies, NEW n \in 1..Len(log)
    PROVE  /\ \A p \in DOMAIN wire' : Accounted(n, p + 1) => Accounted(n, p)'
           /\ Accounted(n, 1) => Shown(n)' \/ Lost(n)'
           /\ AccountedFor(n) => AccountedFor(n)'
<1>1. Shown(n) \/ Lost(n) \/ MakesUp(1, n) => Shown(n)' \/ Lost(n)'
  BY ShownApplied
<1>2. \A q \in DOMAIN wire' : MakesUp(q + 1, n) => MakesUp(q, n)'
  BY MadeUpApplied
<1>3. ASSUME NEW p \in DOMAIN wire', Accounted(n, p + 1) PROVE Accounted(n, p)'
  <2>1. p \in Nat \ {0} /\ 1..p \subseteq DOMAIN wire'
    BY TailFacts
  <2>2. ASSUME NEW q \in 1..(p + 1), MakesUp(q, n), q # 1 PROVE \E r \in 1..p : MakesUp(r, n)'
    <3>1. q - 1 \in 1..p /\ q - 1 \in DOMAIN wire' /\ (q - 1) + 1 = q
      BY <2>1, <2>2
    <3>2. PICK r \in 1..p : r \in DOMAIN wire' /\ r + 1 = q
      BY <3>1
    <3> QED
      BY <1>2, <2>2, <3>2
  <2> QED
    BY <1>1, <1>3, <2>2 DEF Accounted
<1>4. Accounted(n, 1) => Shown(n)' \/ Lost(n)'
  <2>1. \A q \in 1..1 : q = 1
    OBVIOUS
  <2> QED
    BY <1>1, <2>1 DEF Accounted
<1>5. ASSUME AccountedFor(n) PROVE AccountedFor(n)'
  <2>1. ASSUME NEW q \in DOMAIN wire, MakesUp(q, n), q # 1
        PROVE  \E r \in DOMAIN wire' : MakesUp(r, n)'
    <3>0. DOMAIN wire' = 1..(Len(wire) - 1) /\ DOMAIN wire = 1..Len(wire) /\ Len(wire) \in Nat
      BY TailFacts, Basics
    <3>1. q - 1 \in DOMAIN wire' /\ (q - 1) + 1 = q
      BY <2>1, <3>0
    <3>2. PICK r \in DOMAIN wire' : r + 1 = q
      BY <3>1
    <3> QED
      BY <1>2, <2>1, <3>2
  <2> QED
    BY <1>1, <1>5, <2>1 DEF AccountedFor
<1> QED
  BY <1>3, <1>4, <1>5

-----------------------------------------------------------------------------
(* What the client and its cache keep.                                     *)

LEMMA KeepsStays ==
    ASSUME TypeOK, Grows, NEW position \in NoSnapshot..Len(log), NEW itsRows,
           NEW lost \in SUBSET (1..latest), Keeps(position, itsRows, lost)
    PROVE  Keeps(position, itsRows, lost)'
<1> SUFFICES ASSUME NEW n \in 1..position
             PROVE  \/ Shows(itsRows[log[n].aggregate], log[n].aggregate, n)'
                    \/ \E m \in lost : m >= n /\ SameAggregate(m, n)'
                    \/ \E m \in (position + 1)..latest' : SameAggregate(m, n)'
  BY DEF Keeps
<1>1. /\ n \in 1..Len(log) /\ log'[n] = log[n] /\ position \in Int
      /\ \A m \in 1..latest : m \in 1..Len(log) /\ m \in 1..latest' /\ log'[m] = log[m]
  BY Basics DEF Grows, NoSnapshot
<1>2. \A m \in 1..latest : SameAggregate(m, n) => SameAggregate(m, n)'
  BY <1>1 DEF SameAggregate
<1>3. CASE Shows(itsRows[log[n].aggregate], log[n].aggregate, n)
  <2>1. PICK k \in n..Len(log) : itsRows[log[n].aggregate] = RowIn(log, log[n].aggregate, k)
    BY <1>3 DEF Shows, RowAt
  <2>2. k \in n..Len(log') /\ k \in 0..Len(log)
    BY <1>1, Basics DEF Grows
  <2>3. itsRows[log'[n].aggregate] = RowIn(log', log'[n].aggregate, k)
    BY <1>1, <2>1, <2>2, RowsKept
  <2> QED
    BY <2>2, <2>3 DEF Shows, RowAt
<1>4. CASE \E m \in lost : m >= n /\ SameAggregate(m, n)
  BY <1>2, <1>4
<1>5. CASE \E m \in (position + 1)..latest : SameAggregate(m, n)
  <2>1. PICK m \in (position + 1)..latest : SameAggregate(m, n)
    BY <1>5
  <2>2. m \in 1..latest /\ m \in (position + 1)..latest'
    BY <1>1, <2>1, Basics DEF Grows
  <2> QED
    BY <1>2, <2>1, <2>2
<1> QED
  BY <1>3, <1>4, <1>5 DEF Keeps

\* A step at which the client stands still, or writes its cache.
LEMMA KeepsReceived ==
    ASSUME TypeOK, Grows, UNCHANGED <<cursor, rows, stranded>>, ClientKeeps,
           cache' = cache \/ cache' = [cursor |-> cursor, rows |-> rows, stranded |-> stranded]
    PROVE  ClientKeeps'
<1>1. /\ cursor \in NoSnapshot..Len(log) /\ stranded \in SUBSET (1..latest)
      /\ cache.cursor \in NoSnapshot..Len(log) /\ cache.stranded \in SUBSET (1..latest)
  BY DEF TypeOK
<1>2. ASSUME NEW c, NEW r, NEW l, c = cursor, r = rows, l = stranded PROVE Keeps(c, r, l)'
  BY <1>1, <1>2, KeepsStays DEF ClientKeeps
<1>3. ASSUME NEW c, NEW r, NEW l, c = cache.cursor, r = cache.rows, l = cache.stranded
      PROVE  Keeps(c, r, l)'
  BY <1>1, <1>3, KeepsStays DEF ClientKeeps
<1>4. \A c, r, l : c = cursor' /\ r = rows' /\ l = stranded' => Keeps(c, r, l)'
  BY <1>2
<1>5. \A c, r, l : c = cache'.cursor /\ r = cache'.rows /\ l = cache'.stranded => Keeps(c, r, l)'
  BY <1>2, <1>3
<1> QED
  BY <1>4, <1>5 DEF ClientKeeps

\* The lost or later events that ClientKeeps speaks of, at a step of the client.
LEMMA KeepsApplied ==
    ASSUME TypeOK, ItemsTrue, WireCovers, ClientKeeps, Applies, UNCHANGED cache
    PROVE  ClientKeeps'
<1>1. /\ UNCHANGED <<log, latest>> /\ 1 \in DOMAIN wire
      /\ latest \in Nat /\ latest <= Len(log) /\ Len(log) \in Nat /\ cursor \in Int
  BY Basics, TailFacts DEF Applies
<1>2. ASSUME NEW n \in 1..cursor'
      PROVE  \/ Shown(n)' \/ Lost(n)'
             \/ \E m \in (cursor' + 1)..latest : SameAggregate(m, n)
  <2>1. CASE cursor' = cursor
    <3>1. n \in 1..cursor /\ n \in 1..Len(log)
      BY <2>1, Basics
    <3>2. Shown(n) \/ Lost(n) \/ \E m \in (cursor' + 1)..latest : SameAggregate(m, n)
      BY <2>1, <3>1 DEF ClientKeeps, Keeps, Shown, Lost
    <3> QED
      BY <3>1, <3>2, ShownApplied
  <2>2. CASE wire[1].kind = "row" /\ cursor' = wire[1].sequence
    <3>1. wire[1].sequence \in 1..latest /\ n \in 1..Len(log) /\ n \in 1..wire[1].sequence
      BY <1>1, <2>2 DEF ItemsTrue
    <3>2. \/ Accounted(n, 1)
          \/ \E m \in (cursor' + 1)..latest : SameAggregate(m, n)
      BY <1>1, <2>2, <3>1 DEF WireCovers
    <3> QED
      BY <3>1, <3>2, AccountApplied
  <2>3. CASE wire[1].kind = "snapshot" /\ cursor' = wire[1].sequence
    <3>1. n \in 1..Len(log) /\ n <= wire[1].sequence
      BY <1>1, <2>3 DEF ItemsTrue
    <3>2. MakesUp(1, n)
      BY <2>3, <3>1 DEF MakesUp
    <3> QED
      BY <3>1, <3>2, ShownApplied
  <2> QED
    BY <2>1, <2>2, <2>3 DEF Applies
<1>3. \A n \in 1..cursor' :
        \/ Shows(rows[log[n].aggregate], log[n].aggregate, n)'
        \/ \E m \in stranded' : m >= n /\ SameAggregate(m, n)'
        \/ \E m \in (cursor' + 1)..latest' : SameAggregate(m, n)'
  BY <1>1, <1>2 DEF Shown, Lost, SameAggregate
<1>4. \A c, r, l : c = cache.cursor /\ r = cache.rows /\ l = cache.stranded => Keeps(c, r, l)'
  BY <1>1 DEF ClientKeeps, Keeps, Shows, RowAt, SameAggregate
<1> QED
  BY <1>3, <1>4 DEF ClientKeeps, Keeps

-----------------------------------------------------------------------------
(* A step of the client.                                                    *)

LEMMA WireCoversApplied ==
    ASSUME TypeOK, ItemsTrue, WireCovers, Applies, UNCHANGED markerAt
    PROVE  WireCovers'
<1> SUFFICES ASSUME NEW p \in DOMAIN wire'
             PROVE  /\ wire'[p].kind = "row" =>
                        \A n \in 1..wire'[p].sequence :
                            \/ Accounted(n, p)'
                            \/ \E m \in (wire'[p].sequence + 1)..latest' : SameAggregate(m, n)'
                    /\ wire'[p].kind = "synchronized" => \A n \in 1..markerAt' : Accounted(n, p)'
  BY DEF WireCovers
<1>1. /\ wire'[p] = wire[p + 1] /\ p + 1 \in DOMAIN wire /\ UNCHANGED <<log, latest>>
      /\ latest \in Nat /\ latest <= Len(log) /\ Len(log) \in Nat
  BY Basics, TailFacts DEF Applies
<1>2. \A n \in 1..Len(log) : Accounted(n, p + 1) => Accounted(n, p)'
  BY AccountApplied
<1>3. ASSUME wire'[p].kind = "row", NEW n \in 1..wire'[p].sequence
      PROVE  \/ Accounted(n, p)'
             \/ \E m \in (wire'[p].sequence + 1)..latest' : SameAggregate(m, n)'
  <2>1. wire[p + 1].sequence \in 1..latest /\ n \in 1..Len(log)
    BY <1>1, <1>3 DEF ItemsTrue
  <2>2. \/ Accounted(n, p + 1)
        \/ \E m \in (wire[p + 1].sequence + 1)..latest : SameAggregate(m, n)
    BY <1>1, <1>3 DEF WireCovers
  <2> QED
    BY <1>1, <1>2, <2>1, <2>2 DEF SameAggregate
<1>4. ASSUME wire'[p].kind = "synchronized", NEW n \in 1..markerAt' PROVE Accounted(n, p)'
  <2>1. n \in 1..Len(log) /\ n \in 1..markerAt
    BY <1>1 DEF TypeOK
  <2> QED
    BY <1>1, <1>2, <1>4, <2>1 DEF WireCovers
<1> QED
  BY <1>3, <1>4

\* What is about to be sent is still ahead when the client has applied an item.
LEMMA BatchedApplied ==
    ASSUME TypeOK, ItemsTrue, Applies, UNCHANGED <<feed, liveBuffer, batch>>,
           NEW n \in 1..Len(log)
    PROVE  /\ Batched(n) => Batched(n)'
           /\ Pending(n) => Pending(n)'
<1>1. UNCHANGED log /\ n \in Int /\ \A m \in batch : m \in Int
  BY Basics DEF Applies
<1>2. \A m \in Int : AheadOfAll(m) => AheadOfAll(m)'
  BY AheadApplied
<1>3. Batched(n) => Batched(n)'
  BY <1>1, <1>2 DEF Batched, SameAggregate
<1>4. Pending(n) => Pending(n)'
  BY <1>1, <1>2 DEF Pending
<1> QED
  BY <1>3, <1>4

LEMMA ReplayCoversApplied ==
    ASSUME TypeOK, ItemsTrue, ReplayCovers, Applies,
           UNCHANGED <<feed, serverStage, replay, liveBuffer, batch>>
    PROVE  ReplayCovers'
<1> SUFFICES ASSUME serverStage = "replaying" PROVE ReplayCovers'
  BY DEF ReplayCovers
<1>1. /\ UNCHANGED <<log, latest>> /\ latest \in Nat /\ latest <= Len(log) /\ Len(log) \in Nat
      /\ \A q \in DOMAIN wire' : wire'[q] = wire[q + 1] /\ q + 1 \in DOMAIN wire
      /\ 1 \in DOMAIN wire
  BY Basics, TailFacts DEF Applies
<1>2. /\ replay.last <= latest /\ replay.next <= replay.last + 1
      /\ cursor < replay.next /\ \A m \in batch : m < replay.next
      /\ \A p \in DOMAIN wire : /\ wire[p].kind # "snapshot"
                                /\ wire[p].kind = "row" => wire[p].sequence < replay.next
      /\ \A n \in 1..(replay.next - 1) :
            \/ AccountedFor(n) \/ Batched(n)
            \/ \E m \in replay.next..replay.last : SameAggregate(m, n)
      /\ \A n \in (replay.last + 1)..feed : n \in liveBuffer
  BY DEF ReplayCovers
<1>3. cursor' < replay.next
  BY <1>1, <1>2 DEF Applies
<1>4. \A p \in DOMAIN wire' : /\ wire'[p].kind # "snapshot"
                              /\ wire'[p].kind = "row" => wire'[p].sequence < replay.next
  BY <1>1, <1>2
<1>5. ASSUME NEW n \in 1..(replay.next - 1)
      PROVE  \/ AccountedFor(n)' \/ Batched(n)'
             \/ \E m \in replay.next..replay.last : SameAggregate(m, n)'
  <2>1. n \in 1..Len(log)
    BY <1>1, <1>2, Basics
  <2>2. CASE AccountedFor(n)
    BY <2>1, <2>2, AccountApplied
  <2>3. CASE Batched(n)
    BY <2>1, <2>3, BatchedApplied
  <2>4. CASE \E m \in replay.next..replay.last : SameAggregate(m, n)
    BY <1>1, <2>4 DEF SameAggregate
  <2> QED
    BY <1>2, <2>2, <2>3, <2>4
<1> QED
  BY <1>1, <1>2, <1>3, <1>4, <1>5 DEF ReplayCovers

LEMMA LiveCoversApplied ==
    ASSUME TypeOK, ItemsTrue, LiveCovers, Applies,
           UNCHANGED <<feed, serverStage, liveBuffer, batch, markerDue, markerAt>>
    PROVE  LiveCovers'
<1>1. UNCHANGED log /\ markerAt \in Nat /\ markerAt <= Len(log) /\ Len(log) \in Nat
  BY Basics DEF Applies
<1>2. \A n \in 1..Len(log) : /\ AccountedFor(n) => AccountedFor(n)'
                             /\ Batched(n) => Batched(n)'
                             /\ Pending(n) => Pending(n)'
  BY AccountApplied, BatchedApplied
<1>3. serverStage \in {"replayed", "live"} =>
        \A n \in 1..Len(log) : AccountedFor(n)' \/ Batched(n)' \/ Pending(n)'
  BY <1>2 DEF LiveCovers
<1>4. markerDue => \A n \in 1..markerAt : AccountedFor(n)' \/ Batched(n)'
  BY <1>1, <1>2 DEF LiveCovers
<1> QED
  BY <1>1, <1>3, <1>4 DEF LiveCovers

LEMMA ItemsTrueApplied ==
    ASSUME TypeOK, ItemsTrue, Applies
    PROVE  ItemsTrue'
<1> SUFFICES ASSUME NEW p \in DOMAIN wire'
             PROVE  /\ wire'[p].kind = "row" =>
                        /\ wire'[p].sequence \in 1..latest'
                        /\ wire'[p].aggregate = log'[wire'[p].sequence].aggregate
                        /\ Shows(wire[p].row, wire[p].aggregate, wire[p].sequence)'
                    /\ wire'[p].kind = "lost" => wire'[p].sequence \in 1..latest'
                    /\ wire'[p].kind # "snapshot"
  BY DEF ItemsTrue
<1>1. /\ wire'[p] = wire[p + 1] /\ p + 1 \in DOMAIN wire /\ p + 1 # 1
      /\ UNCHANGED <<log, latest>>
  BY Basics, TailFacts DEF Applies
<1>2. wire[p + 1].kind # "snapshot"
  BY <1>1 DEF ItemsTrue
<1>3. wire[p + 1].kind = "row" =>
        /\ wire[p + 1].sequence \in 1..latest
        /\ wire[p + 1].aggregate = log[wire[p + 1].sequence].aggregate
        /\ Shows(wire[p + 1].row, wire[p + 1].aggregate, wire[p + 1].sequence)
  BY <1>1 DEF ItemsTrue
<1>4. wire[p + 1].kind = "lost" => wire[p + 1].sequence \in 1..latest
  BY <1>1 DEF ItemsTrue
<1> QED
  BY <1>1, <1>2, <1>3, <1>4 DEF Shows, RowAt

\* The rows of a client that applies an item: as they were, or the item's.
LEMMA RowsApplied ==
    ASSUME TypeOK, ItemsTrue, Applies, NEW a \in Aggregates
    PROVE  \/ rows'[a] = rows[a]
           \/ wire[1].kind = "row" /\ wire[1].aggregate = a /\ rows'[a] = wire[1].row
           \/ wire[1].kind = "snapshot" /\ rows'[a] = wire[1].rows[a]
BY Basics DEF Applies

LEMMA RowsTrueApplied ==
    ASSUME TypeOK, ItemsTrue, RowsTrue, Applies, UNCHANGED cache
    PROVE  RowsTrue'
<1>1. /\ UNCHANGED <<log, latest>> /\ 1 \in DOMAIN wire
      /\ latest \in Nat /\ latest <= Len(log) /\ Len(log) \in Nat
  BY Basics, TailFacts DEF Applies
<1>2. ASSUME NEW a \in Aggregates PROVE Shows(rows'[a], a, 0)
  <2>1. CASE rows'[a] = rows[a]
    BY <2>1 DEF RowsTrue
  <2>2. CASE wire[1].kind = "row" /\ wire[1].aggregate = a /\ rows'[a] = wire[1].row
    <3>1. Shows(rows'[a], a, wire[1].sequence) /\ wire[1].sequence \in 1..latest
      BY <1>1, <2>2 DEF ItemsTrue
    <3> QED
      BY <1>1, <3>1 DEF Shows
  <2>3. CASE wire[1].kind = "snapshot" /\ rows'[a] = wire[1].rows[a]
    BY <1>1, <2>3 DEF ItemsTrue, Shows
  <2> QED
    BY <2>1, <2>2, <2>3, RowsApplied
<1> QED
  BY <1>1, <1>2 DEF RowsTrue, Shows, RowAt

\* A row that reflects some events is not one of a removal.
LEMMA NoRowOfRemoval ==
    ASSUME TypeOK, NEW a, NEW k \in Nat, NEW i \in Nat \ {0}, RowIn(log, a, k) = i
    PROVE  ~Removes(log, i, a)
<1>1. i # Absent /\ Present(log, a, k)
  BY DEF RowIn, Absent
<1>2. /\ i \in EventsOn(log, a, k)
      /\ \A j \in EventsOn(log, a, k) : j <= i
  BY <1>1, RowFacts
<1>3. PICK j \in EventsOn(log, a, k) :
        /\ log[j].kind = "show"
        /\ \A h \in EventsOn(log, a, k) : h > j => log[h].kind # "hide"
  BY <1>1 DEF Present
<1>4. j \in Int /\ j <= i
  BY <1>2, <1>3 DEF EventsOn
<1>5. CASE j = i
  BY <1>3, <1>5 DEF Removes
<1>6. CASE j # i
  BY <1>2, <1>3, <1>4, <1>6 DEF Removes
<1> QED
  BY <1>5, <1>6

\* A row goes back by a removal only.
ForwardRow(a) ==
    \/ Follows(rows[a], rows'[a], a)
    \/ rows'[a] = Absent /\ OlderRemoval(a)
Forward ==
    /\ cursor' >= cursor
    /\ \A a \in Aggregates : ForwardRow(a)

\* An item behind the rows of another.
Behind(events, old, p) == FollowsIn(events, old, wire[p].row, wire[p].aggregate)

LEMMA RowsForwardApplied ==
    ASSUME TypeOK, ItemsTrue, RowsTrue, RowsForward, Applies
    PROVE  RowsForward' /\ Forward
<1>1. /\ UNCHANGED <<log, latest>> /\ 1 \in DOMAIN wire
      /\ \A p \in DOMAIN wire' : wire'[p] = wire[p + 1] /\ p + 1 \in DOMAIN wire /\ 1 \in 1..((p + 1) - 1)
      /\ \A p \in DOMAIN wire' : wire'[p].kind # "snapshot"
      /\ \A p \in DOMAIN wire' : \A q \in 1..(p - 1) : q \in DOMAIN wire' /\ q + 1 \in 1..((p + 1) - 1)
  <2>1. /\ UNCHANGED <<log, latest>> /\ 1 \in DOMAIN wire
        /\ \A p \in DOMAIN wire' : wire'[p] = wire[p + 1] /\ p + 1 \in DOMAIN wire
        /\ DOMAIN wire' = 1..(Len(wire) - 1) /\ Len(wire) \in Nat
    BY TailFacts DEF Applies
  <2>2. \A p \in DOMAIN wire' : wire'[p].kind # "snapshot"
    <3> SUFFICES ASSUME NEW p \in DOMAIN wire', wire[p + 1].kind = "snapshot" PROVE FALSE
      BY <2>1
    <3>1. p + 1 = 1
      BY <2>1 DEF ItemsTrue
    <3> QED
      BY <2>1, <3>1
  <2> QED
    BY <2>1, <2>2
<1>2. ASSUME NEW p \in DOMAIN wire', wire'[p].kind = "row"
      PROVE  \/ /\ wire'[p].row = Absent
                /\ Removes(log', wire'[p].sequence, wire'[p].aggregate)
             \/ /\ FollowsIn(log', rows'[wire'[p].aggregate], wire'[p].row, wire'[p].aggregate)
                /\ \A q \in 1..(p - 1) :
                    (wire'[q].kind = "row" /\ wire'[q].aggregate = wire'[p].aggregate)
                        => FollowsIn(log', wire'[q].row, wire'[p].row, wire'[p].aggregate)
  <2>1. \/ /\ wire[p + 1].row = Absent
           /\ Removes(log, wire[p + 1].sequence, wire[p + 1].aggregate)
        \/ /\ Behind(log, rows[wire[p + 1].aggregate], p + 1)
           /\ \A q \in 1..((p + 1) - 1) :
                /\ (wire[q].kind = "row" /\ wire[q].aggregate = wire[p + 1].aggregate)
                        => Behind(log, wire[q].row, p + 1)
                /\ wire[q].kind = "snapshot"
                        => Behind(log, wire[q].rows[wire[p + 1].aggregate], p + 1)
    BY <1>1, <1>2 DEF RowsForward, Follows, Behind
  <2>2. CASE /\ wire[p + 1].row = Absent
             /\ Removes(log, wire[p + 1].sequence, wire[p + 1].aggregate)
    BY <1>1, <2>2
  <2>3. CASE /\ Behind(log, rows[wire[p + 1].aggregate], p + 1)
             /\ \A q \in 1..((p + 1) - 1) :
                  /\ (wire[q].kind = "row" /\ wire[q].aggregate = wire[p + 1].aggregate)
                          => Behind(log, wire[q].row, p + 1)
                  /\ wire[q].kind = "snapshot"
                          => Behind(log, wire[q].rows[wire[p + 1].aggregate], p + 1)
    <3>1. wire[p + 1].aggregate \in Aggregates
      <4>1. /\ wire[p + 1].sequence \in 1..latest
            /\ wire[p + 1].aggregate = log[wire[p + 1].sequence].aggregate
        BY <1>1, <1>2 DEF ItemsTrue
      <4>2. /\ latest <= Len(log) /\ latest \in Nat /\ Len(log) \in Nat
            /\ \A n \in 1..Len(log) : log[n].aggregate \in Aggregates
        BY Basics
      <4> QED
        BY <4>1, <4>2
    <3>2. Behind(log, rows'[wire[p + 1].aggregate], p + 1)
      BY <1>1, <2>3, <3>1, RowsApplied
    <3>3. \A q \in 1..(p - 1) :
            (wire[q + 1].kind = "row" /\ wire[q + 1].aggregate = wire[p + 1].aggregate)
                => Behind(log, wire[q + 1].row, p + 1)
      BY <1>1, <2>3
    <3> QED
      BY <1>1, <3>2, <3>3 DEF Behind
  <2> QED
    BY <2>1, <2>2, <2>3
<1>3. RowsForward'
  BY <1>1, <1>2 DEF RowsForward, Follows
<1>4. cursor' >= cursor
  <2>1. wire[1].kind = "row" => wire[1].sequence \in Int
    BY <1>1, Basics DEF ItemsTrue
  <2>2. wire[1].kind = "snapshot" => wire[1].sequence \in Int /\ cursor <= wire[1].sequence
    BY <1>1, Basics DEF ItemsTrue
  <2> QED
    BY <2>1, <2>2, Basics DEF Applies
<1>5. ASSUME NEW a \in Aggregates PROVE ForwardRow(a)
  <2>0. /\ rows[a] \in Nat /\ cursor \in Int /\ Len(log) \in Nat
        /\ latest \in Nat /\ latest <= Len(log)
    BY Basics
  <2>1. CASE rows'[a] = rows[a]
    BY <2>0, <2>1 DEF ForwardRow, Follows, FollowsIn
  <2>2. CASE wire[1].kind = "row" /\ wire[1].aggregate = a /\ rows'[a] = wire[1].row
    <3> DEFINE i == wire[1].sequence
    <3>1. CASE Follows(rows[a], wire[1].row, a)
      BY <2>2, <3>1 DEF ForwardRow
    <3>2. CASE wire[1].row = Absent /\ Removes(log, i, a)
      <4>1. i \in 1..Len(log)
        BY <1>1, <2>0, <2>2 DEF ItemsTrue
      <4>2. PICK k \in 0..Len(log) : rows[a] = RowIn(log, a, k)
        BY DEF RowsTrue, Shows, RowAt
      <4>3. rows[a] # i
        <5>1. k \in Nat /\ i \in Nat \ {0}
          BY <2>0, <4>1, <4>2
        <5> HIDE DEF i
        <5> QED
          BY <3>2, <4>2, <5>1, NoRowOfRemoval
      <4>4. CASE rows[a] < i
        <5>1. i \in (rows[a] + 1)..Len(log)
          BY <2>0, <4>1, <4>4
        <5> QED
          BY <2>2, <3>2, <5>1 DEF ForwardRow, Follows, FollowsIn
      <4>5. CASE i < rows[a]
        <5>1. CASE cursor < i
          <6>1. cursor' = i
            BY <2>0, <2>2, <4>1, <5>1 DEF Applies
          <6> QED
            BY <2>2, <3>2, <4>1, <4>5, <5>1, <6>1 DEF ForwardRow, OlderRemoval
        <5>2. CASE ~(cursor < i)
          <6>1. rows'[a] = rows[a]
            BY <2>0, <2>2, <4>1, <5>2 DEF Applies
          <6> QED
            BY <2>1, <6>1
        <5> QED
          BY <5>1, <5>2
      <4> QED
        BY <2>0, <4>1, <4>3, <4>4, <4>5
    <3> QED
      BY <1>1, <2>2, <3>1, <3>2 DEF RowsForward
  <2>3. CASE wire[1].kind = "snapshot" /\ rows'[a] = wire[1].rows[a]
    BY <1>1, <2>3 DEF RowsForward, ForwardRow
  <2> QED
    BY <2>1, <2>2, <2>3, RowsApplied
<1> QED
  BY <1>3, <1>4, <1>5 DEF Forward

-----------------------------------------------------------------------------
(* A step of the engine or of the stream.                                   *)

LEMMA Sends ==
    ASSUME TypeOK, NEW item, wire' = Append(wire, item)
    PROVE  /\ Len(wire') = Len(wire) + 1 /\ DOMAIN wire' = 1..(Len(wire) + 1)
           /\ \A q \in DOMAIN wire : wire'[q] = wire[q]
           /\ wire'[Len(wire) + 1] = item
BY Basics

LEMMA WireCoversSent ==
    ASSUME TypeOK, ItemsTrue, WireCovers, Receives,
           markerAt' = markerAt \/ \A p \in DOMAIN wire : wire[p].kind # "synchronized",
           \A p \in DOMAIN wire' \ DOMAIN wire :
               /\ p = Len(wire')
               /\ wire'[p].kind = "row" =>
                    \A n \in 1..wire'[p].sequence :
                        \/ AccountedFor(n)'
                        \/ \E m \in (wire'[p].sequence + 1)..latest' : SameAggregate(m, n)'
               /\ wire'[p].kind = "synchronized" => \A n \in 1..markerAt' : AccountedFor(n)'
    PROVE  WireCovers'
<1> SUFFICES ASSUME NEW p \in DOMAIN wire'
             PROVE  /\ wire'[p].kind = "row" =>
                        \A n \in 1..wire'[p].sequence :
                            \/ Accounted(n, p)'
                            \/ \E m \in (wire'[p].sequence + 1)..latest' : SameAggregate(m, n)'
                    /\ wire'[p].kind = "synchronized" => \A n \in 1..markerAt' : Accounted(n, p)'
  BY DEF WireCovers
<1>1. CASE p \in DOMAIN wire
  <2>1. /\ wire'[p] = wire[p] /\ Len(log) \in Nat /\ latest \in Nat /\ latest <= Len(log)
        /\ latest' \in Nat /\ latest <= latest'
        /\ \A i \in 1..Len(log) : log'[i] = log[i]
        /\ markerAt \in Nat /\ markerAt <= Len(log)
    BY <1>1, Basics DEF Receives, Grows
  <2>2. \A n \in 1..Len(log) : Accounted(n, p) => Accounted(n, p)'
    BY <1>1, AccountStays
  <2>3. ASSUME wire[p].kind = "row", NEW n \in 1..wire[p].sequence
        PROVE  \/ Accounted(n, p)'
               \/ \E m \in (wire[p].sequence + 1)..latest' : SameAggregate(m, n)'
    <3>1. wire[p].sequence \in 1..latest /\ n \in 1..Len(log)
      BY <1>1, <2>1, <2>3 DEF ItemsTrue
    <3>2. \/ Accounted(n, p)
          \/ \E m \in (wire[p].sequence + 1)..latest : SameAggregate(m, n)
      BY <1>1, <2>3 DEF WireCovers
    <3>3. \A m \in (wire[p].sequence + 1)..latest :
              /\ m \in (wire[p].sequence + 1)..latest'
              /\ SameAggregate(m, n) => SameAggregate(m, n)'
      <4> TAKE m \in (wire[p].sequence + 1)..latest
      <4>1. m \in 1..Len(log) /\ m <= latest' /\ log'[m] = log[m] /\ log'[n] = log[n]
        BY <2>1, <3>1
      <4> QED
        BY <3>1, <4>1, <2>1 DEF SameAggregate
    <3> QED
      BY <2>2, <3>1, <3>2, <3>3
  <2>4. ASSUME wire[p].kind = "synchronized", NEW n \in 1..markerAt' PROVE Accounted(n, p)'
    <3>1. n \in 1..markerAt /\ n \in 1..Len(log)
      BY <1>1, <2>1, <2>4
    <3> QED
      BY <1>1, <2>2, <2>4, <3>1 DEF WireCovers
  <2> QED
    BY <2>1, <2>3, <2>4
<1>2. CASE p \notin DOMAIN wire
  <2>1. \A n : AccountedFor(n)' => \A r : r = p => Accounted(n, r)'
    BY <1>2 DEF AccountedFor, Accounted, Receives
  <2>2. \A n : AccountedFor(n)' => Accounted(n, p)'
    BY <2>1
  <2> QED
    BY <1>2, <2>2
<1> QED
  BY <1>1, <1>2

\* What is about to be sent goes on being so, unless it leaves.
LEMMA BatchedStays ==
    ASSUME TypeOK, Receives, NEW n \in 1..Len(log), NEW m \in batch \cap batch',
           m >= n, SameAggregate(m, n), AheadOfAll(m)'
    PROVE  Batched(n)'
<1>0. batch \subseteq 1..latest /\ latest \in Nat /\ latest <= Len(log) /\ Len(log) \in Nat
  BY Basics
<1>1. m \in 1..Len(log) /\ log'[m] = log[m] /\ log'[n] = log[n]
  BY <1>0 DEF Receives, Grows
<1>2. SameAggregate(m, n)'
  BY <1>1 DEF SameAggregate
<1> QED
  BY <1>2 DEF Batched

\* The engine goes on: it commits, or publishes, to a stream that stands still.
EngineGoesOn ==
    /\ Receives /\ wire' = wire
    /\ UNCHANGED <<serverStage, replay, batch, markerDue, markerAt>>
    /\ \/ UNCHANGED <<feed, liveBuffer>>
       \/ feed' = feed + 1 /\ liveBuffer' = liveBuffer \cup {feed + 1}

LEMMA AccountGoesOn ==
    ASSUME TypeOK, EngineGoesOn, NEW n \in 1..Len(log)
    PROVE  /\ AccountedFor(n) => AccountedFor(n)'
           /\ Batched(n) => Batched(n)'
           /\ Pending(n) => Pending(n)'
<1>1. Receives /\ wire' = wire
  BY DEF EngineGoesOn
<1>2. \A m : AheadOfAll(m) => AheadOfAll(m)'
  BY <1>1, AheadStays
<1>3. AccountedFor(n) => AccountedFor(n)'
  BY <1>1, AccountStays
<1>4. Batched(n) => Batched(n)'
  <2> SUFFICES ASSUME Batched(n) PROVE Batched(n)'
    OBVIOUS
  <2>1. PICK m \in batch : m >= n /\ SameAggregate(m, n) /\ AheadOfAll(m)
    BY DEF Batched
  <2>2. m \in batch \cap batch' /\ AheadOfAll(m)'
    BY <1>2, <2>1 DEF EngineGoesOn
  <2> QED
    BY <1>1, <2>1, <2>2, BatchedStays
<1>5. Pending(n) => Pending(n)'
  BY <1>2, Basics DEF Pending, EngineGoesOn
<1> QED
  BY <1>3, <1>4, <1>5

LEMMA ReplayCoversGoesOn ==
    ASSUME TypeOK, ReplayCovers, EngineGoesOn
    PROVE  ReplayCovers'
<1> SUFFICES ASSUME serverStage = "replaying" PROVE ReplayCovers'
  BY DEF ReplayCovers, EngineGoesOn
<1>1. /\ replay.last <= latest /\ replay.next <= replay.last + 1
      /\ cursor < replay.next /\ \A m \in batch : m < replay.next
      /\ \A p \in DOMAIN wire : /\ wire[p].kind # "snapshot"
                                /\ wire[p].kind = "row" => wire[p].sequence < replay.next
      /\ \A n \in 1..(replay.next - 1) :
            \/ AccountedFor(n) \/ Batched(n)
            \/ \E m \in replay.next..replay.last : SameAggregate(m, n)
      /\ \A n \in (replay.last + 1)..feed : n \in liveBuffer
  BY DEF ReplayCovers
<1>2. /\ UNCHANGED <<cursor, wire, replay, batch>> /\ latest' \in Nat /\ latest' >= latest
      /\ \A i \in 1..Len(log) : log'[i] = log[i]
  BY DEF EngineGoesOn, Receives, Grows
<1>3. ASSUME NEW n \in 1..(replay.next - 1)
      PROVE  \/ AccountedFor(n)' \/ Batched(n)'
             \/ \E m \in replay.next..replay.last : SameAggregate(m, n)'
  <2>0. /\ replay.next \in Nat \ {0} /\ replay.last \in Nat /\ replay.last <= Len(log)
        /\ replay.next <= Len(log) + 1 /\ Len(log) \in Nat
    BY <1>1, Basics
  <2>1. n \in 1..Len(log) /\ \A m \in replay.next..replay.last : m \in 1..Len(log)
    BY <2>0
  <2>2. \A m \in replay.next..replay.last : SameAggregate(m, n) => SameAggregate(m, n)'
    BY <1>2, <2>1 DEF SameAggregate
  <2> QED
    BY <1>1, <2>1, <2>2, AccountGoesOn
<1>4. \A n \in (replay.last + 1)..feed' : n \in liveBuffer'
  BY <1>1, Basics DEF EngineGoesOn
<1>5. replay.last <= latest'
  BY <1>1, <1>2, Basics
<1> QED
  BY <1>1, <1>2, <1>3, <1>4, <1>5 DEF ReplayCovers

LEMMA LiveCoversGoesOn ==
    ASSUME TypeOK, ItemsTrue, LiveCovers, EngineGoesOn
    PROVE  LiveCovers'
<1>1. /\ UNCHANGED <<cursor, wire, serverStage, batch, markerDue, markerAt>>
      /\ Len(log') \in Nat /\ Len(log') >= Len(log) /\ feed' <= Len(log) + 1
      /\ Len(log) \in Nat
  BY Basics DEF EngineGoesOn, Receives, Grows
<1>2. ASSUME serverStage \in {"replayed", "live"}, NEW n \in 1..Len(log')
      PROVE  AccountedFor(n)' \/ Batched(n)' \/ Pending(n)'
  <2>1. CASE n \in 1..Len(log)
    BY <1>2, <2>1, AccountGoesOn DEF LiveCovers
  <2>2. CASE n > Len(log)
    <3>1. n > cursor
      BY <1>1, <2>2, Basics
    <3>2. \A q \in DOMAIN wire : Passes(q, n)
      <4> TAKE q \in DOMAIN wire
      <4>1. wire[q].kind = "row" => wire[q].sequence \in 1..latest
        BY DEF ItemsTrue
      <4>2. wire[q].kind = "snapshot" => wire[q].sequence \in 0..Len(log)
        BY DEF ItemsTrue
      <4> QED
        BY <2>2, <4>1, <4>2, Basics DEF Passes
    <3>3. AheadOfAll(n)'
      BY <1>1, <3>1, <3>2 DEF AheadOfAll, Passes
    <3>4. n \in liveBuffer' \/ n > feed'
      BY <1>1, <2>2, Basics DEF EngineGoesOn
    <3> QED
      BY <3>3, <3>4 DEF Pending
  <2> QED
    BY <2>1, <2>2, Basics
<1>3. ASSUME serverStage = "live"
      PROVE  \A m \in batch' : m <= feed' /\ \A n \in liveBuffer' : m < n
  <2>1. \A m \in batch : m <= feed /\ \A n \in liveBuffer : m < n
    BY <1>3 DEF LiveCovers
  <2> QED
    BY <1>1, <2>1, Basics DEF EngineGoesOn
<1>4. markerDue => \A n \in 1..markerAt : AccountedFor(n)' \/ Batched(n)'
  <2>1. 1..markerAt \subseteq 1..Len(log)
    BY Basics
  <2> QED
    BY <2>1, AccountGoesOn DEF LiveCovers
<1> QED
  BY <1>1, <1>2, <1>3, <1>4 DEF LiveCovers

\* A step of the stream: nothing else moves, and it sends at most one item.
StreamMoves ==
    /\ UNCHANGED <<log, latest, feed, cursor, rows, stranded>>
    /\ wire' = wire \/ \E item : wire' = Append(wire, item)

LEMMA StreamReceives ==
    ASSUME TypeOK, StreamMoves
    PROVE  Receives
<1>1. Grows
  BY Basics DEF Grows, StreamMoves
<1>2. CASE wire' = wire
  BY <1>1, <1>2, Basics DEF Receives, StreamMoves
<1>3. CASE \E item : wire' = Append(wire, item)
  <2>1. PICK item : wire' = Append(wire, item)
    BY <1>3
  <2>2. /\ Len(wire') = Len(wire) + 1 /\ DOMAIN wire' = 1..(Len(wire) + 1)
        /\ \A q \in DOMAIN wire : wire'[q] = wire[q]
    BY <2>1, Sends
  <2> QED
    BY <1>1, <2>2, Basics DEF Receives, StreamMoves
<1> QED
  BY <1>2, <1>3 DEF StreamMoves

\* Of every aggregate in a chunk an event is sent that is as late as any.
LEMMA CoalesceKeeps ==
    ASSUME NEW k \in Nat, NEW S \in SUBSET (1..k), NEW n \in S
    PROVE  \E m \in Coalesce(S) : m >= n /\ SameAggregate(m, n)
<1> DEFINE T == {j \in S : log[j].aggregate = log[n].aggregate}
<1>1. T \in SUBSET (1..k) /\ T # {} /\ n \in T
  OBVIOUS
<1>2. Latest(T) \in T /\ \A j \in T : j <= Latest(T)
  <2> HIDE DEF T
  <2> QED
    BY <1>1, LatestOf
<1>3. \A j \in S : log[j].aggregate = log[Latest(T)].aggregate => j <= Latest(T)
  BY <1>2
<1> QED
  BY <1>1, <1>2, <1>3 DEF Coalesce, SameAggregate

LEMMA StartsReplaying ==
    ASSUME TypeOK, Stages, ClientKeeps, StartReplay
    PROVE  ReplayCovers'
<1>1. /\ batch = {} /\ wire = <<>> /\ request = cursor /\ cursor \in Nat /\ cursor <= latest
      /\ UNCHANGED <<log, latest, feed, cursor, rows, stranded, batch, wire>>
      /\ replay' = [next |-> cursor + 1, last |-> latest]
  <2>1. request \in {NoSnapshot, cursor} /\ request # NoSnapshot /\ latest - request \in 0..MaxReplayGap
    BY DEF StartReplay, CanReplay, Stages
  <2>2. request = cursor /\ cursor \in Nat /\ cursor <= latest
    BY <2>1, Basics DEF NoSnapshot
  <2> QED
    BY <2>2 DEF StartReplay, Stages, engine, shell
<1>2. ASSUME NEW n \in 1..cursor
      PROVE  \/ AccountedFor(n)'
             \/ \E m \in (cursor + 1)..latest : SameAggregate(m, n)'
  <2>1. Shown(n) \/ Lost(n) \/ \E m \in (cursor + 1)..latest : SameAggregate(m, n)
    BY DEF ClientKeeps, Keeps, Shown, Lost
  <2>2. Shown(n) \/ Lost(n) => AccountedFor(n)'
    BY <1>1 DEF Shown, Lost, Shows, RowAt, SameAggregate, AccountedFor
  <2> QED
    BY <1>1, <2>1, <2>2 DEF SameAggregate
<1>3. replay'.next = cursor + 1 /\ replay'.last = latest /\ (cursor + 1) - 1 = cursor
  BY <1>1
<1>4. DOMAIN wire' = {} /\ batch' = {}
  BY <1>1
<1>5. \A n \in (latest + 1)..feed : n \in liveBuffer'
  BY Basics
<1> QED
  BY <1>1, <1>2, <1>3, <1>4, <1>5, Basics DEF ReplayCovers

LEMMA ReplaysChunk ==
    ASSUME TypeOK, ReplayCovers, ReplayChunk
    PROVE  ReplayCovers'
<1>1. PICK last \in replay.next..replay.last :
        /\ batch' = Coalesce(replay.next..last)
        /\ replay' = [replay EXCEPT !.next = last + 1]
  BY DEF ReplayChunk
<1>2. /\ replay'.next = last + 1 /\ replay'.last = replay.last
      /\ batch = {} /\ serverStage = "replaying"
      /\ UNCHANGED <<log, latest, feed, cursor, rows, stranded, wire, liveBuffer, serverStage>>
  BY <1>1 DEF ReplayChunk, TypeOK, Idle, engine, shell
<1>3. /\ replay.last <= latest /\ replay.next <= replay.last + 1
      /\ cursor < replay.next
      /\ \A p \in DOMAIN wire : /\ wire[p].kind # "snapshot"
                                /\ wire[p].kind = "row" => wire[p].sequence < replay.next
      /\ \A n \in 1..(replay.next - 1) :
            \/ AccountedFor(n) \/ Batched(n)
            \/ \E m \in replay.next..replay.last : SameAggregate(m, n)
      /\ \A n \in (replay.last + 1)..feed : n \in liveBuffer
  BY <1>2 DEF ReplayCovers
<1>4. /\ replay.next \in Nat \ {0} /\ replay.last \in Nat /\ last \in Nat /\ last >= replay.next
      /\ last <= replay.last /\ latest \in Nat /\ latest <= Len(log) /\ Len(log) \in Nat
      /\ cursor \in Int
  BY <1>3, Basics
<1>5. Receives
  BY <1>2, StreamReceives DEF StreamMoves
<1>6. \A m \in replay.next..last : AheadOfAll(m)'
  <2> TAKE m \in replay.next..last
  <2>1. \A p \in DOMAIN wire : Passes(p, m)
    <3> TAKE p \in DOMAIN wire
    <3>1. wire[p].kind = "row" => wire[p].sequence \in Int
      <4>1. wire[p] \in Items
        BY Basics
      <4>2. wire[p].kind = "row" => wire[p].sequence \in Nat
        BY <4>1 DEF Items
      <4> QED
        BY <4>2
    <3> QED
      BY <1>3, <1>4, <3>1 DEF Passes
  <2> QED
    BY <1>2, <1>3, <1>4, <2>1 DEF AheadOfAll, Passes
<1>7. \A m \in replay.next..last : Batched(m)'
  <2> TAKE m \in replay.next..last
  <2>1. replay.next..last \in SUBSET (1..last)
    BY <1>4
  <2>2. PICK j \in Coalesce(replay.next..last) : j >= m /\ SameAggregate(j, m)
    BY <1>4, <2>1, CoalesceKeeps
  <2>3. j \in batch' /\ j \in replay.next..last
    BY <1>1, <2>2 DEF Coalesce
  <2> QED
    BY <1>2, <1>6, <2>2, <2>3 DEF Batched, SameAggregate
<1>8. ASSUME NEW n \in 1..last
      PROVE  \/ AccountedFor(n)' \/ Batched(n)'
             \/ \E m \in (last + 1)..replay.last : SameAggregate(m, n)'
  <2>1. CASE n >= replay.next
    BY <1>4, <1>7, <2>1
  <2>2. CASE n \in 1..(replay.next - 1)
    <3>1. CASE AccountedFor(n)
      <4>1. n \in 1..Len(log)
        BY <1>3, <1>4, <2>2
      <4> QED
        BY <1>5, <3>1, <4>1, AccountStays
    <3>2. CASE Batched(n)
      BY <1>2, <3>2 DEF Batched
    <3>3. ASSUME NEW m \in replay.next..replay.last, SameAggregate(m, n)
          PROVE  \/ Batched(n)'
                 \/ \E j \in (last + 1)..replay.last : SameAggregate(j, n)'
      <4>1. CASE m > last
        BY <1>2, <1>4, <3>3, <4>1 DEF SameAggregate
      <4>2. CASE m <= last
        <5>1. Batched(m)' /\ m >= n
          BY <1>4, <1>7, <2>2, <3>3, <4>2
        <5>2. \A i \in batch' : i \in Int
          BY <1>1, <1>4 DEF Coalesce
        <5> QED
          BY <1>2, <1>4, <3>3, <5>1, <5>2 DEF Batched, SameAggregate
      <4> QED
        BY <1>4, <4>1, <4>2
    <3> QED
      BY <1>3, <2>2, <3>1, <3>2, <3>3
  <2> QED
    BY <1>4, <2>1, <2>2
<1>9. \A m \in batch' : m < last + 1
  BY <1>1, <1>4 DEF Coalesce
<1>10. \A p \in DOMAIN wire' : /\ wire'[p].kind # "snapshot"
                               /\ wire'[p].kind = "row" => wire'[p].sequence < last + 1
  <2> TAKE p \in DOMAIN wire'
  <2>1. wire'[p] = wire[p] /\ p \in DOMAIN wire /\ wire[p] \in Items
    BY <1>2, Basics
  <2>2. wire[p].kind = "row" => wire[p].sequence \in Nat
    BY <2>1 DEF Items
  <2> QED
    BY <1>3, <1>4, <2>1, <2>2
<1>11. cursor' < last + 1
  BY <1>2, <1>3, <1>4
<1> QED
  BY <1>2, <1>3, <1>4, <1>8, <1>9, <1>10, <1>11 DEF ReplayCovers

LEMMA FinishesReplay ==
    ASSUME TypeOK, Stages, ReplayCovers, FinishReplay
    PROVE  LiveCovers'
<1>1. /\ serverStage = "replaying" /\ serverStage' = "replayed" /\ batch = {} /\ ~markerDue
      /\ replay.next > replay.last
      /\ UNCHANGED <<log, latest, feed, cursor, rows, stranded, wire, batch, liveBuffer, markerDue>>
  BY DEF FinishReplay, Idle, engine, shell
<1>2. /\ replay.last <= latest /\ replay.next <= replay.last + 1
      /\ cursor < replay.next
      /\ \A p \in DOMAIN wire : /\ wire[p].kind # "snapshot"
                                /\ wire[p].kind = "row" => wire[p].sequence < replay.next
      /\ \A n \in 1..(replay.next - 1) :
            \/ AccountedFor(n) \/ Batched(n)
            \/ \E m \in replay.next..replay.last : SameAggregate(m, n)
      /\ \A n \in (replay.last + 1)..feed : n \in liveBuffer
  BY <1>1 DEF ReplayCovers
<1>3. /\ replay.next \in Nat \ {0} /\ replay.last \in Nat /\ replay.next = replay.last + 1
      /\ cursor \in Int /\ feed \in Nat
  BY <1>1, <1>2, Basics
<1>4. Receives
  BY <1>1, StreamReceives DEF StreamMoves
<1>5. ASSUME NEW n \in 1..Len(log)
      PROVE  AccountedFor(n)' \/ Pending(n)'
  <2>1. CASE n <= replay.last
    <3>1. AccountedFor(n)
      BY <1>1, <1>2, <1>3, <2>1 DEF Batched
    <3> QED
      BY <1>4, <3>1, AccountStays
  <2>2. CASE n > replay.last
    <3>1. \A p \in DOMAIN wire : Passes(p, n)
      <4> TAKE p \in DOMAIN wire
      <4>1. wire[p] \in Items
        BY Basics
      <4>2. wire[p].kind = "row" => wire[p].sequence \in Nat
        BY <4>1 DEF Items
      <4> QED
        BY <1>2, <1>3, <2>2, <4>2 DEF Passes
    <3>2. AheadOfAll(n)'
      BY <1>1, <1>2, <1>3, <2>2, <3>1 DEF AheadOfAll, Passes
    <3>3. n \in liveBuffer \/ n > feed
      BY <1>2, <1>3, <2>2
    <3> QED
      BY <1>1, <3>2, <3>3 DEF Pending
  <2> QED
    BY <1>3, <2>1, <2>2
<1> QED
  BY <1>1, <1>5 DEF LiveCovers

LEMMA SendsSnapshot ==
    ASSUME TypeOK, Stages, SendSnapshot
    PROVE  LiveCovers'
<1>1. /\ serverStage' = "replayed" /\ wire = <<>> /\ ~markerDue'
      /\ wire' = Append(wire, [kind |-> "snapshot", sequence |-> Len(log), rows |-> AllRows])
      /\ UNCHANGED log
  BY DEF SendSnapshot, Stages, engine
<1>2. /\ 1 \in DOMAIN wire' /\ wire'[1].kind = "snapshot" /\ wire'[1].sequence = Len(log)
  BY <1>1
<1>3. \A n \in 1..Len(log) : AccountedFor(n)'
  <2> TAKE n \in 1..Len(log)
  <2>1. MakesUp(1, n)'
    BY <1>2 DEF MakesUp
  <2> QED
    BY <1>2, <2>1 DEF AccountedFor
<1> QED
  BY <1>1, <1>3 DEF LiveCovers

\* Taking what was retained, all of it or the first part, into a batch.
LEMMA Taken ==
    ASSUME TypeOK, StreamMoves, wire' = wire, NEW k \in 1..feed \cup {0},
           batch' = Coalesce({i \in liveBuffer : i <= k}),
           NEW n \in 1..Len(log), Pending(n), n \in liveBuffer, n <= k
    PROVE  Batched(n)'
<1> DEFINE S == {i \in liveBuffer : i <= k}
<1>1. liveBuffer \subseteq 1..feed /\ feed \in Nat
  BY Basics DEF TypeOK
<1>2. S \in SUBSET (1..feed) /\ n \in S
  BY <1>1
<1>3. PICK m \in Coalesce(S) : m >= n /\ SameAggregate(m, n)
  <2> HIDE DEF S
  <2> QED
    BY <1>1, <1>2, CoalesceKeeps
<1>4. m \in batch' /\ m \in Int
  BY <1>1, <1>3 DEF Coalesce
<1>5. AheadOfAll(m)
  <2>1. \A q \in DOMAIN wire : wire[q].kind \in {"row", "snapshot"} => wire[q].sequence \in Int
    <3> TAKE q \in DOMAIN wire
    <3>1. wire[q] \in Items
      BY Basics
    <3> QED
      BY <3>1 DEF Items
  <2>2. n > cursor /\ \A q \in DOMAIN wire : Passes(q, n)
    BY DEF Pending, AheadOfAll
  <2>3. cursor \in Int /\ n \in Int /\ m \in Int /\ m >= n
    BY <1>3, <1>4, Basics
  <2>4. m > cursor
    BY <2>2, <2>3
  <2>5. \A q \in DOMAIN wire : Passes(q, m)
    BY <2>1, <2>2, <2>3 DEF Passes
  <2> QED
    BY <2>4, <2>5 DEF AheadOfAll
<1>6. UNCHANGED <<log, cursor, wire>>
  BY DEF StreamMoves
<1> QED
  BY <1>3, <1>4, <1>5, <1>6 DEF Batched, AheadOfAll, Passes, SameAggregate

LEMMA OffersMarker ==
    ASSUME TypeOK, Stages, LiveCovers, OfferMarker
    PROVE  LiveCovers'
<1>1. /\ serverStage = "replayed" /\ batch = {} /\ markerAt' = feed /\ liveBuffer' = {}
      /\ batch' = Coalesce(liveBuffer) /\ serverStage' = "live" /\ wire' = wire /\ feed' = feed
      /\ StreamMoves /\ UNCHANGED <<log, cursor>>
  BY DEF OfferMarker, Stages, engine, shell, StreamMoves
<1>2. liveBuffer \subseteq 1..feed /\ feed \in Nat /\ Len(log) \in Nat /\ feed <= Len(log)
  <2>1. liveBuffer \subseteq 1..feed
    BY DEF TypeOK
  <2> QED
    BY <2>1, Basics
<1>3. batch' = Coalesce({i \in liveBuffer : i <= feed})
  <2>1. {i \in liveBuffer : i <= feed} = liveBuffer
    <3>1. \A i \in liveBuffer : i <= feed
      BY <1>2
    <3> QED
      BY <3>1
  <2> QED
    BY <1>1, <2>1
<1>4. \A n \in 1..Len(log) : AccountedFor(n) => AccountedFor(n)'
  BY <1>1, StreamReceives, AccountStays
<1>5. \A n \in 1..Len(log) : Pending(n) /\ n \in liveBuffer => Batched(n)'
  <2>1. feed \in 1..feed \cup {0} /\ \A n \in liveBuffer : n <= feed
    BY <1>2
  <2> QED
    BY <1>1, <1>3, <2>1, Taken
<1>6. \A n \in 1..Len(log) : Pending(n) /\ n \notin liveBuffer => Pending(n)' /\ n > feed
  BY <1>1 DEF Pending, AheadOfAll, Passes
<1>7. \A n \in 1..Len(log) : AccountedFor(n) \/ Pending(n)
  BY <1>1 DEF LiveCovers, Batched
<1>8. \A n \in 1..markerAt' : AccountedFor(n)' \/ Batched(n)'
  BY <1>1, <1>2, <1>4, <1>5, <1>6, <1>7
<1>9. \A m \in batch' : m <= feed'
  BY <1>1, <1>2 DEF Coalesce
<1> QED
  BY <1>1, <1>4, <1>5, <1>6, <1>7, <1>8, <1>9 DEF LiveCovers

LEMMA TakesLiveChunk ==
    ASSUME TypeOK, LiveCovers, LiveChunk
    PROVE  LiveCovers'
<1>1. PICK last \in liveBuffer :
        /\ batch' = Coalesce({i \in liveBuffer : i <= last})
        /\ liveBuffer' = {i \in liveBuffer : i > last}
  BY DEF LiveChunk
<1>2. /\ serverStage = "live" /\ batch = {} /\ ~markerDue /\ wire' = wire /\ feed' = feed
      /\ StreamMoves /\ UNCHANGED <<log, cursor, markerDue>>
  BY DEF LiveChunk, Idle, engine, shell, StreamMoves
<1>3. liveBuffer \subseteq 1..feed /\ feed \in Nat /\ last \in 1..feed
  BY Basics DEF TypeOK
<1>4. \A n \in 1..Len(log) : AccountedFor(n) => AccountedFor(n)'
  BY <1>2, StreamReceives, AccountStays
<1>5. \A n \in 1..Len(log) : Pending(n) /\ n \in liveBuffer /\ n <= last => Batched(n)'
  <2>1. last \in 1..feed \cup {0}
    BY <1>3
  <2> QED
    BY <1>1, <1>2, <2>1, Taken
<1>6. \A n \in 1..Len(log) : Pending(n) /\ ~(n \in liveBuffer /\ n <= last) => Pending(n)'
  BY <1>1, <1>2, <1>3 DEF Pending, AheadOfAll, Passes
<1>7. \A n \in 1..Len(log) : AccountedFor(n) \/ Pending(n)
  BY <1>2 DEF LiveCovers, Batched
<1>8. \A m \in batch' : m <= feed' /\ \A n \in liveBuffer' : m < n
  BY <1>1, <1>2, <1>3 DEF Coalesce
<1> QED
  BY <1>2, <1>4, <1>5, <1>6, <1>7, <1>8 DEF LiveCovers

\* The item of the first event of a batch leaves.
Leaves(i) ==
    /\ i \in batch /\ \A j \in batch : i <= j
    /\ batch' = batch \ {i}
    /\ UNCHANGED <<log, latest, feed, cursor, rows, stranded, serverStage, replay, liveBuffer,
                   markerDue, markerAt>>
    /\ \E item : /\ item.kind \in {"row", "lost"} /\ item.sequence = i
                 /\ wire' = Append(wire, item)

LEMMA LeavesFacts ==
    ASSUME TypeOK, NEW i, Leaves(i)
    PROVE  /\ Receives /\ i \in 1..latest /\ i \in 1..Len(log)
           /\ DOMAIN wire' = 1..(Len(wire) + 1)
           /\ wire'[Len(wire) + 1].kind \in {"row", "lost"}
           /\ wire'[Len(wire) + 1].sequence = i
<1>1. PICK item : /\ item.kind \in {"row", "lost"} /\ item.sequence = i
                  /\ wire' = Append(wire, item)
  BY DEF Leaves
<1>2. StreamMoves
  BY <1>1 DEF StreamMoves, Leaves
<1>3. Receives
  BY <1>2, StreamReceives
<1>4. i \in 1..latest /\ i \in 1..Len(log)
  BY Basics DEF Leaves
<1>5. DOMAIN wire' = 1..(Len(wire) + 1) /\ wire'[Len(wire) + 1] = item
  BY <1>1, Sends
<1> QED
  BY <1>1, <1>3, <1>4, <1>5

\* What was accounted for still is, and what was in the batch is sent or still in it.
LEMMA AccountLeaves ==
    ASSUME TypeOK, NEW i, Leaves(i), NEW n \in 1..Len(log)
    PROVE  /\ AccountedFor(n) => AccountedFor(n)'
           /\ Batched(n) => AccountedFor(n)' \/ Batched(n)'
           /\ Pending(n) /\ n > i => Pending(n)'
<1>1. /\ Receives /\ i \in 1..latest /\ i \in 1..Len(log)
      /\ DOMAIN wire' = 1..(Len(wire) + 1)
      /\ wire'[Len(wire) + 1].kind \in {"row", "lost"}
      /\ wire'[Len(wire) + 1].sequence = i
  BY LeavesFacts
<1>2. AccountedFor(n) => AccountedFor(n)'
  BY <1>1, AccountStays
<1>3. \A m : i < m /\ AheadOfAll(m) => AheadOfAll(m)'
  <2> TAKE m
  <2> HAVE i < m /\ AheadOfAll(m)
  <2> QED
    BY <1>1, AheadStays
<1>4. ASSUME Batched(n) PROVE AccountedFor(n)' \/ Batched(n)'
  <2>1. PICK m \in batch : m >= n /\ SameAggregate(m, n) /\ AheadOfAll(m)
    BY <1>4 DEF Batched
  <2>2. CASE m = i
    BY <1>1, <2>1, <2>2, SentMakesUp
  <2>3. CASE m # i
    <3>1. m \in batch' /\ i < m
      BY <1>1, <2>1, <2>3, Basics DEF Leaves
    <3>2. m \in batch \cap batch' /\ AheadOfAll(m)'
      BY <1>3, <2>1, <3>1
    <3> QED
      BY <1>1, <2>1, <3>2, BatchedStays
  <2> QED
    BY <2>2, <2>3
<1>5. Pending(n) /\ n > i => Pending(n)'
  <2>1. n > i => i < n
    BY <1>1
  <2> QED
    BY <1>3, <2>1 DEF Pending, Leaves
<1> QED
  BY <1>2, <1>4, <1>5

LEMMA ReplayCoversLeaves ==
    ASSUME TypeOK, ReplayCovers, NEW i, Leaves(i)
    PROVE  ReplayCovers'
<1> SUFFICES ASSUME serverStage = "replaying" PROVE ReplayCovers'
  BY DEF ReplayCovers, Leaves
<1>1. /\ replay.last <= latest /\ replay.next <= replay.last + 1
      /\ cursor < replay.next /\ \A m \in batch : m < replay.next
      /\ \A p \in DOMAIN wire : /\ wire[p].kind # "snapshot"
                                /\ wire[p].kind = "row" => wire[p].sequence < replay.next
      /\ \A n \in 1..(replay.next - 1) :
            \/ AccountedFor(n) \/ Batched(n)
            \/ \E m \in replay.next..replay.last : SameAggregate(m, n)
      /\ \A n \in (replay.last + 1)..feed : n \in liveBuffer
  BY DEF ReplayCovers
<1>2. /\ UNCHANGED <<log, latest, feed, cursor, serverStage, replay, liveBuffer>>
      /\ i \in batch /\ batch' \subseteq batch
  BY DEF Leaves
<1>3. /\ Receives /\ DOMAIN wire' = 1..(Len(wire) + 1)
      /\ wire'[Len(wire) + 1].kind \in {"row", "lost"}
      /\ wire'[Len(wire) + 1].sequence = i
  BY LeavesFacts
<1>4. \A p \in DOMAIN wire' : /\ wire'[p].kind # "snapshot"
                              /\ wire'[p].kind = "row" => wire'[p].sequence < replay.next
  <2> TAKE p \in DOMAIN wire'
  <2>1. CASE p \in DOMAIN wire
    BY <1>1, <1>3, <2>1 DEF Receives
  <2>2. CASE p = Len(wire) + 1
    BY <1>1, <1>2, <1>3, <2>2
  <2> QED
    BY <1>3, <2>1, <2>2, Basics
<1>5. ASSUME NEW n \in 1..(replay.next - 1)
      PROVE  \/ AccountedFor(n)' \/ Batched(n)'
             \/ \E m \in replay.next..replay.last : SameAggregate(m, n)'
  <2>1. n \in 1..Len(log)
    BY <1>1, Basics
  <2>2. \A m \in replay.next..replay.last : SameAggregate(m, n) => SameAggregate(m, n)'
    BY <1>2 DEF SameAggregate
  <2> QED
    BY <1>1, <2>1, <2>2, AccountLeaves
<1> QED
  BY <1>1, <1>2, <1>4, <1>5 DEF ReplayCovers

LEMMA LiveCoversLeaves ==
    ASSUME TypeOK, Stages, LiveCovers, NEW i, Leaves(i)
    PROVE  LiveCovers'
<1>1. /\ UNCHANGED <<log, latest, feed, serverStage, liveBuffer, markerDue, markerAt>>
      /\ i \in batch /\ batch' \subseteq batch
  BY DEF Leaves
<1>2. serverStage # "replayed"
  BY <1>1 DEF Stages
<1>3. ASSUME serverStage = "live", NEW n \in 1..Len(log)
      PROVE  AccountedFor(n)' \/ Batched(n)' \/ Pending(n)'
  <2>1. i <= feed /\ \A m \in liveBuffer : i < m
    BY <1>1, <1>3 DEF LiveCovers
  <2>2. Pending(n) => n > i
    BY <2>1, <1>1, Basics DEF Pending
  <2> QED
    BY <1>3, <2>2, AccountLeaves DEF LiveCovers
<1>4. markerDue => \A n \in 1..markerAt : AccountedFor(n)' \/ Batched(n)'
  <2>1. \A n \in 1..markerAt : n \in 1..Len(log)
    BY Basics
  <2> QED
    BY <2>1, AccountLeaves DEF LiveCovers
<1>5. serverStage = "live" => \A m \in batch' : m <= feed /\ \A n \in liveBuffer : m < n
  BY <1>1 DEF LiveCovers
<1> QED
  BY <1>1, <1>2, <1>3, <1>4, <1>5 DEF LiveCovers

\* The item leaves nothing behind it out.
LEMMA WireCoversLeaves ==
    ASSUME TypeOK, Stages, ItemsTrue, WireCovers, ReplayCovers, LiveCovers, NEW i, Leaves(i)
    PROVE  WireCovers'
<1>1. /\ Receives /\ i \in 1..latest /\ i \in 1..Len(log)
      /\ DOMAIN wire' = 1..(Len(wire) + 1)
      /\ wire'[Len(wire) + 1].kind \in {"row", "lost"}
      /\ wire'[Len(wire) + 1].sequence = i
      /\ UNCHANGED <<log, latest, markerAt>> /\ i \in batch
      /\ DOMAIN wire = 1..Len(wire) /\ Len(wire) \in Nat
  BY LeavesFacts, Basics DEF Leaves
<1>2. ASSUME NEW n \in 1..i
      PROVE  AccountedFor(n)' \/ \E m \in (i + 1)..latest : SameAggregate(m, n)
  <2>1. n \in 1..Len(log) /\ n <= i
    BY <1>1, Basics
  <2>2. ASSUME Batched(n)
        PROVE  AccountedFor(n)' \/ \E m \in (i + 1)..latest : SameAggregate(m, n)
    <3>1. PICK m \in batch : m >= n /\ SameAggregate(m, n) /\ AheadOfAll(m)
      BY <2>2 DEF Batched
    <3>2. CASE m = i
      BY <1>1, <2>1, <3>1, <3>2, SentMakesUp
    <3>3. CASE m # i
      BY <1>1, <3>1, <3>3, Basics DEF Leaves
    <3> QED
      BY <3>2, <3>3
  <2>3. CASE serverStage = "replaying"
    <3>1. /\ i < replay.next /\ replay.last <= latest
          /\ \/ AccountedFor(n) \/ Batched(n)
             \/ \E m \in replay.next..replay.last : SameAggregate(m, n)
      <4>1. i < replay.next
        BY <1>1, <2>3 DEF ReplayCovers
      <4>2. n \in 1..(replay.next - 1)
        BY <1>1, <4>1, Basics
      <4> QED
        BY <2>3, <4>1, <4>2 DEF ReplayCovers
    <3>2. \A m \in replay.next..replay.last : m \in (i + 1)..latest
      BY <1>1, <3>1, Basics
    <3> QED
      BY <2>1, <2>2, <3>1, <3>2, AccountLeaves
  <2>4. CASE serverStage = "live"
    <3>1. i <= feed /\ \A m \in liveBuffer : i < m
      BY <1>1, <2>4 DEF LiveCovers
    <3>2. ~Pending(n)
      BY <1>1, <2>1, <3>1, Basics DEF Pending
    <3>3. AccountedFor(n) \/ Batched(n)
      BY <2>1, <2>4, <3>2 DEF LiveCovers
    <3> QED
      BY <2>1, <2>2, <3>3, AccountLeaves
  <2> QED
    BY <1>1, <2>3, <2>4 DEF Stages, TypeOK
<1>3. \A p \in DOMAIN wire' \ DOMAIN wire : p = Len(wire) + 1 /\ p = Len(wire')
  BY <1>1 DEF Receives
<1>4. \A m, n : SameAggregate(m, n) => SameAggregate(m, n)'
  BY <1>1 DEF SameAggregate
<1> QED
  BY <1>1, <1>2, <1>3, <1>4, WireCoversSent

LEMMA EmitsMarker ==
    ASSUME TypeOK, Stages, OneMarker, ItemsTrue, WireCovers, LiveCovers, EmitMarker
    PROVE  WireCovers' /\ LiveCovers'
<1>1. /\ batch = {} /\ batch' = {} /\ markerDue /\ ~markerDue' /\ serverStage = "live"
      /\ wire' = Append(wire, [kind |-> "synchronized"])
      /\ UNCHANGED <<log, latest, feed, cursor, serverStage, liveBuffer, markerAt>>
  BY DEF EmitMarker, Stages, engine, shell
<1>2. Receives
  <2>1. StreamMoves
    BY <1>1 DEF EmitMarker, engine, shell, StreamMoves
  <2> QED
    BY <2>1, StreamReceives
<1>3. /\ DOMAIN wire' = 1..(Len(wire) + 1)
      /\ wire'[Len(wire) + 1] = [kind |-> "synchronized"]
      /\ Len(wire') = Len(wire) + 1 /\ DOMAIN wire = 1..Len(wire) /\ Len(wire) \in Nat
  BY <1>1, Sends, Basics
<1>4. \A n \in 1..markerAt : AccountedFor(n)'
  <2> TAKE n \in 1..markerAt
  <2>1. n \in 1..Len(log)
    BY Basics
  <2>2. AccountedFor(n)
    BY <1>1 DEF LiveCovers, Batched
  <2> QED
    BY <1>2, <2>1, <2>2, AccountStays
<1>5. \A p \in DOMAIN wire' \ DOMAIN wire :
        p = Len(wire') /\ wire'[p].kind # "row"
  BY <1>3
<1>6. WireCovers'
  BY <1>1, <1>2, <1>4, <1>5, WireCoversSent
<1>7. \A n \in 1..Len(log) : AccountedFor(n)' \/ Pending(n)'
  <2> TAKE n \in 1..Len(log)
  <2>1. AccountedFor(n) \/ Pending(n)
    BY <1>1 DEF LiveCovers, Batched
  <2>2. wire'[Len(wire) + 1].kind \notin {"row", "snapshot"}
    BY <1>3
  <2>3. AheadOfAll(n) => AheadOfAll(n)'
    BY <1>2, <1>3, <2>2, AheadStays
  <2> QED
    BY <1>1, <1>2, <2>1, <2>3, AccountStays DEF Pending
<1>8. LiveCovers'
  BY <1>1, <1>7 DEF LiveCovers
<1> QED
  BY <1>6, <1>8

-----------------------------------------------------------------------------
(* Items and rows.                                                          *)

\* A later row is that of a later event.
LEMMA RowOrder ==
    ASSUME NEW events, NEW a, NEW k \in Nat, NEW m \in Nat, k <= m,
           RowIn(events, a, m) # Absent
    PROVE  RowIn(events, a, k) <= RowIn(events, a, m)
<1>1. RowIn(events, a, m) \in 0..m
      /\ \A i \in EventsOn(events, a, m) : i <= RowIn(events, a, m)
  BY RowFacts
<1>2. RowIn(events, a, k) = Absent \/ RowIn(events, a, k) \in EventsOn(events, a, k)
  BY RowFacts
<1>3. EventsOn(events, a, k) \subseteq EventsOn(events, a, m)
  BY DEF EventsOn
<1> QED
  BY <1>1, <1>2, <1>3 DEF Absent

LEMMA NowIsLatest ==
    ASSUME TypeOK, NEW a, NEW n \in Nat, NEW row, Shows(row, a, n), Row(a) # Absent
    PROVE  row <= Row(a)
<1>1. PICK k \in n..Len(log) : row = RowIn(log, a, k)
  BY DEF Shows, RowAt
<1> QED
  BY <1>1, RowOrder, Basics DEF Row, RowAt

\* The row as it is now follows every row there ever was.
LEMMA NowFollows ==
    ASSUME TypeOK, NEW a, NEW n \in Nat, NEW row, Shows(row, a, n)
    PROVE  Follows(row, Row(a), a)
<1>1. PICK k \in n..Len(log) : row = RowIn(log, a, k)
  BY DEF Shows, RowAt
<1>2. k \in Nat /\ Len(log) \in Nat /\ k <= Len(log)
  BY <1>1, Basics
<1>3. row \in 0..k /\ Row(a) \in 0..Len(log)
  BY <1>1, <1>2, RowFacts DEF Row, RowAt
<1>4. CASE Row(a) # Absent
  BY <1>2, <1>3, <1>4, NowIsLatest DEF Follows, FollowsIn
<1>5. CASE row = Absent
  BY <1>2, <1>3, <1>5 DEF Follows, FollowsIn, Absent
<1>6. CASE Row(a) = Absent /\ row # Absent
  <2>1. Present(log, a, k)
    BY <1>1, <1>6 DEF RowIn
  <2>2. ~Present(log, a, Len(log))
    <3> SUFFICES ASSUME Present(log, a, Len(log)) PROVE FALSE
      OBVIOUS
    <3>1. EventsOn(log, a, Len(log)) \in SUBSET (1..Len(log)) /\ EventsOn(log, a, Len(log)) # {}
      BY DEF Present, EventsOn
    <3>2. Latest(EventsOn(log, a, Len(log))) \in EventsOn(log, a, Len(log))
      BY <1>2, <3>1, LatestOf
    <3> QED
      BY <1>2, <1>6, <3>1, <3>2 DEF Row, RowAt, RowIn, Absent
  <2>3. PICK j \in EventsOn(log, a, k) :
          /\ log[j].kind = "show"
          /\ \A h \in EventsOn(log, a, k) : h > j => log[h].kind # "hide"
    BY <2>1 DEF Present
  <2>4. j \in EventsOn(log, a, Len(log)) /\ j \in Int
    BY <1>2, <2>3 DEF EventsOn
  <2>5. PICK h \in EventsOn(log, a, Len(log)) : h > j /\ log[h].kind = "hide"
    BY <2>2, <2>3, <2>4 DEF Present
  <2>6. h \in 1..Len(log) /\ log[h].aggregate = a
    BY <2>5 DEF EventsOn
  <2>7. h > k
    BY <1>2, <2>3, <2>5, <2>6 DEF EventsOn
  <2>8. h \in (row + 1)..Len(log)
    BY <1>2, <1>3, <2>6, <2>7
  <2> QED
    BY <1>6, <2>5, <2>6, <2>8 DEF Follows, FollowsIn, Removes
<1> QED
  BY <1>4, <1>5, <1>6

\* And goes on to, as the log grows.
LEMMA FollowsGrows ==
    ASSUME TypeOK, Grows, NEW old \in Nat, NEW new, NEW a, FollowsIn(log, old, new, a)
    PROVE  FollowsIn(log', old, new, a)
<1>1. Len(log) \in Nat /\ Len(log') \in Nat /\ Len(log') >= Len(log)
      /\ \A i \in 1..Len(log) : log'[i] = log[i]
  BY Basics DEF Grows
<1>2. ASSUME NEW i \in (old + 1)..Len(log), Removes(log, i, a)
      PROVE  i \in (old + 1)..Len(log') /\ Removes(log', i, a)
  <2>1. i \in 1..Len(log) /\ i \in (old + 1)..Len(log')
    BY <1>1
  <2> QED
    BY <1>1, <1>2, <2>1 DEF Removes
<1> QED
  BY <1>2 DEF FollowsIn

LEMMA ShowsGrows ==
    ASSUME TypeOK, Grows, NEW row, NEW a, NEW n \in Nat, Shows(row, a, n)
    PROVE  \E k \in n..Len(log') : row = RowIn(log', a, k)
<1>1. PICK k \in n..Len(log) : row = RowIn(log, a, k)
  BY DEF Shows, RowAt
<1>2. k \in 0..Len(log) /\ k \in n..Len(log')
  BY Basics DEF Grows
<1> QED
  BY <1>1, <1>2, RowsKept

LEMMA RowsTrueReceived ==
    ASSUME TypeOK, Grows, RowsTrue, UNCHANGED rows,
           cache'.rows = cache.rows \/ cache'.rows = rows
    PROVE  RowsTrue'
<1>1. \A row : \A a : Shows(row, a, 0) => Shows(row, a, 0)'
  <2> TAKE row
  <2> TAKE a
  <2> HAVE Shows(row, a, 0)
  <2>1. \E k \in 0..Len(log') : row = RowIn(log', a, k)
    BY ShowsGrows
  <2> QED
    BY <2>1 DEF Shows, RowAt
<1>2. \A a \in Aggregates : \A row : row = rows[a] \/ row = cache'.rows[a] => Shows(row, a, 0)'
  BY <1>1 DEF RowsTrue
<1> QED
  BY <1>2 DEF RowsTrue

LEMMA ItemsTrueSent ==
    ASSUME TypeOK, ItemsTrue, Receives,
           \A p \in DOMAIN wire' \ DOMAIN wire :
               /\ wire'[p].kind = "row" =>
                    /\ wire'[p].sequence \in 1..latest
                    /\ wire'[p].aggregate = log[wire'[p].sequence].aggregate
                    /\ Shows(wire'[p].row, wire'[p].aggregate, wire'[p].sequence)
               /\ wire'[p].kind = "lost" => wire'[p].sequence \in 1..latest
               /\ wire'[p].kind = "snapshot" =>
                    /\ p = 1 /\ wire'[p].sequence = Len(log) /\ wire'[p].rows = AllRows
    PROVE  ItemsTrue'
<1> SUFFICES ASSUME NEW p \in DOMAIN wire'
             PROVE  /\ wire'[p].kind = "row" =>
                        /\ wire'[p].sequence \in 1..latest'
                        /\ wire'[p].aggregate = log'[wire'[p].sequence].aggregate
                        /\ Shows(wire[p].row, wire[p].aggregate, wire[p].sequence)'
                    /\ wire'[p].kind = "lost" => wire'[p].sequence \in 1..latest'
                    /\ wire'[p].kind = "snapshot" =>
                        /\ p = 1 /\ wire'[p].sequence \in 0..Len(log') /\ cursor' <= wire'[p].sequence
                        /\ \A a \in Aggregates :
                              wire'[p].rows[a] = RowIn(log', a, wire'[p].sequence)
                        /\ \A m \in stranded' : m <= wire'[p].sequence
  BY DEF ItemsTrue, RowAt
<1>1. /\ Grows /\ UNCHANGED <<cursor, stranded>> /\ Len(log) \in Nat /\ latest \in Nat
      /\ latest <= Len(log) /\ latest' \in Nat /\ latest <= latest' /\ Len(log') \in Nat
      /\ Len(log) <= Len(log') /\ \A i \in 1..Len(log) : log'[i] = log[i]
      /\ cursor \in Int /\ cursor <= Len(log) /\ \A m \in stranded : m <= Len(log)
      /\ \A q \in DOMAIN wire : wire'[q] = wire[q]
  BY Basics DEF Receives, Grows
<1>2. /\ wire'[p].kind = "row" =>
            /\ wire'[p].sequence \in 1..latest
            /\ wire'[p].aggregate = log[wire'[p].sequence].aggregate
            /\ Shows(wire'[p].row, wire'[p].aggregate, wire'[p].sequence)
      /\ wire'[p].kind = "lost" => wire'[p].sequence \in 1..latest
      /\ wire'[p].kind = "snapshot" =>
            /\ p = 1 /\ wire'[p].sequence \in 0..Len(log) /\ cursor <= wire'[p].sequence
            /\ \A a \in Aggregates : wire'[p].rows[a] = RowIn(log, a, wire'[p].sequence)
            /\ \A m \in stranded : m <= wire'[p].sequence
  <2>1. CASE p \in DOMAIN wire
    BY <1>1, <2>1 DEF ItemsTrue, RowAt
  <2>2. CASE p \notin DOMAIN wire
    <3>1. p \in DOMAIN wire' \ DOMAIN wire
      BY <2>2
    <3>2. ASSUME wire'[p].kind = "snapshot"
          PROVE  /\ p = 1 /\ wire'[p].sequence = Len(log)
                 /\ \A a \in Aggregates : wire'[p].rows[a] = RowIn(log, a, Len(log))
      BY <3>1, <3>2 DEF AllRows, Row, RowAt
    <3>3. wire'[p].kind = "lost" => wire'[p].sequence \in 1..latest
      BY <3>1
    <3> QED
      BY <1>1, <3>1, <3>2, <3>3
  <2> QED
    BY <2>1, <2>2
<1>3. ASSUME wire'[p].kind = "row" PROVE Shows(wire[p].row, wire[p].aggregate, wire[p].sequence)'
  <2>1. wire'[p].sequence \in Nat
    BY <1>2, <1>3
  <2>2. \E k \in wire'[p].sequence..Len(log') : wire'[p].row = RowIn(log', wire'[p].aggregate, k)
    BY <1>1, <1>2, <1>3, <2>1, ShowsGrows
  <2> QED
    BY <2>2 DEF Shows, RowAt
<1>4. ASSUME wire'[p].kind = "snapshot", NEW a \in Aggregates
      PROVE  wire'[p].rows[a] = RowIn(log', a, wire'[p].sequence)
  BY <1>1, <1>2, <1>4, RowsKept
<1> QED
  BY <1>1, <1>2, <1>3, <1>4

LEMMA RowsForwardSent ==
    ASSUME TypeOK, ItemsTrue, RowsTrue, RowsForward, Receives,
           \A p \in DOMAIN wire' \ DOMAIN wire :
               /\ p = Len(wire) + 1
               /\ wire'[p].kind = "row" =>
                    \/ wire'[p].row = Row(wire'[p].aggregate)
                    \/ /\ wire'[p].row = Absent
                       /\ wire'[p].sequence \in 1..Len(log)
                       /\ Removes(log, wire'[p].sequence, wire'[p].aggregate)
               /\ wire'[p].kind = "row" => wire'[p].aggregate \in Aggregates
               /\ wire'[p].kind = "snapshot" => wire'[p].rows = AllRows
    PROVE  RowsForward'
<1> SUFFICES ASSUME NEW p \in DOMAIN wire'
             PROVE  /\ wire'[p].kind = "row" =>
                        \/ /\ wire'[p].row = Absent
                           /\ Removes(log', wire'[p].sequence, wire'[p].aggregate)
                        \/ /\ FollowsIn(log', rows'[wire'[p].aggregate], wire'[p].row, wire'[p].aggregate)
                           /\ \A q \in 1..(p - 1) :
                                /\ (wire'[q].kind = "row" /\ wire'[q].aggregate = wire'[p].aggregate)
                                    => FollowsIn(log', wire'[q].row, wire'[p].row, wire'[p].aggregate)
                                /\ wire'[q].kind = "snapshot"
                                    => FollowsIn(log', wire'[q].rows[wire'[p].aggregate],
                                                 wire'[p].row, wire'[p].aggregate)
                    /\ wire'[p].kind = "snapshot" =>
                        \A a \in Aggregates : FollowsIn(log', rows'[a], wire'[p].rows[a], a)
  BY DEF RowsForward, Follows
<1>1. /\ Grows /\ UNCHANGED rows /\ \A q \in DOMAIN wire : wire'[q] = wire[q]
      /\ DOMAIN wire = 1..Len(wire) /\ Len(wire) \in Nat
      /\ latest \in Nat /\ Len(log) \in Nat /\ latest <= Len(log)
      /\ \A i \in 1..Len(log) : log'[i] = log[i] /\ log[i].aggregate \in Aggregates
      /\ \A a \in Aggregates : rows[a] \in Nat
  BY Basics DEF Receives, Grows
<1>2. ASSUME NEW q \in DOMAIN wire
      PROVE  /\ wire[q].kind = "row" =>
                  /\ wire[q].aggregate \in Aggregates /\ wire[q].sequence \in 1..Len(log)
                  /\ wire[q].row \in Nat /\ Shows(wire[q].row, wire[q].aggregate, 0)
             /\ wire[q].kind = "snapshot" => \A a \in Aggregates :
                  wire[q].rows[a] \in Nat /\ Shows(wire[q].rows[a], a, 0)
  <2>1. ASSUME wire[q].kind = "row"
        PROVE  /\ wire[q].aggregate \in Aggregates /\ wire[q].sequence \in 1..Len(log)
               /\ wire[q].row \in Nat /\ Shows(wire[q].row, wire[q].aggregate, 0)
    <3>1. /\ wire[q].sequence \in 1..latest
          /\ wire[q].aggregate = log[wire[q].sequence].aggregate
          /\ Shows(wire[q].row, wire[q].aggregate, wire[q].sequence)
      BY <2>1 DEF ItemsTrue
    <3>2. wire[q].sequence \in 1..Len(log) /\ wire[q].aggregate \in Aggregates
      BY <1>1, <3>1
    <3>3. PICK k \in wire[q].sequence..Len(log) : wire[q].row = RowIn(log, wire[q].aggregate, k)
      BY <3>1 DEF Shows, RowAt
    <3>4. k \in Nat /\ k \in 0..Len(log)
      BY <1>1, <3>2, <3>3
    <3>5. wire[q].row \in Nat
      BY <3>3, <3>4, RowFacts
    <3> QED
      BY <3>2, <3>3, <3>4, <3>5 DEF Shows, RowAt
  <2>2. ASSUME wire[q].kind = "snapshot", NEW a \in Aggregates
        PROVE  wire[q].rows[a] \in Nat /\ Shows(wire[q].rows[a], a, 0)
    <3>1. /\ wire[q].sequence \in 0..Len(log)
          /\ wire[q].rows[a] = RowIn(log, a, wire[q].sequence)
      BY <2>2 DEF ItemsTrue, RowAt
    <3>2. wire[q].sequence \in Nat
      BY <3>1, <1>1
    <3>3. wire[q].rows[a] \in Nat
      BY <3>1, <3>2, RowFacts
    <3> QED
      BY <3>1, <3>3 DEF Shows, RowAt
  <2> QED
    BY <2>1, <2>2
<1>3. CASE p \in DOMAIN wire
  <2>1. \A q \in 1..(p - 1) : q \in DOMAIN wire
    BY <1>1, <1>3
  <2>2. wire'[p] = wire[p] /\ \A q \in 1..(p - 1) : wire'[q] = wire[q]
    BY <1>1, <1>3, <2>1
  <2>3. ASSUME wire[p].kind = "row"
        PROVE  \/ wire[p].row = Absent /\ Removes(log', wire[p].sequence, wire[p].aggregate)
               \/ /\ Behind(log', rows[wire[p].aggregate], p)
                  /\ \A q \in 1..(p - 1) :
                       /\ (wire[q].kind = "row" /\ wire[q].aggregate = wire[p].aggregate)
                            => Behind(log', wire[q].row, p)
                       /\ wire[q].kind = "snapshot"
                            => Behind(log', wire[q].rows[wire[p].aggregate], p)
    <3>1. /\ wire[p].aggregate \in Aggregates /\ wire[p].sequence \in 1..Len(log)
          /\ rows[wire[p].aggregate] \in Nat
      BY <1>1, <1>2, <1>3, <2>3
    <3>2. \/ wire[p].row = Absent /\ Removes(log, wire[p].sequence, wire[p].aggregate)
          \/ /\ Behind(log, rows[wire[p].aggregate], p)
             /\ \A q \in 1..(p - 1) :
                  /\ (wire[q].kind = "row" /\ wire[q].aggregate = wire[p].aggregate)
                       => Behind(log, wire[q].row, p)
                  /\ wire[q].kind = "snapshot"
                       => Behind(log, wire[q].rows[wire[p].aggregate], p)
      BY <1>3, <2>3 DEF RowsForward, Follows, Behind
    <3>3. \A old \in Nat : Behind(log, old, p) => Behind(log', old, p)
      BY <1>1, FollowsGrows DEF Behind
    <3>4. Removes(log, wire[p].sequence, wire[p].aggregate)
            => Removes(log', wire[p].sequence, wire[p].aggregate)
      BY <1>1, <3>1 DEF Removes
    <3>5. \A q \in 1..(p - 1) :
            /\ wire[q].kind = "row" => wire[q].row \in Nat
            /\ wire[q].kind = "snapshot" => wire[q].rows[wire[p].aggregate] \in Nat
      BY <1>2, <2>1, <3>1
    <3> QED
      BY <3>1, <3>2, <3>3, <3>4, <3>5
  <2>4. ASSUME wire[p].kind = "snapshot", NEW a \in Aggregates
        PROVE  FollowsIn(log', rows[a], wire[p].rows[a], a)
    <3>1. FollowsIn(log, rows[a], wire[p].rows[a], a)
      BY <1>3, <2>4 DEF RowsForward, Follows
    <3> QED
      BY <1>1, <3>1, FollowsGrows
  <2> QED
    BY <1>1, <2>2, <2>3, <2>4 DEF Behind
<1>4. CASE p \notin DOMAIN wire
  <2>1. p = Len(wire) + 1 /\ \A q \in 1..(p - 1) : q \in DOMAIN wire /\ wire'[q] = wire[q]
    BY <1>1, <1>4
  <2>2. ASSUME NEW a \in Aggregates, NEW row \in Nat, Shows(row, a, 0)
        PROVE  FollowsIn(log', row, Row(a), a)
    <3>1. FollowsIn(log, row, Row(a), a)
      BY <2>2, NowFollows DEF Follows
    <3> QED
      BY <1>1, <3>1, FollowsGrows
  <2>3. \A a \in Aggregates : FollowsIn(log', rows[a], Row(a), a)
    BY <1>1, <2>2 DEF RowsTrue
  <2>4. ASSUME wire'[p].kind = "row", wire'[p].row = Row(wire'[p].aggregate), NEW q \in 1..(p - 1)
        PROVE  /\ (wire[q].kind = "row" /\ wire[q].aggregate = wire'[p].aggregate)
                     => FollowsIn(log', wire[q].row, wire'[p].row, wire'[p].aggregate)
               /\ wire[q].kind = "snapshot"
                     => FollowsIn(log', wire[q].rows[wire'[p].aggregate], wire'[p].row,
                                  wire'[p].aggregate)
    <3>1. wire'[p].aggregate \in Aggregates
      BY <1>4, <2>4
    <3> QED
      BY <1>2, <2>1, <2>2, <2>4, <3>1
  <2>5. ASSUME wire'[p].kind = "snapshot", NEW a \in Aggregates
        PROVE  FollowsIn(log', rows'[a], wire'[p].rows[a], a)
    BY <1>1, <1>4, <2>3, <2>5 DEF AllRows
  <2>6. ASSUME wire'[p].kind = "row"
        PROVE  \/ wire'[p].row = Absent /\ Removes(log', wire'[p].sequence, wire'[p].aggregate)
               \/ /\ wire'[p].row = Row(wire'[p].aggregate)
                  /\ wire'[p].aggregate \in Aggregates
    BY <1>1, <1>4, <2>6 DEF Removes
  <2> QED
    BY <1>1, <2>1, <2>3, <2>4, <2>5, <2>6
<1> QED
  BY <1>3, <1>4

-----------------------------------------------------------------------------
(* The actions.                                                             *)

Truths == RowsTrue /\ ItemsTrue /\ RowsForward
Covers == ClientKeeps /\ WireCovers /\ ReplayCovers /\ LiveCovers /\ MarkerKept

\* What the client has is untouched when only engine and stream move.
LEMMA ClientUntouched ==
    ASSUME IInv, Receives,
           cache' = cache \/ cache' = [cursor |-> cursor, rows |-> rows, stranded |-> stranded],
           clientStage' = "streaming" /\ ~awaiting' =>
               clientStage = "streaming" /\ ~awaiting /\ markerAt' = markerAt
    PROVE  RowsTrue' /\ ClientKeeps' /\ MarkerKept'
<1>1. Grows /\ UNCHANGED <<cursor, rows, stranded>>
  BY DEF Receives
<1>2. RowsTrue'
  BY <1>1, RowsTrueReceived DEF IInv
<1>3. ClientKeeps'
  BY <1>1, KeepsReceived DEF IInv
<1>4. MarkerKept'
  <2> SUFFICES ASSUME clientStage' = "streaming", ~awaiting', NEW n \in 1..markerAt'
               PROVE  Shown(n)' \/ Lost(n)'
    BY DEF MarkerKept
  <2>1. n \in 1..markerAt /\ n \in 1..Len(log)
    BY Basics DEF IInv
  <2>2. Shown(n) \/ Lost(n)
    BY <2>1 DEF IInv, MarkerKept
  <2> QED
    BY <2>1, <2>2, ShownStays DEF IInv
<1> QED
  BY <1>2, <1>3, <1>4

LEMMA NothingSent ==
    ASSUME IInv, Receives, wire' = wire,
           markerAt' = markerAt \/ \A p \in DOMAIN wire : wire[p].kind # "synchronized"
    PROVE  ItemsTrue' /\ RowsForward' /\ WireCovers'
<1>1. DOMAIN wire' \ DOMAIN wire = {}
  OBVIOUS
<1> QED
  BY <1>1, ItemsTrueSent, RowsForwardSent, WireCoversSent DEF IInv

LEMMA NoStream ==
    ASSUME serverStage' \notin {"replaying", "replayed", "live"}, ~markerDue'
    PROVE  ReplayCovers' /\ LiveCovers'
BY DEF ReplayCovers, LiveCovers

LEMMA EngineKeeps ==
    ASSUME IInv,
           \/ \E a \in Aggregates, kind \in {"show", "hide", "touch"} : Commit(a, kind)
           \/ SwapLatest \/ Publish \/ Persist \/ LoadFails
    PROVE  Truths' /\ Covers'
<1>1. /\ wire' = wire /\ UNCHANGED <<cursor, rows, stranded, serverStage, replay, batch,
                                     markerDue, markerAt, awaiting>>
      /\ \/ UNCHANGED cache
         \/ cache' = [cursor |-> cursor, rows |-> rows, stranded |-> stranded]
      /\ clientStage' = "streaming" => clientStage = "streaming"
  BY DEF Commit, SwapLatest, Publish, Persist, LoadFails, shell, subscription
<1>2. Grows
  <2>1. CASE \E a \in Aggregates, kind \in {"show", "hide", "touch"} : Commit(a, kind)
    <3>1. PICK e : log' = Append(log, e)
      BY <2>1 DEF Commit
    <3>2. latest' = latest /\ log \in Seq([aggregate: Aggregates, kind: {"show", "hide", "touch"}])
      BY <2>1 DEF Commit, IInv, TypeOK
    <3> QED
      BY <3>1, <3>2, Basics DEF Grows, IInv
  <2>2. CASE SwapLatest
    BY <2>2, Basics DEF SwapLatest, Grows, IInv
  <2>3. CASE Publish \/ Persist \/ LoadFails
    <3>1. UNCHANGED <<log, latest>>
      BY <2>3 DEF Publish, Persist, LoadFails, engine
    <3> QED
      BY <3>1, Basics DEF Grows, IInv
  <2> QED
    BY <2>1, <2>2, <2>3
<1>3. Receives
  BY <1>1, <1>2, Basics DEF Receives, IInv
<1>4. \/ UNCHANGED <<feed, liveBuffer>>
      \/ feed' = feed + 1 /\ liveBuffer' = liveBuffer \cup {feed + 1}
      \/ serverStage = "none"
  BY DEF Commit, SwapLatest, Publish, Persist, LoadFails, shell, subscription, engine
<1>5. ReplayCovers' /\ LiveCovers'
  <2>1. CASE serverStage = "none"
    BY <1>1, <2>1, NoStream DEF IInv, Stages
  <2>2. CASE serverStage # "none"
    <3>1. EngineGoesOn
      BY <1>1, <1>3, <1>4, <2>2 DEF EngineGoesOn
    <3> QED
      BY <3>1, ReplayCoversGoesOn, LiveCoversGoesOn DEF IInv
  <2> QED
    BY <2>1, <2>2
<1>6. RowsTrue' /\ ClientKeeps' /\ MarkerKept'
  BY <1>1, <1>3, ClientUntouched
<1> QED
  BY <1>1, <1>3, <1>5, <1>6, NothingSent DEF Truths, Covers

\* A step of the stream that sends nothing.
LEMMA SilentStreamKeeps ==
    ASSUME IInv, Attach \/ StartReplay \/ ReplayChunk \/ FinishReplay \/ OfferMarker \/ LiveChunk
    PROVE  Truths' /\ Covers'
<1>1. /\ StreamMoves /\ wire' = wire /\ UNCHANGED <<awaiting, cache>>
      /\ \/ UNCHANGED <<clientStage, markerAt>>
         \/ Attach /\ UNCHANGED markerAt
         \/ OfferMarker
  BY DEF Attach, StartReplay, ReplayChunk, FinishReplay, OfferMarker, LiveChunk, StreamMoves,
         engine, shell
<1>2. Receives
  BY <1>1, StreamReceives DEF IInv
<1>3. Attach \/ OfferMarker => awaiting
  BY DEF Attach, OfferMarker, IInv, Stages, OneMarker
<1>4. RowsTrue' /\ ClientKeeps' /\ MarkerKept'
  BY <1>1, <1>2, <1>3, ClientUntouched
<1>5. OfferMarker => \A p \in DOMAIN wire : wire[p].kind # "synchronized"
  BY DEF OfferMarker, IInv, OneMarker
<1>6. ItemsTrue' /\ RowsForward' /\ WireCovers'
  <2>1. markerAt' = markerAt \/ \A p \in DOMAIN wire : wire[p].kind # "synchronized"
    BY <1>1, <1>5
  <2> QED
    BY <1>1, <1>2, <2>1, NothingSent
<1>7. ReplayCovers' /\ LiveCovers'
  <2>1. CASE Attach
    BY <2>1, NoStream DEF Attach, IInv, Stages
  <2>2. CASE StartReplay
    BY <2>2, StartsReplaying DEF StartReplay, IInv, Stages, LiveCovers
  <2>3. CASE ReplayChunk
    BY <2>3, ReplaysChunk DEF ReplayChunk, Idle, IInv, LiveCovers
  <2>4. CASE FinishReplay
    BY <2>4, FinishesReplay DEF FinishReplay, IInv, ReplayCovers
  <2>5. CASE OfferMarker
    BY <2>5, OffersMarker DEF OfferMarker, IInv, ReplayCovers
  <2>6. CASE LiveChunk
    BY <2>6, TakesLiveChunk DEF LiveChunk, IInv, ReplayCovers
  <2> QED
    BY <2>1, <2>2, <2>3, <2>4, <2>5, <2>6
<1> QED
  BY <1>4, <1>6, <1>7 DEF Truths, Covers

\* A step of the stream that sends what is not an event's item.
LEMMA StreamKeeps ==
    ASSUME IInv, SendSnapshot \/ EmitMarker \/ FailStream
    PROVE  Truths' /\ Covers'
<1>1. /\ UNCHANGED <<log, latest, feed, cursor, rows, stranded, awaiting, cache, clientStage,
                     markerAt>>
      /\ \/ wire' = Append(wire, [kind |-> "snapshot", sequence |-> Len(log), rows |-> AllRows])
            /\ SendSnapshot
         \/ wire' = Append(wire, [kind |-> "synchronized"]) /\ EmitMarker
         \/ wire' = Append(wire, [kind |-> "error"]) /\ FailStream
  BY DEF SendSnapshot, EmitMarker, FailStream, engine, shell
<1>2. PICK item : /\ wire' = Append(wire, item)
                  /\ \/ /\ item = [kind |-> "snapshot", sequence |-> Len(log), rows |-> AllRows]
                        /\ SendSnapshot
                     \/ item = [kind |-> "synchronized"] /\ EmitMarker
                     \/ item = [kind |-> "error"] /\ FailStream
  BY <1>1
<1>3. Receives
  <2>1. StreamMoves
    BY <1>1, <1>2 DEF StreamMoves
  <2> QED
    BY <2>1, StreamReceives DEF IInv
<1>4. RowsTrue' /\ ClientKeeps' /\ MarkerKept'
  BY <1>1, <1>3, ClientUntouched
<1>5. \A p \in DOMAIN wire' \ DOMAIN wire :
        p = Len(wire) + 1 /\ p = Len(wire') /\ wire'[p] = item
  BY <1>2, Sends, Basics DEF IInv
<1>6. /\ item.kind \in {"snapshot", "synchronized", "error"}
      /\ item.kind = "snapshot" =>
            wire = <<>> /\ item.sequence = Len(log) /\ item.rows = AllRows
      /\ item.kind = "synchronized" => EmitMarker
  BY <1>2 DEF SendSnapshot, IInv, Stages
<1>7. ItemsTrue'
  <2>1. wire = <<>> => Len(wire) + 1 = 1
    OBVIOUS
  <2> QED
    BY <1>3, <1>5, <1>6, <2>1, ItemsTrueSent DEF IInv
<1>8. RowsForward'
  BY <1>3, <1>5, <1>6, RowsForwardSent DEF IInv
<1>9. WireCovers'
  <2>1. CASE EmitMarker
    BY <2>1, EmitsMarker DEF IInv
  <2>2. CASE ~EmitMarker
    BY <1>1, <1>3, <1>5, <1>6, <2>2, WireCoversSent DEF IInv
  <2> QED
    BY <2>1, <2>2
<1>10. ReplayCovers' /\ LiveCovers'
  <2>1. CASE SendSnapshot
    BY <2>1, SendsSnapshot DEF SendSnapshot, IInv, ReplayCovers
  <2>2. CASE EmitMarker
    <3>1. serverStage' # "replaying"
      BY <2>2 DEF EmitMarker, IInv, Stages
    <3> QED
      BY <2>2, <3>1, EmitsMarker DEF IInv, ReplayCovers
  <2>3. CASE FailStream
    BY <2>3, NoStream DEF FailStream
  <2> QED
    BY <2>1, <2>2, <2>3
<1> QED
  BY <1>4, <1>7, <1>8, <1>9, <1>10 DEF Truths, Covers

\* The item of an event is sent, or lost.
LEMMA ItemKeeps ==
    ASSUME IInv, EmitItem \/ DropItem
    PROVE  Truths' /\ Covers'
<1>1. PICK i \in batch :
        \/ Leave(i, ItemFor(i))
        \/ Leave(i, [kind |-> "lost", sequence |-> i])
  BY DEF EmitItem, DropItem
<1>2. PICK item : /\ Leave(i, item)
                  /\ item = ItemFor(i) \/ item = [kind |-> "lost", sequence |-> i]
  BY <1>1
<1>3. item.kind \in {"row", "lost"} /\ item.sequence = i
  BY <1>2 DEF ItemFor
<1>4. Leaves(i)
  BY <1>2, <1>3 DEF Leave, Leaves, engine, shell
<1>5. Receives /\ i \in 1..latest /\ i \in 1..Len(log)
  BY <1>4, LeavesFacts DEF IInv
<1>6. \A p \in DOMAIN wire' \ DOMAIN wire : p = Len(wire) + 1 /\ wire'[p] = item
  BY <1>2, Sends, Basics DEF Leave, IInv
<1>7. UNCHANGED <<cache, clientStage, awaiting, markerAt>>
  BY <1>2 DEF Leave, shell
<1>8. RowsTrue' /\ ClientKeeps' /\ MarkerKept'
  BY <1>5, <1>7, ClientUntouched
<1>9. item.kind = "row" =>
        /\ item.aggregate = log[i].aggregate /\ item.aggregate \in Aggregates
        /\ \/ item.row = Row(item.aggregate)
           \/ item.row = Absent /\ Removes(log, i, item.aggregate)
        /\ Shows(item.row, item.aggregate, i)
  <2> SUFFICES ASSUME item.kind = "row"
               PROVE  /\ item.aggregate = log[i].aggregate /\ item.aggregate \in Aggregates
                      /\ \/ item.row = Row(item.aggregate)
                         \/ item.row = Absent /\ Removes(log, i, item.aggregate)
                      /\ Shows(item.row, item.aggregate, i)
    OBVIOUS
  <2>1. /\ item.aggregate = log[i].aggregate
        /\ item.row = IF log[i].kind = "hide" THEN Absent ELSE Row(log[i].aggregate)
    BY <1>2 DEF ItemFor
  <2>2. item.aggregate \in Aggregates
    BY <1>5, <2>1, Basics DEF IInv
  <2>3. Shows(item.row, item.aggregate, i)
    <3>1. CASE log[i].kind = "hide"
      <4>1. i \in Nat \ {0}
        BY <1>5
      <4>2. RowIn(log, log[i].aggregate, i) = Absent
        BY <3>1, <4>1, HiddenRow
      <4>3. i \in i..Len(log)
        BY <1>5
      <4> QED
        BY <2>1, <3>1, <4>2, <4>3 DEF Shows, RowAt
    <3>2. CASE log[i].kind # "hide"
      <4>1. Len(log) \in i..Len(log)
        BY <1>5
      <4> QED
        BY <2>1, <3>2, <4>1 DEF Shows, Row, RowAt
    <3> QED
      BY <3>1, <3>2
  <2> QED
    BY <2>1, <2>2, <2>3 DEF Removes
<1>10. ItemsTrue'
  BY <1>3, <1>5, <1>6, <1>9, ItemsTrueSent DEF IInv
<1>11. RowsForward'
  BY <1>3, <1>5, <1>6, <1>9, RowsForwardSent DEF IInv
<1>12. WireCovers' /\ ReplayCovers' /\ LiveCovers'
  BY <1>4, WireCoversLeaves, ReplayCoversLeaves, LiveCoversLeaves DEF IInv
<1> QED
  BY <1>8, <1>10, <1>11, <1>12 DEF Truths, Covers

\* The client applies an item.
LEMMA ClientKeepsItem ==
    ASSUME IInv,
           ApplySnapshot \/ ApplyRow \/ ApplySynchronized \/ ApplyError \/ PassLostItem
    PROVE  /\ Applies /\ UNCHANGED <<feed, serverStage, replay, liveBuffer, batch, markerDue,
                                     markerAt, cache>>
           /\ clientStage' = "streaming" =>
                clientStage = "streaming" /\ (awaiting' = awaiting \/ wire[1].kind = "synchronized")
<1>1. wire # <<>> /\ wire' = Tail(wire) /\ Head(wire) = wire[1]
      /\ UNCHANGED <<log, latest, feed, serverStage, replay, liveBuffer, batch, markerDue,
                     markerAt, cache>>
  <2>1. PICK kind : NextItem(kind)
    BY DEF ApplySnapshot, ApplyRow, ApplySynchronized, ApplyError, PassLostItem
  <2> QED
    BY <2>1, Basics DEF NextItem, engine, IInv
<1>2. clientStage = "streaming"
  BY <1>1 DEF IInv, Stages
<1>3. 1 \in DOMAIN wire
  BY <1>1, Basics DEF IInv
<1>4. wire[1].kind = "row" => wire[1].sequence \in Int
  BY <1>3, Basics DEF IInv, ItemsTrue
<1>5. CASE ApplySnapshot
  BY <1>1, <1>2, <1>5 DEF ApplySnapshot, NextItem, TakeSnapshot, Applies
<1>6. CASE ApplyRow
  <2>1. wire[1].kind = "row"
    BY <1>1, <1>6 DEF ApplyRow, NextItem
  <2>2. CASE wire[1].sequence > cursor
    BY <1>1, <1>2, <1>6, <2>1, <2>2 DEF ApplyRow, Applies
  <2>3. CASE ~(wire[1].sequence > cursor)
    <3>1. wire[1].sequence <= cursor
      BY <1>4, <2>1, <2>3, Basics DEF IInv
    <3>2. UNCHANGED <<cursor, rows, stranded>>
      BY <1>1, <1>6, <2>3 DEF ApplyRow
    <3> QED
      BY <1>1, <1>2, <1>6, <2>1, <3>1, <3>2 DEF ApplyRow, Applies
  <2> QED
    BY <2>2, <2>3
<1>7. CASE ApplySynchronized
  BY <1>1, <1>2, <1>7 DEF ApplySynchronized, NextItem, Applies
<1>8. CASE ApplyError
  BY <1>1, <1>2, <1>8 DEF ApplyError, NextItem, Applies
<1>9. CASE PassLostItem
  BY <1>1, <1>2, <1>9 DEF PassLostItem, NextItem, Applies
<1> QED
  BY <1>5, <1>6, <1>7, <1>8, <1>9

LEMMA ClientItemCovers ==
    ASSUME IInv,
           ApplySnapshot \/ ApplyRow \/ ApplySynchronized \/ ApplyError \/ PassLostItem
    PROVE  Truths' /\ Covers' /\ Forward
<1>1. /\ Applies /\ UNCHANGED <<feed, serverStage, replay, liveBuffer, batch, markerDue,
                                markerAt, cache>>
      /\ clientStage' = "streaming" =>
            clientStage = "streaming" /\ (awaiting' = awaiting \/ wire[1].kind = "synchronized")
  BY ClientKeepsItem
<1>2. ItemsTrue' /\ RowsTrue' /\ RowsForward' /\ Forward
  BY <1>1, ItemsTrueApplied, RowsTrueApplied, RowsForwardApplied DEF IInv
<1>3. ClientKeeps' /\ WireCovers' /\ ReplayCovers' /\ LiveCovers'
  BY <1>1, KeepsApplied, WireCoversApplied, ReplayCoversApplied, LiveCoversApplied DEF IInv
<1>4. MarkerKept'
  <2> SUFFICES ASSUME clientStage' = "streaming", ~awaiting', NEW n \in 1..markerAt'
               PROVE  Shown(n)' \/ Lost(n)'
    BY DEF MarkerKept
  <2>1. n \in 1..markerAt /\ n \in 1..Len(log)
    BY <1>1, Basics DEF IInv
  <2>2. CASE ~awaiting
    <3>1. Shown(n) \/ Lost(n)
      BY <1>1, <2>1, <2>2 DEF IInv, MarkerKept
    <3> QED
      BY <1>1, <2>1, <3>1, ShownApplied DEF IInv
  <2>3. CASE awaiting
    <3>1. wire[1].kind = "synchronized" /\ 1 \in DOMAIN wire
      BY <1>1, <2>3, TailFacts DEF IInv
    <3>2. Accounted(n, 1)
      BY <2>1, <3>1 DEF IInv, WireCovers
    <3> QED
      BY <1>1, <2>1, <3>2, AccountApplied DEF IInv
  <2> QED
    BY <2>2, <2>3
<1> QED
  BY <1>2, <1>3, <1>4 DEF Truths, Covers

\* There is no subscription afterwards.
Rests ==
    /\ wire' = <<>> /\ serverStage' = "none" /\ ~markerDue'
    /\ clientStage' = "streaming" => awaiting'
    /\ UNCHANGED <<log, cache>> /\ latest' \in Nat /\ latest' >= latest

LEMMA RestKeeps ==
    ASSUME IInv, Rests,
           \/ UNCHANGED <<cursor, rows, stranded>>
           \/ cursor' = cache.cursor /\ rows' = cache.rows /\ stranded' = cache.stranded
           \/ cursor' = Len(log) /\ rows' = AllRows
    PROVE  Truths' /\ Covers'
<1>1. DOMAIN wire' = {} /\ Len(log) \in Nat /\ UNCHANGED log /\ UNCHANGED cache
  BY Basics DEF Rests, IInv
<1>2. ItemsTrue' /\ RowsForward' /\ WireCovers'
  BY <1>1 DEF ItemsTrue, RowsForward, WireCovers
<1>3. ReplayCovers' /\ LiveCovers'
  BY NoStream DEF Rests
<1>4. MarkerKept'
  BY DEF Rests, MarkerKept
<1>5. Grows
  BY <1>1, Basics DEF Rests, Grows
<1>6. RowsTrue'
  <2>1. \A a \in Aggregates : AllRows[a] = RowIn(log, a, Len(log))
    BY DEF AllRows, Row, RowAt
  <2>2. \A a \in Aggregates : Shows(AllRows[a], a, 0)
    BY <1>1, <2>1 DEF Shows, RowAt
  <2>3. \A a \in Aggregates : Shows(rows'[a], a, 0) /\ Shows(cache.rows[a], a, 0)
    BY <2>2 DEF IInv, RowsTrue
  <2> QED
    BY <1>1, <2>3 DEF RowsTrue, Shows, RowAt
<1>7. ClientKeeps'
  <2>1. \A c \in NoSnapshot..Len(log) : \A r : \A l \in SUBSET (1..latest) : Keeps(c, r, l) => Keeps(c, r, l)'
    BY <1>5, KeepsStays DEF IInv
  <2>2. \A c, r, l : c = cache.cursor /\ r = cache.rows /\ l = cache.stranded => Keeps(c, r, l)'
    BY <2>1 DEF IInv, TypeOK, ClientKeeps
  <2>3. CASE UNCHANGED <<cursor, rows, stranded>>
    <3>1. \A c, r, l : c = cursor /\ r = rows /\ l = stranded => Keeps(c, r, l)'
      BY <2>1 DEF IInv, TypeOK, ClientKeeps
    <3> QED
      BY <1>1, <2>2, <2>3, <3>1 DEF ClientKeeps
  <2>4. CASE cursor' = cache.cursor /\ rows' = cache.rows /\ stranded' = cache.stranded
    BY <1>1, <2>2, <2>4 DEF ClientKeeps
  <2>5. CASE cursor' = Len(log) /\ rows' = AllRows
    <3>1. ASSUME NEW n \in 1..Len(log)
          PROVE  rows'[log[n].aggregate] = RowIn(log, log[n].aggregate, Len(log))
                 /\ Len(log) \in n..Len(log)
      BY <1>1, <2>5, Basics DEF AllRows, Row, RowAt, IInv
    <3>2. \A n \in 1..cursor' : Shows(rows[log[n].aggregate], log[n].aggregate, n)'
      BY <1>1, <2>5, <3>1 DEF Shows, RowAt
    <3>3. \A c, r, l : c = cursor' /\ r = rows' /\ l = stranded' => Keeps(c, r, l)'
      BY <3>2 DEF Keeps
    <3> QED
      BY <1>1, <2>2, <3>3 DEF ClientKeeps
  <2> QED
    BY <2>3, <2>4, <2>5
<1> QED
  BY <1>2, <1>3, <1>4, <1>6, <1>7 DEF Truths, Covers

Resting ==
    \/ Connect \/ ReplaceSession \/ Resubscribe \/ RetryAfterError \/ LoadSnapshot
    \/ Disconnect \/ RestartClient \/ RestartServer

LEMMA RestingKeeps ==
    ASSUME IInv, Resting
    PROVE  /\ Rests /\ Truths' /\ Covers'
           /\ RestartClient \/ Forward
<1>0. /\ latest \in Nat /\ Len(log) \in Nat /\ latest <= Len(log)
      /\ cursor \in Int /\ cursor <= Len(log) /\ rows \in [Aggregates -> Nat]
  BY Basics DEF IInv
<1>1. Rests
  <2>1. CASE Connect
    <3>1. wire = <<>> /\ serverStage = "none" /\ ~markerDue
      BY <2>1 DEF Connect, IInv, Stages
    <3> QED
      BY <1>0, <2>1, <3>1 DEF Connect, MakeSubscribeInput, Rests, engine
  <2>2. CASE ReplaceSession
    BY <1>0, <2>2 DEF ReplaceSession, NoSubscription, MakeSubscribeInput, Rests, engine
  <2>3. CASE Resubscribe
    BY <1>0, <2>3 DEF Resubscribe, NoSubscription, MakeSubscribeInput, Rests, engine
  <2>4. CASE RetryAfterError
    BY <1>0, <2>4 DEF RetryAfterError, NoSubscription, MakeSubscribeInput, Rests, engine
  <2>5. CASE LoadSnapshot
    <3>1. wire = <<>> /\ serverStage = "none" /\ ~markerDue
      BY <2>5 DEF LoadSnapshot, IInv, Stages
    <3> QED
      BY <1>0, <2>5, <3>1 DEF LoadSnapshot, Rests, engine
  <2>6. CASE Disconnect
    BY <1>0, <2>6 DEF Disconnect, NoSubscription, Rests, engine
  <2>7. CASE RestartClient
    BY <1>0, <2>7 DEF RestartClient, NoSubscription, Rests, engine
  <2>8. CASE RestartServer
    BY <1>0, <2>8 DEF RestartServer, NoSubscription, Rests
  <2> QED
    BY <2>1, <2>2, <2>3, <2>4, <2>5, <2>6, <2>7, <2>8 DEF Resting
<1>2. \/ UNCHANGED <<cursor, rows, stranded>>
      \/ RestartClient /\ cursor' = cache.cursor /\ rows' = cache.rows /\ stranded' = cache.stranded
      \/ cursor' = Len(log) /\ rows' = AllRows
  BY DEF Resting, Connect, ReplaceSession, Resubscribe, RetryAfterError, LoadSnapshot, Disconnect,
         RestartClient, RestartServer, TakeSnapshot
<1>3. Truths' /\ Covers'
  BY <1>1, <1>2, RestKeeps
<1>4. RestartClient \/ Forward
  <2>1. CASE UNCHANGED <<cursor, rows, stranded>>
    <3>1. \A a \in Aggregates : rows[a] \in Nat
      BY <1>0
    <3> QED
      BY <1>0, <2>1, <3>1 DEF Forward, ForwardRow, Follows, FollowsIn
  <2>2. CASE cursor' = Len(log) /\ rows' = AllRows
    <3>1. \A a \in Aggregates : Follows(rows[a], Row(a), a)
      BY NowFollows DEF IInv, RowsTrue
    <3> QED
      BY <1>0, <2>2, <3>1 DEF Forward, ForwardRow, AllRows
  <2> QED
    BY <1>2, <2>1, <2>2
<1> QED
  BY <1>1, <1>3, <1>4

LEMMA NextKeeps ==
    ASSUME IInv, [Next]_vars
    PROVE  Truths' /\ Covers' /\ (RestartClient \/ Forward)
<1>0. UNCHANGED <<cursor, rows>> => Forward
  <2>1. cursor \in Int /\ \A a \in Aggregates : rows[a] \in Nat
    BY Basics DEF IInv
  <2> QED
    BY <2>1 DEF Forward, ForwardRow, Follows, FollowsIn
<1>1. CASE \/ \E a \in Aggregates, kind \in {"show", "hide", "touch"} : Commit(a, kind)
           \/ SwapLatest \/ Publish \/ Persist \/ LoadFails
  <2>1. UNCHANGED <<cursor, rows>>
    BY <1>1 DEF Commit, SwapLatest, Publish, Persist, LoadFails, shell
  <2> QED
    BY <1>0, <1>1, <2>1, EngineKeeps
<1>2. CASE Attach \/ StartReplay \/ ReplayChunk \/ FinishReplay \/ OfferMarker \/ LiveChunk
  <2>1. UNCHANGED <<cursor, rows>>
    BY <1>2 DEF Attach, StartReplay, ReplayChunk, FinishReplay, OfferMarker, LiveChunk, shell
  <2> QED
    BY <1>0, <1>2, <2>1, SilentStreamKeeps
<1>3. CASE SendSnapshot \/ EmitMarker \/ FailStream
  <2>1. UNCHANGED <<cursor, rows>>
    BY <1>3 DEF SendSnapshot, EmitMarker, FailStream, shell
  <2> QED
    BY <1>0, <1>3, <2>1, StreamKeeps
<1>4. CASE EmitItem \/ DropItem
  <2>1. UNCHANGED <<cursor, rows>>
    BY <1>4 DEF EmitItem, DropItem, Leave, shell
  <2> QED
    BY <1>0, <1>4, <2>1, ItemKeeps
<1>5. CASE ApplySnapshot \/ ApplyRow \/ ApplySynchronized \/ ApplyError \/ PassLostItem
  BY <1>5, ClientItemCovers
<1>6. CASE Resting
  BY <1>6, RestingKeeps
<1>7. CASE UNCHANGED vars
  <2>1. UNCHANGED <<cursor, rows>>
    BY <1>7 DEF vars
  <2>2. Truths' /\ Covers'
    BY <1>7 DEF vars, IInv, Truths, Covers, RowsTrue, ItemsTrue, RowsForward, Follows, FollowsIn, Removes, ClientKeeps, Keeps,
                WireCovers, ReplayCovers, LiveCovers, MarkerKept, Accounted, AccountedFor, Batched,
                Pending, Shown, Lost, MakesUp, Ahead, AheadOfAll, Passes, Shows, RowAt, SameAggregate
  <2> QED
    BY <1>0, <2>1, <2>2
<1> QED
  BY <1>1, <1>2, <1>3, <1>4, <1>5, <1>6, <1>7
     DEF Next, EngineStep, ServerStep, ClientStep, Resting

-----------------------------------------------------------------------------
(* Types and stages.                                                        *)

EventKind == {"show", "hide", "touch"}

EngineTyped ==
    /\ log \in Seq([aggregate: Aggregates, kind: EventKind])
    /\ feed \in 0..latest /\ latest \in 0..Len(log)
SessionTyped ==
    /\ session \in Nat /\ connected \in BOOLEAN
    /\ clientStage \in {"idle", "loading", "subscribing", "streaming", "retrying"}
    /\ status \in {"empty", "cached", "synchronizing", "live"}
    /\ awaiting \in BOOLEAN /\ authoritative \in Nat
    /\ request \in NoSnapshot..Len(log)
SnapshotTyped ==
    /\ cursor \in NoSnapshot..Len(log) /\ rows \in [Aggregates -> Nat] /\ stranded \subseteq 1..latest
    /\ cache.cursor \in NoSnapshot..Len(log) /\ cache.rows \in [Aggregates -> Nat]
    /\ cache.stranded \subseteq 1..latest
StreamTyped ==
    /\ serverStage \in {"none", "attached", "replaying", "replayed", "live"}
    /\ replay \in [next: Nat \ {0}, last: Nat]
    /\ liveBuffer \subseteq 1..feed /\ batch \subseteq 1..latest /\ markerDue \in BOOLEAN
    /\ wire \in Seq(Items) /\ markerAt \in 0..feed

LEMMA TypedParts ==
    /\ TypeOK <=> EngineTyped /\ SessionTyped /\ SnapshotTyped /\ StreamTyped
    /\ TypeOK' <=> EngineTyped' /\ SessionTyped' /\ SnapshotTyped' /\ StreamTyped'
BY DEF TypeOK, EngineTyped, SessionTyped, SnapshotTyped, StreamTyped, EventKind

\* The log and what was published grow; the rest of the engine's world stays typed.
LEMMA EngineTypes ==
    ASSUME TypeOK, [Next]_vars
    PROVE  /\ EngineTyped' /\ Grows
           /\ feed' >= feed /\ feed \in Nat /\ feed' \in Nat
<1>1. /\ Len(log) \in Nat /\ latest \in Nat /\ latest <= Len(log) /\ feed \in Nat /\ feed <= latest
      /\ log \in Seq([aggregate: Aggregates, kind: EventKind])
  BY Basics DEF TypeOK, EventKind
<1>2. CASE UNCHANGED engine
  BY <1>1, <1>2 DEF engine, EngineTyped, Grows
<1>3. ASSUME NEW a \in Aggregates, NEW kind \in EventKind, Commit(a, kind)
      PROVE  EngineTyped' /\ Grows /\ feed' >= feed /\ feed' \in Nat
  <2> DEFINE e == [aggregate |-> a, kind |-> kind]
             Event == [aggregate: Aggregates, kind: EventKind]
  <2>1. log' = Append(log, e) /\ e \in Event /\ log \in Seq(Event) /\ UNCHANGED <<latest, feed>>
    BY <1>1, <1>3 DEF Commit
  <2> HIDE DEF e, Event
  <2>2. log' \in Seq(Event) /\ Len(log') = Len(log) + 1 /\ \A i \in 1..Len(log) : log'[i] = log[i]
    BY <2>1
  <2> QED
    BY <1>1, <2>1, <2>2 DEF EngineTyped, Grows, Event
<1>4. CASE SwapLatest
  BY <1>1, <1>4 DEF SwapLatest, EngineTyped, Grows
<1>5. CASE Publish
  BY <1>1, <1>5 DEF Publish, EngineTyped, Grows
<1>6. CASE RestartServer
  BY <1>1, <1>6 DEF RestartServer, EngineTyped, Grows
<1>7. \/ UNCHANGED engine \/ SwapLatest \/ Publish \/ RestartServer
      \/ \E a \in Aggregates, kind \in EventKind : Commit(a, kind)
  BY DEF Next, EngineStep, ServerStep, ClientStep, EventKind, vars, engine, Attach, StartReplay,
         SendSnapshot, ReplayChunk, FinishReplay, OfferMarker, LiveChunk, EmitItem, EmitMarker,
         DropItem, FailStream, Leave, RetryAfterError, LoadSnapshot, LoadFails, ApplySnapshot,
         ApplyRow, ApplySynchronized, ApplyError, PassLostItem, NextItem, Connect, ReplaceSession,
         Resubscribe, Disconnect, Persist, RestartClient
<1> QED
  BY <1>1, <1>2, <1>3, <1>4, <1>5, <1>6, <1>7

LEMMA SnapshotTypes ==
    ASSUME TypeOK, ItemsTrue, [Next]_vars
    PROVE  SnapshotTyped'
<1>1. Grows /\ Len(log') \in Nat /\ Len(log) \in Nat /\ latest \in Nat /\ latest' \in Nat
  BY EngineTypes, Basics DEF Grows
<1>2. SnapshotTyped
  BY TypedParts
<1>3. \A c \in NoSnapshot..Len(log) : c \in NoSnapshot..Len(log')
  BY <1>1 DEF Grows, NoSnapshot
<1>4. \A S : S \subseteq 1..latest => S \subseteq 1..latest'
  BY <1>1 DEF Grows
<1>5. \A a \in Aggregates : Row(a) \in Nat
  BY <1>1, RowFacts DEF Row, RowAt
<1>6. CASE UNCHANGED <<cursor, rows, stranded, cache>>
  BY <1>2, <1>3, <1>4, <1>6 DEF SnapshotTyped
<1>7. CASE Persist
  BY <1>2, <1>3, <1>4, <1>7 DEF SnapshotTyped, Persist, shell
<1>8. CASE RestartClient
  BY <1>2, <1>3, <1>4, <1>8 DEF SnapshotTyped, RestartClient
<1>9. CASE LoadSnapshot
  <2>1. cursor' = Len(log) /\ rows' = AllRows /\ stranded' = {} /\ UNCHANGED cache
    BY <1>9 DEF LoadSnapshot, TakeSnapshot
  <2>2. Len(log) \in NoSnapshot..Len(log)
    BY <1>1 DEF NoSnapshot
  <2>3. AllRows \in [Aggregates -> Nat]
    BY <1>5 DEF AllRows
  <2> QED
    BY <1>2, <1>3, <1>4, <2>1, <2>2, <2>3 DEF SnapshotTyped
<1>10. CASE ApplySnapshot \/ ApplyRow \/ PassLostItem
  <2>1. /\ wire # <<>> /\ UNCHANGED cache /\ Head(wire) = wire[1] /\ 1 \in DOMAIN wire
        /\ wire[1] \in Items
    BY <1>10, Basics DEF ApplySnapshot, ApplyRow, PassLostItem, NextItem
  <2>2. CASE ApplySnapshot
    <3>1. wire[1].kind = "snapshot"
      BY <2>1, <2>2 DEF ApplySnapshot, NextItem
    <3>2. wire[1].rows \in [Aggregates -> Nat] /\ wire[1].sequence \in 0..Len(log)
      BY <2>1, <3>1 DEF Items, ItemsTrue
    <3>3. cursor' = wire[1].sequence /\ rows' = wire[1].rows /\ stranded' = {}
      BY <2>1, <2>2 DEF ApplySnapshot, TakeSnapshot
    <3>4. wire[1].sequence \in NoSnapshot..Len(log)
      BY <3>2 DEF NoSnapshot
    <3> QED
      BY <1>2, <1>3, <1>4, <2>1, <3>2, <3>3, <3>4 DEF SnapshotTyped
  <2>3. CASE ApplyRow
    <3>1. wire[1].kind = "row"
      BY <2>1, <2>3 DEF ApplyRow, NextItem
    <3>2. wire[1].row \in Nat /\ wire[1].sequence \in 1..latest
      BY <2>1, <3>1 DEF Items, ItemsTrue
    <3>3. \/ UNCHANGED <<cursor, rows, stranded>>
          \/ /\ cursor' = wire[1].sequence
             /\ rows' = [rows EXCEPT ![wire[1].aggregate] = wire[1].row]
             /\ stranded' \subseteq stranded
      BY <2>1, <2>3 DEF ApplyRow, Unreached
    <3>4. wire[1].sequence \in NoSnapshot..Len(log)
      <4>1. latest <= Len(log)
        BY Basics
      <4> QED
        BY <1>1, <3>2, <4>1 DEF NoSnapshot
    <3> QED
      BY <1>2, <1>3, <1>4, <2>1, <3>2, <3>3, <3>4 DEF SnapshotTyped
  <2>4. CASE PassLostItem
    <3>1. wire[1].kind = "lost"
      BY <2>1, <2>4 DEF PassLostItem, NextItem
    <3>2. wire[1].sequence \in 1..latest
      BY <2>1, <3>1 DEF ItemsTrue
    <3>3. stranded' = stranded \cup {wire[1].sequence} /\ UNCHANGED <<cursor, rows>>
      BY <2>1, <2>4 DEF PassLostItem
    <3> QED
      BY <1>2, <1>3, <1>4, <2>1, <3>2, <3>3 DEF SnapshotTyped
  <2> QED
    BY <1>10, <2>2, <2>3, <2>4
<1>11. \/ UNCHANGED <<cursor, rows, stranded, cache>> \/ Persist \/ RestartClient \/ LoadSnapshot
       \/ ApplySnapshot \/ ApplyRow \/ PassLostItem
  BY DEF Next, EngineStep, ServerStep, ClientStep, EventKind, vars, shell, Attach, StartReplay,
         SendSnapshot, ReplayChunk, FinishReplay, OfferMarker, LiveChunk, EmitItem, EmitMarker,
         DropItem, FailStream, Leave, RetryAfterError, LoadFails,
         ApplySynchronized, ApplyError, NextItem, Connect, ReplaceSession,
         Resubscribe, Disconnect, RestartServer, Commit, SwapLatest, Publish
<1> QED
  BY <1>6, <1>7, <1>8, <1>9, <1>10, <1>11

LEMMA SessionTypes ==
    ASSUME TypeOK, [Next]_vars
    PROVE  SessionTyped'
<1>1. /\ Grows /\ Len(log') \in Nat /\ Len(log) \in Nat /\ Len(log) \in NoSnapshot..Len(log)
      /\ NoSnapshot \in NoSnapshot..Len(log) /\ cursor \in NoSnapshot..Len(log)
  <2>1. Len(log) \in Nat /\ cursor \in NoSnapshot..Len(log)
    BY Basics DEF TypeOK
  <2>2. Grows
    BY EngineTypes
  <2> QED
    BY <2>1, <2>2 DEF Grows, NoSnapshot
<1>2. SessionTyped
  BY TypedParts
<1>3. \A c \in NoSnapshot..Len(log) : c \in NoSnapshot..Len(log')
  BY <1>1 DEF Grows, NoSnapshot
<1>4. StatusOffline \in {"empty", "cached"}
  BY DEF StatusOffline
<1>5. ASSUME NEW s, MakeSubscribeInput(s)
      PROVE  /\ clientStage' \in {"loading", "subscribing"} /\ awaiting' = TRUE
             /\ status' = "synchronizing" /\ request' \in NoSnapshot..Len(log)
  BY <1>1, <1>5 DEF MakeSubscribeInput
<1>6. CASE UNCHANGED <<session, connected, clientStage, status, awaiting, authoritative, request>>
  BY <1>2, <1>3, <1>6 DEF SessionTyped
<1>7. CASE Connect \/ ReplaceSession \/ Resubscribe \/ RetryAfterError
  <2>1. /\ session' \in Nat /\ connected' \in BOOLEAN /\ UNCHANGED authoritative
        /\ \E s : MakeSubscribeInput(s)
    <3>1. session \in Nat /\ connected \in BOOLEAN /\ session + 1 \in Nat
      BY <1>2 DEF SessionTyped
    <3>2. CASE Connect
      BY <3>1, <3>2 DEF Connect
    <3>3. CASE ReplaceSession
      BY <3>1, <3>3 DEF ReplaceSession
    <3>4. CASE Resubscribe
      BY <3>1, <3>4 DEF Resubscribe
    <3>5. CASE RetryAfterError
      BY <3>1, <3>5 DEF RetryAfterError
    <3> QED
      BY <1>7, <3>2, <3>3, <3>4, <3>5
  <2> QED
    BY <1>2, <1>3, <1>5, <2>1 DEF SessionTyped
<1>8. CASE LoadSnapshot
  BY <1>1, <1>2, <1>3, <1>8 DEF LoadSnapshot, TakeSnapshot, SessionTyped
<1>9. CASE LoadFails
  BY <1>1, <1>2, <1>3, <1>9 DEF LoadFails, shell, SessionTyped
<1>10. CASE ApplySnapshot
  BY <1>1, <1>2, <1>3, <1>10 DEF ApplySnapshot, NextItem, TakeSnapshot, SessionTyped
<1>11. CASE ApplyRow
  BY <1>1, <1>2, <1>3, <1>11 DEF ApplyRow, NextItem, SessionTyped
<1>12. CASE ApplySynchronized
  BY <1>1, <1>2, <1>3, <1>12 DEF ApplySynchronized, NextItem, SessionTyped
<1>13. CASE ApplyError
  BY <1>1, <1>2, <1>3, <1>4, <1>13 DEF ApplyError, NextItem, SessionTyped
<1>14. CASE Disconnect \/ RestartServer
  BY <1>1, <1>2, <1>3, <1>4, <1>14 DEF Disconnect, RestartServer, SessionTyped
<1>15. CASE RestartClient
  BY <1>1, <1>2, <1>3, <1>15 DEF RestartClient, SessionTyped
<1>16. CASE Attach
  BY <1>1, <1>2, <1>3, <1>16 DEF Attach, shell, SessionTyped
<1>17. CASE StartReplay \/ SendSnapshot \/ FailStream
  BY <1>1, <1>2, <1>3, <1>17 DEF StartReplay, SendSnapshot, FailStream, shell, SessionTyped
<1>18. \/ UNCHANGED <<session, connected, clientStage, status, awaiting, authoritative, request>>
       \/ Connect \/ ReplaceSession \/ Resubscribe \/ RetryAfterError \/ LoadSnapshot \/ LoadFails
       \/ ApplySnapshot \/ ApplyRow \/ ApplySynchronized \/ ApplyError
       \/ Disconnect \/ RestartServer \/ RestartClient
       \/ Attach \/ StartReplay \/ SendSnapshot \/ FailStream
  BY DEF Next, EngineStep, ServerStep, ClientStep, vars, shell, subscription, ReplayChunk,
         FinishReplay, OfferMarker, LiveChunk, EmitItem, EmitMarker, DropItem, Leave,
         PassLostItem, NextItem, Persist, Commit, SwapLatest, Publish
<1> QED
  BY <1>6, <1>7, <1>8, <1>9, <1>10, <1>11, <1>12, <1>13, <1>14, <1>15, <1>16, <1>17, <1>18

LEMMA WireTypes ==
    ASSUME TypeOK, ItemsTrue, [Next]_vars
    PROVE  wire' \in Seq(Items)
<1>1. wire \in Seq(Items) /\ Len(log) \in Nat
  BY Basics
<1>2. \A item \in Items : wire' = Append(wire, item) => wire' \in Seq(Items)
  BY <1>1
<1>3. \A a \in Aggregates : Row(a) \in Nat
  BY <1>1, RowFacts DEF Row, RowAt
<1>4. [kind |-> "synchronized"] \in Items /\ [kind |-> "error"] \in Items
  BY DEF Items
<1>5. CASE UNCHANGED wire \/ wire' = <<>>
  <2>1. <<>> \in Seq(Items)
    OBVIOUS
  <2> QED
    BY <1>1, <1>5, <2>1
<1>6. CASE wire # <<>> /\ wire' = Tail(wire)
  BY <1>1, <1>6
<1>7. CASE SendSnapshot
  <2>1. AllRows \in [Aggregates -> Nat]
    BY <1>3 DEF AllRows
  <2>2. [kind |-> "snapshot", sequence |-> Len(log), rows |-> AllRows] \in Items
    BY <1>1, <2>1 DEF Items
  <2> QED
    BY <1>2, <1>7, <2>2 DEF SendSnapshot
<1>8. CASE EmitItem \/ DropItem
  <2>1. PICK i \in batch :
            wire' = Append(wire, ItemFor(i)) \/ wire' = Append(wire, [kind |-> "lost", sequence |-> i])
    BY <1>8 DEF EmitItem, DropItem, Leave
  <2>2. i \in Nat /\ log[i].aggregate \in Aggregates
    BY Basics
  <2>3. ItemFor(i) \in Items
    <3>1. (IF log[i].kind = "hide" THEN Absent ELSE Row(log[i].aggregate)) \in Nat
      BY <1>3, <2>2 DEF Absent
    <3> QED
      BY <2>2, <3>1 DEF ItemFor, Items
  <2>4. [kind |-> "lost", sequence |-> i] \in Items
    BY <2>2 DEF Items
  <2> QED
    BY <1>2, <2>1, <2>3, <2>4
<1>9. CASE EmitMarker \/ FailStream
  BY <1>2, <1>4, <1>9 DEF EmitMarker, FailStream
<1>10. \/ UNCHANGED wire \/ wire' = <<>> \/ (wire # <<>> /\ wire' = Tail(wire))
       \/ SendSnapshot \/ EmitItem \/ DropItem \/ EmitMarker \/ FailStream
  BY DEF Next, EngineStep, ServerStep, ClientStep, vars, subscription, Attach, StartReplay,
         ReplayChunk, FinishReplay, OfferMarker, LiveChunk,
         RetryAfterError, LoadSnapshot, LoadFails, ApplySnapshot,
         ApplyRow, ApplySynchronized, ApplyError, PassLostItem, NextItem, Connect, ReplaceSession,
         Resubscribe, Disconnect, Persist, RestartClient, RestartServer, NoSubscription, Commit,
         SwapLatest, Publish
<1> QED
  BY <1>5, <1>6, <1>7, <1>8, <1>9, <1>10

LEMMA StreamTypes ==
    ASSUME TypeOK, Stages, ItemsTrue, ReplayCovers, [Next]_vars
    PROVE  StreamTyped'
<1>1. /\ Grows /\ feed' >= feed /\ feed \in Nat /\ feed' \in Nat /\ latest \in Nat /\ latest' \in Nat
      /\ feed <= latest
  BY EngineTypes, Basics DEF Grows
<1>2. StreamTyped /\ wire' \in Seq(Items)
  BY TypedParts, WireTypes
<1>3. \A S : S \subseteq 1..latest => S \subseteq 1..latest'
  BY <1>1 DEF Grows
<1>4. \A S : S \subseteq 1..feed => S \subseteq 1..feed'
  BY <1>1
<1>5. \A k \in 0..feed : k \in 0..feed'
  BY <1>1
<1>6. NoReplay \in [next: Nat \ {0}, last: Nat]
  BY DEF NoReplay
<1>7. CASE UNCHANGED <<serverStage, replay, liveBuffer, batch, markerDue, markerAt>>
  BY <1>2, <1>3, <1>4, <1>5, <1>7 DEF StreamTyped
<1>8. CASE NoSubscription /\ UNCHANGED markerAt
  BY <1>2, <1>5, <1>6, <1>8 DEF StreamTyped, NoSubscription
<1>9. CASE Publish
  <2>1. liveBuffer' \subseteq 1..feed'
    BY <1>1, <1>2, <1>9 DEF Publish, StreamTyped
  <2> QED
    BY <1>2, <1>3, <1>5, <1>9, <2>1 DEF Publish, StreamTyped
<1>10. CASE Attach \/ SendSnapshot \/ FinishReplay
  BY <1>2, <1>3, <1>4, <1>5, <1>10 DEF Attach, SendSnapshot, FinishReplay, StreamTyped
<1>11. CASE StartReplay
  <2>1. request \in Nat
    BY <1>11, Basics DEF StartReplay, CanReplay, Stages, NoSnapshot
  <2>2. replay' \in [next: Nat \ {0}, last: Nat]
    BY <1>1, <1>11, <2>1 DEF StartReplay
  <2> QED
    BY <1>2, <1>3, <1>4, <1>5, <1>11, <2>2 DEF StartReplay, StreamTyped
<1>12. CASE ReplayChunk
  <2>1. PICK last \in replay.next..replay.last :
            /\ batch' = Coalesce(replay.next..last)
            /\ replay' = [replay EXCEPT !.next = last + 1]
    BY <1>12 DEF ReplayChunk
  <2>2. replay.next \in Nat \ {0} /\ replay.last \in Nat /\ last \in Nat
    BY <1>2 DEF StreamTyped
  <2>3. replay' \in [next: Nat \ {0}, last: Nat]
    BY <1>2, <2>1, <2>2 DEF StreamTyped
  <2>4. batch' \subseteq 1..latest
    <3>1. replay.last <= latest
      BY <1>12 DEF ReplayChunk, ReplayCovers
    <3> QED
      BY <1>1, <2>1, <2>2, <3>1 DEF Coalesce
  <2> QED
    BY <1>2, <1>3, <1>4, <1>5, <1>12, <2>3, <2>4 DEF ReplayChunk, StreamTyped
<1>13. CASE OfferMarker \/ LiveChunk
  <2>1. batch' \subseteq 1..feed /\ liveBuffer' \subseteq 1..feed
    BY <1>2, <1>13 DEF OfferMarker, LiveChunk, Coalesce, StreamTyped
  <2>2. batch' \subseteq 1..latest
    BY <1>1, <2>1
  <2> QED
    <3>1. CASE OfferMarker
      <4>1. markerAt' \in 0..feed'
        BY <1>1, <1>13, <3>1 DEF OfferMarker, engine
      <4> QED
        BY <1>2, <1>3, <1>4, <3>1, <4>1, <2>1, <2>2 DEF OfferMarker, StreamTyped
    <3>2. CASE LiveChunk
      BY <1>2, <1>3, <1>4, <1>5, <3>2, <2>1, <2>2 DEF LiveChunk, StreamTyped
    <3> QED
      BY <1>13, <3>1, <3>2
<1>14. CASE EmitItem \/ DropItem
  <2>1. batch' \subseteq batch /\ UNCHANGED <<serverStage, replay, liveBuffer, markerDue, markerAt>>
    BY <1>14 DEF EmitItem, DropItem, Leave
  <2> QED
    BY <1>2, <1>3, <1>4, <1>5, <2>1 DEF StreamTyped
<1>15. CASE EmitMarker
  BY <1>2, <1>3, <1>4, <1>5, <1>15 DEF EmitMarker, StreamTyped
<1>16. CASE FailStream
  BY <1>2, <1>3, <1>4, <1>5, <1>6, <1>16 DEF FailStream, StreamTyped
<1>17. \/ UNCHANGED <<serverStage, replay, liveBuffer, batch, markerDue, markerAt>>
       \/ NoSubscription /\ UNCHANGED markerAt
       \/ Publish \/ Attach \/ SendSnapshot \/ FinishReplay \/ StartReplay \/ ReplayChunk
       \/ OfferMarker \/ LiveChunk \/ EmitItem \/ DropItem \/ EmitMarker \/ FailStream
  BY DEF Next, EngineStep, ServerStep, ClientStep, vars, subscription,
         RetryAfterError, LoadSnapshot, LoadFails, ApplySnapshot,
         ApplyRow, ApplySynchronized, ApplyError, PassLostItem, NextItem, Connect, ReplaceSession,
         Resubscribe, Disconnect, Persist, RestartClient, RestartServer, Commit, SwapLatest
<1> QED
  BY <1>7, <1>8, <1>9, <1>10, <1>11, <1>12, <1>13, <1>14, <1>15, <1>16, <1>17

\* Sending, and applying, what is not a marker or an error.
LEMMA Sent ==
    ASSUME TypeOK, NEW item, wire' = Append(wire, item)
    PROVE  /\ wire' # <<>> /\ DOMAIN wire' = 1..(Len(wire) + 1) /\ DOMAIN wire = 1..Len(wire)
           /\ Len(wire') = Len(wire) + 1 /\ Len(wire) \in Nat
           /\ \A p \in DOMAIN wire' : \/ p \in DOMAIN wire /\ wire'[p] = wire[p]
                                      \/ p = Len(wire) + 1 /\ wire'[p] = item
BY Basics

StageVars == <<connected, clientStage, serverStage, wire, awaiting, request, batch, markerDue,
               status, cursor>>

LEMMA StagesEngine ==
    ASSUME Stages, OneMarker, UNCHANGED StageVars
    PROVE  Stages' /\ OneMarker'
BY DEF Stages, OneMarker, StageVars

\* The stream goes on without sending.
LEMMA StagesSilent ==
    ASSUME IInv, Attach \/ StartReplay \/ ReplayChunk \/ FinishReplay \/ OfferMarker \/ LiveChunk
    PROVE  Stages' /\ OneMarker'
<1>1. CASE Attach
  <2>1. /\ wire = <<>> /\ awaiting /\ connected /\ batch = {} /\ ~markerDue /\ request \in {NoSnapshot, cursor}
        /\ status # "live"
    BY <1>1 DEF Attach, IInv, Stages
  <2>2. DOMAIN wire = {}
    BY <2>1
  <2> QED
    BY <1>1, <2>1, <2>2 DEF Attach, shell, Stages, OneMarker
<1>2. CASE StartReplay
  BY <1>2 DEF StartReplay, shell, IInv, Stages, OneMarker
<1>3. CASE ReplayChunk
  BY <1>3 DEF ReplayChunk, shell, IInv, Stages, OneMarker
<1>4. CASE FinishReplay
  BY <1>4 DEF FinishReplay, Idle, shell, IInv, Stages, OneMarker
<1>5. CASE OfferMarker
  BY <1>5 DEF OfferMarker, shell, IInv, Stages, OneMarker
<1>6. CASE LiveChunk
  BY <1>6 DEF LiveChunk, Idle, shell, IInv, Stages, OneMarker
<1> QED
  BY <1>1, <1>2, <1>3, <1>4, <1>5, <1>6

\* The stream sends an item.
LEMMA StagesSent ==
    ASSUME IInv, SendSnapshot \/ EmitMarker \/ FailStream \/ EmitItem \/ DropItem
    PROVE  Stages' /\ OneMarker'
<1>0. /\ UNCHANGED <<connected, clientStage, awaiting, status, cursor>> /\ serverStage # "none"
      /\ request' \in {request, NoSnapshot}
  <2>1. batch # {} \/ markerDue => serverStage # "none"
    BY DEF IInv, Stages
  <2> QED
    BY <2>1 DEF SendSnapshot, EmitMarker, FailStream, EmitItem, DropItem, Leave, shell
<1>1. /\ clientStage = "streaming" /\ connected
      /\ \A p \in DOMAIN wire : wire[p].kind # "error"
      /\ awaiting => status # "live"
      /\ serverStage \in {"attached", "replaying", "replayed"} \/ markerDue =>
            awaiting /\ \A p \in DOMAIN wire : wire[p].kind # "synchronized"
      /\ \A p, q \in DOMAIN wire : wire[p].kind = "synchronized" =>
            awaiting /\ (wire[q].kind = "synchronized" => p = q)
  BY <1>0 DEF IInv, Stages, OneMarker
<1>2. CASE SendSnapshot
  <2> DEFINE item == [kind |-> "snapshot", sequence |-> Len(log), rows |-> AllRows]
  <2>1. wire' = Append(wire, item) /\ item.kind = "snapshot" /\ UNCHANGED <<batch, markerDue>>
        /\ serverStage = "attached" /\ serverStage' = "replayed"
    BY <1>2 DEF SendSnapshot
  <2> HIDE DEF item
  <2>2. /\ wire' # <<>> /\ \A p \in DOMAIN wire' : wire'[p].kind \notin {"error", "synchronized"}
    BY <1>1, <2>1, Sent DEF IInv
  <2>3. batch = {} /\ ~markerDue
    BY <2>1 DEF IInv, Stages
  <2> QED
    BY <1>0, <1>1, <2>1, <2>2, <2>3 DEF Stages, OneMarker
<1>3. CASE EmitMarker
  <2> DEFINE item == [kind |-> "synchronized"]
  <2>1. wire' = Append(wire, item) /\ item.kind = "synchronized" /\ markerDue /\ ~markerDue'
        /\ UNCHANGED <<serverStage, batch>>
    BY <1>3 DEF EmitMarker
  <2>2. serverStage = "live"
    BY <2>1 DEF IInv, Stages
  <2> HIDE DEF item
  <2>3. /\ wire' # <<>> /\ \A p \in DOMAIN wire' : wire'[p].kind # "error"
        /\ \A p \in DOMAIN wire' : wire'[p].kind = "synchronized" => p = Len(wire) + 1
    BY <1>1, <2>1, Sent DEF IInv
  <2> QED
    BY <1>0, <1>1, <2>1, <2>2, <2>3 DEF Stages, OneMarker
<1>4. CASE FailStream
  <2> DEFINE item == [kind |-> "error"]
  <2>1. wire' = Append(wire, item) /\ item.kind = "error" /\ ~markerDue'
        /\ serverStage' = "none" /\ batch' = {}
    BY <1>4 DEF FailStream
  <2> HIDE DEF item
  <2>3. /\ wire' # <<>> /\ \A p \in DOMAIN wire' : wire'[p].kind = "error" => p = Len(wire')
        /\ \A p \in DOMAIN wire' : wire'[p].kind = "synchronized" =>
                p \in DOMAIN wire /\ wire[p].kind = "synchronized"
    BY <1>1, <2>1, Sent DEF IInv
  <2>4. OneMarker'
    BY <1>0, <1>1, <2>1, <2>3 DEF OneMarker
  <2>5. status = "live" => clientStage = "streaming"
    BY <1>1
  <2> QED
    BY <1>0, <1>1, <2>1, <2>3, <2>4, <2>5 DEF Stages
<1>5. CASE EmitItem \/ DropItem
  <2>1. PICK i \in batch :
            \/ Leave(i, ItemFor(i))
            \/ Leave(i, [kind |-> "lost", sequence |-> i])
    BY <1>5 DEF EmitItem, DropItem
  <2>2. PICK item : /\ Leave(i, item) /\ item.kind \notin {"error", "synchronized"}
    BY <2>1 DEF ItemFor
  <2>3. wire' = Append(wire, item) /\ UNCHANGED <<serverStage, markerDue, request>> /\ batch' \subseteq batch
        /\ batch # {}
    BY <2>2 DEF Leave
  <2>4. /\ wire' # <<>>
        /\ \A p \in DOMAIN wire' : wire'[p].kind # "error"
        /\ \A p \in DOMAIN wire' : wire'[p].kind = "synchronized" =>
                p \in DOMAIN wire /\ wire[p].kind = "synchronized"
    BY <1>1, <2>2, <2>3, Sent DEF IInv
  <2>5. OneMarker'
    BY <1>0, <1>1, <2>3, <2>4 DEF OneMarker
  <2>6. serverStage \notin {"none", "attached", "replayed"} /\ (markerDue => serverStage = "live")
    BY <2>3 DEF IInv, Stages
  <2> QED
    BY <1>0, <1>1, <2>3, <2>4, <2>5, <2>6 DEF Stages
<1> QED
  BY <1>2, <1>3, <1>4, <1>5

\* The client applies an item.
LEMMA StagesApplied ==
    ASSUME IInv,
           ApplySnapshot \/ ApplyRow \/ ApplySynchronized \/ ApplyError \/ PassLostItem
    PROVE  Stages' /\ OneMarker'
<1>1. /\ Applies /\ UNCHANGED <<serverStage, batch, markerDue, connected, request>>
      /\ clientStage = "streaming" /\ connected
  <2>1. wire # <<>> /\ UNCHANGED <<connected, request>>
    BY DEF ApplySnapshot, ApplyRow, ApplySynchronized, ApplyError, PassLostItem, NextItem
  <2> QED
    BY <2>1, ClientKeepsItem DEF IInv, Stages
<1>2. /\ DOMAIN wire' = 1..(Len(wire) - 1) /\ Len(wire) \in Nat \ {0} /\ Len(wire') = Len(wire) - 1
      /\ \A p \in DOMAIN wire' : wire'[p] = wire[p + 1] /\ p + 1 \in DOMAIN wire
      /\ 1 \in DOMAIN wire /\ wire[1] = Head(wire)
  BY <1>1, TailFacts DEF IInv
<1>3. /\ serverStage # "none" => \A p \in DOMAIN wire' : wire'[p].kind # "error"
      /\ \A p \in DOMAIN wire' : wire'[p].kind = "error" => p = Len(wire')
      /\ serverStage # "attached"
      /\ serverStage \in {"none", "attached", "replayed"} => batch = {}
      /\ markerDue => serverStage = "live"
      /\ awaiting => status # "live"
  <2>1. \A p \in DOMAIN wire' : wire'[p].kind = "error" => p = Len(wire')
    <3> TAKE p \in DOMAIN wire'
    <3> HAVE wire'[p].kind = "error"
    <3>1. wire[p + 1].kind = "error" => p + 1 = Len(wire)
      BY <1>2 DEF IInv, Stages
    <3> QED
      BY <1>2, <3>1
  <2> QED
    BY <1>2, <2>1 DEF IInv, Stages
<1>4. /\ serverStage \in {"attached", "replaying", "replayed"} \/ markerDue =>
            awaiting /\ \A p \in DOMAIN wire' : wire'[p].kind # "synchronized"
      /\ serverStage \in {"attached", "replaying", "replayed"} \/ markerDue =>
            wire[1].kind # "synchronized"
      /\ \A p, q \in DOMAIN wire' : wire'[p].kind = "synchronized" =>
            /\ awaiting /\ wire[1].kind # "synchronized"
            /\ wire'[q].kind = "synchronized" => p = q
  <2>1. \A p, q \in DOMAIN wire' : wire'[p].kind = "synchronized" =>
            /\ awaiting
            /\ wire'[q].kind = "synchronized" => p = q
    <3> TAKE p, q \in DOMAIN wire'
    <3> HAVE wire'[p].kind = "synchronized"
    <3>1. awaiting /\ (wire[q + 1].kind = "synchronized" => p + 1 = q + 1)
      BY <1>2 DEF IInv, OneMarker
    <3> QED
      BY <1>2, <3>1
  <2>2. \A p \in DOMAIN wire' : wire'[p].kind = "synchronized" => wire[1].kind # "synchronized"
    <3> TAKE p \in DOMAIN wire'
    <3> HAVE wire'[p].kind = "synchronized"
    <3>1. wire[1].kind = "synchronized" => p + 1 = 1
      BY <1>2 DEF IInv, OneMarker
    <3> QED
      BY <1>2, <3>1
  <2> QED
    BY <1>2, <2>1, <2>2 DEF IInv, OneMarker
<1>5. CASE ApplySnapshot \/ ApplyRow \/ PassLostItem
  <2>1. /\ UNCHANGED <<clientStage, awaiting>>
        /\ \/ status' = IF awaiting THEN "synchronizing" ELSE "live"
           \/ status' = status
    BY <1>5 DEF ApplySnapshot, TakeSnapshot, ApplyRow, PassLostItem
  <2> QED
    BY <1>1, <1>3, <1>4, <2>1 DEF Stages, OneMarker
<1>6. CASE ApplySynchronized
  <2>1. UNCHANGED clientStage /\ ~awaiting' /\ wire[1].kind = "synchronized"
    BY <1>2, <1>6 DEF ApplySynchronized, NextItem
  <2> QED
    BY <1>1, <1>3, <1>4, <2>1 DEF Stages, OneMarker
<1>7. CASE ApplyError
  <2>1. clientStage' = "retrying" /\ ~awaiting' /\ wire[1].kind = "error" /\ status' = StatusOffline
    BY <1>2, <1>7 DEF ApplyError, NextItem
  <2>2. serverStage = "none" /\ Len(wire) = 1 /\ ~markerDue
    BY <1>2, <1>3, <2>1 DEF IInv, Stages
  <2>3. wire' = <<>> /\ DOMAIN wire' = {}
    BY <1>1, <1>2, <2>2 DEF Applies
  <2> QED
    BY <1>1, <1>3, <1>4, <2>1, <2>2, <2>3 DEF Stages, OneMarker, StatusOffline
<1> QED
  BY <1>5, <1>6, <1>7

\* There is no subscription afterwards, or a new one is prepared.
LEMMA StagesRest ==
    ASSUME IInv, Resting \/ LoadFails
    PROVE  Stages' /\ OneMarker'
<1>1. /\ wire' = <<>> /\ DOMAIN wire' = {} /\ serverStage' = "none" /\ batch' = {} /\ ~markerDue'
  <2>2. CASE Connect \/ LoadSnapshot \/ LoadFails
    <3>1. wire = <<>> /\ serverStage = "none" /\ batch = {} /\ ~markerDue
      BY <2>2 DEF Connect, LoadSnapshot, LoadFails, IInv, Stages
    <3> QED
      BY <2>2, <3>1 DEF Connect, LoadSnapshot, LoadFails
  <2>3. CASE ~(Connect \/ LoadSnapshot \/ LoadFails)
    <3>1. NoSubscription
      BY <2>3 DEF Resting, ReplaceSession, Resubscribe, RetryAfterError, Disconnect, RestartClient,
                  RestartServer
    <3> QED
      BY <3>1 DEF NoSubscription
  <2> QED
    BY <2>2, <2>3
<1>2. OneMarker'
  BY <1>1 DEF OneMarker
<1>3. \/ /\ clientStage' \in {"loading", "subscribing"} /\ connected' /\ awaiting'
         /\ status' # "live" /\ request' \in {NoSnapshot, cursor'}
      \/ clientStage' = "idle" /\ ~awaiting' /\ status' # "live"
  <2>1. CASE Connect \/ ReplaceSession \/ Resubscribe \/ RetryAfterError
    <3>1. /\ \E s : MakeSubscribeInput(s)
          /\ UNCHANGED cursor
          /\ connected' = TRUE
      <4>1. CASE Connect
        BY <4>1 DEF Connect
      <4>2. CASE ReplaceSession
        BY <4>2 DEF ReplaceSession, IInv, TypeOK
      <4>3. CASE Resubscribe
        BY <4>3 DEF Resubscribe, IInv, TypeOK
      <4>4. CASE RetryAfterError
        BY <4>4 DEF RetryAfterError, IInv, TypeOK, Stages
      <4> QED
        BY <2>1, <4>1, <4>2, <4>3, <4>4
    <3> QED
      BY <3>1 DEF MakeSubscribeInput
  <2>2. CASE LoadSnapshot \/ LoadFails
    <3>1. clientStage = "loading" /\ awaiting /\ connected /\ status # "live"
      BY <2>2 DEF LoadSnapshot, LoadFails, IInv, Stages
    <3> QED
      BY <2>2, <3>1 DEF LoadSnapshot, TakeSnapshot, LoadFails, shell
  <2>3. CASE Disconnect \/ RestartClient \/ RestartServer
    BY <2>3 DEF Disconnect, RestartClient, RestartServer, StatusOffline
  <2> QED
    BY <2>1, <2>2, <2>3 DEF Resting
<1>4. Stages'
  BY <1>1, <1>3 DEF Stages
<1> QED
  BY <1>2, <1>4

-----------------------------------------------------------------------------
(* The theorems.                                                            *)

LEMMA Initially ==
    ASSUME Init
    PROVE  IInv
<1>1. /\ log = <<>> /\ latest = 0 /\ feed = 0 /\ cursor = -1 /\ rows = NoRows /\ wire = <<>>
      /\ serverStage = "none" /\ batch = {} /\ markerDue = FALSE /\ liveBuffer = {}
      /\ cache = [cursor |-> -1, rows |-> NoRows, stranded |-> {}] /\ stranded = {}
      /\ clientStage = "idle" /\ status = "synchronizing" /\ awaiting = FALSE /\ request = -1
      /\ session = 0 /\ connected = FALSE /\ authoritative = 0 /\ replay = [next |-> 1, last |-> 0]
      /\ markerAt = 0
  BY DEF Init, NoSnapshot, NoReplay
<1>2. Len(log) = 0 /\ DOMAIN wire = {} /\ NoRows \in [Aggregates -> Nat]
  BY <1>1 DEF NoRows, Absent
<1>3. TypeOK
  <2>1. EngineTyped
    BY <1>1, <1>2 DEF EngineTyped
  <2>2. SessionTyped
    <3>1. -1 \in (-1)..0
      OBVIOUS
    <3> QED
      BY <1>1, <1>2, <3>1 DEF SessionTyped, NoSnapshot
  <2>3. SnapshotTyped
    BY <1>1, <1>2 DEF SnapshotTyped, NoSnapshot
  <2>4. StreamTyped
    <3>1. wire \in Seq(Items)
      BY <1>1
    <3>2. replay \in [next: Nat \ {0}, last: Nat] /\ markerAt \in 0..feed
      BY <1>1
    <3> QED
      BY <1>1, <3>1, <3>2 DEF StreamTyped
  <2> QED
    BY <2>1, <2>2, <2>3, <2>4, TypedParts
<1>4. Stages /\ OneMarker
  BY <1>1, <1>2 DEF Stages, OneMarker
<1>5. RowsTrue
  <2>1. \A a : RowIn(log, a, 0) = 0
    <3> TAKE a
    <3>1. RowIn(log, a, 0) \in 0..0
      BY RowFacts
    <3> QED
      BY <3>1
  <2>2. \A a \in Aggregates : NoRows[a] = 0
    BY DEF NoRows, Absent
  <2> QED
    BY <1>1, <1>2, <2>1, <2>2 DEF RowsTrue, Shows, RowAt
<1>6. ItemsTrue /\ RowsForward /\ WireCovers
  BY <1>2 DEF ItemsTrue, RowsForward, WireCovers
<1>7. ClientKeeps
  BY <1>1 DEF ClientKeeps, Keeps
<1>8. ReplayCovers /\ LiveCovers /\ MarkerKept
  BY <1>1 DEF ReplayCovers, LiveCovers, MarkerKept
<1> QED
  BY <1>3, <1>4, <1>5, <1>6, <1>7, <1>8 DEF IInv

LEMMA Inductive ==
    ASSUME IInv, [Next]_vars
    PROVE  IInv'
<1>1. Truths' /\ Covers'
  BY NextKeeps
<1>2. TypeOK'
  BY EngineTypes, SessionTypes, SnapshotTypes, StreamTypes, TypedParts DEF IInv
<1>3. Stages' /\ OneMarker'
  <2>1. CASE UNCHANGED StageVars
    BY <2>1, StagesEngine DEF IInv
  <2>2. \/ UNCHANGED StageVars
        \/ Attach \/ StartReplay \/ ReplayChunk \/ FinishReplay \/ OfferMarker \/ LiveChunk
        \/ SendSnapshot \/ EmitMarker \/ FailStream \/ EmitItem \/ DropItem
        \/ ApplySnapshot \/ ApplyRow \/ ApplySynchronized \/ ApplyError \/ PassLostItem
        \/ Resting \/ LoadFails
    BY DEF Next, EngineStep, ServerStep, ClientStep, Resting, StageVars, vars, Commit, SwapLatest,
           Publish, Persist, shell, subscription
  <2> QED
    BY <2>1, <2>2, StagesSilent, StagesSent, StagesApplied, StagesRest
<1> QED
  BY <1>1, <1>2, <1>3 DEF IInv, Truths, Covers

\* What is behind an item, a marker or the cursor is always accounted for.
THEOREM ShellInvariant == Spec => []IInv
<1>1. Init => IInv
  BY Initially
<1>2. IInv /\ [Next]_vars => IInv'
  BY Inductive
<1> QED
  BY <1>1, <1>2, PTL DEF Spec

\* Every variable keeps its type, for any number of aggregates, events, sessions and
\* disturbances.
THEOREM TypesHold == Spec => []TypeOK
<1>1. IInv => TypeOK
  BY DEF IInv
<1> QED
  BY <1>1, ShellInvariant, PTL

\* A row of which no event after the k-th is lost reflects the k-th event or later ones.
LEMMA RowReflects ==
    ASSUME IInv, NEW k \in 0..Len(log), NEW a \in Aggregates,
           \A n \in 1..k : log[n].aggregate = a => Shows(rows[a], a, n)
    PROVE  Reflects(a, k)
<1> DEFINE S == EventsOn(log, a, k)
<1>1. Len(log) \in Nat /\ k \in Nat /\ S \in SUBSET (1..k)
  BY Basics DEF IInv, EventsOn
<1>2. CASE S = {}
  <2>1. PICK m \in 0..Len(log) : rows[a] = RowIn(log, a, m)
    BY DEF IInv, RowsTrue, Shows, RowAt
  <2>2. CASE m >= k
    BY <1>1, <2>1, <2>2 DEF Reflects, RowAt
  <2>3. CASE m < k
    <3>1. \A i \in (m + 1)..k : log[i].aggregate # a
      BY <1>1, <1>2, <2>1 DEF EventsOn
    <3>2. m \in Nat /\ m <= k
      BY <1>1, <2>3
    <3>3. RowIn(log, a, m) = RowIn(log, a, k)
      BY <1>1, <3>1, <3>2, RowStays
    <3> QED
      BY <1>1, <2>1, <3>3 DEF Reflects, RowAt
  <2> QED
    BY <1>1, <2>2, <2>3
<1>3. CASE S # {}
  <2>1. Latest(S) \in S /\ \A j \in S : j <= Latest(S)
    <3> HIDE DEF S
    <3> QED
      BY <1>1, <1>3, LatestOf
  <2>2. PICK n \in S : \A j \in S : j <= n
    BY <2>1
  <2>3. n \in 1..k /\ log[n].aggregate = a
    BY <2>2 DEF EventsOn
  <2>4. PICK m \in n..Len(log) : rows[a] = RowIn(log, a, m)
    BY <2>3 DEF Shows, RowAt
  <2>5. CASE m >= k
    BY <1>1, <2>4, <2>5 DEF Reflects, RowAt
  <2>6. CASE m < k
    <3>1. \A i \in (m + 1)..k : log[i].aggregate # a
      <4> SUFFICES ASSUME NEW i \in (m + 1)..k, log[i].aggregate = a PROVE FALSE
        OBVIOUS
      <4>1. i \in S
        BY <1>1, <2>3, <2>4 DEF EventsOn
      <4> QED
        BY <1>1, <2>2, <2>3, <2>4, <4>1
    <3>2. m \in Nat /\ m <= k
      BY <1>1, <2>3, <2>4, <2>6
    <3>3. RowIn(log, a, m) = RowIn(log, a, k)
      BY <1>1, <3>1, <3>2, RowStays
    <3> QED
      BY <1>1, <2>4, <3>3 DEF Reflects, RowAt
  <2> QED
    BY <1>1, <2>3, <2>4, <2>5, <2>6
<1> QED
  BY <1>2, <1>3

\* A client that resumes from its cursor loses nothing: what its rows lack behind the
\* cursor has a later event ahead of it, or is an item whose row read failed twice.
THEOREM ResumingLosesNothing == Spec => []ResumeLosesNothing
<1>1. IInv => ResumeLosesNothing
  <2> SUFFICES ASSUME IInv, cursor # NoSnapshot, NEW a \in Aggregates, a \notin Stranded,
                      ~ \E i \in (cursor + 1)..Len(log) : log[i].aggregate = a
               PROVE  Reflects(a, cursor)
    BY DEF ResumeLosesNothing
  <2>1. /\ cursor \in 0..Len(log) /\ latest \in Nat /\ latest <= Len(log) /\ Len(log) \in Nat
        /\ stranded \subseteq 1..latest
    BY Basics DEF IInv, NoSnapshot
  <2>2. ASSUME NEW n \in 1..cursor, log[n].aggregate = a PROVE Shows(rows[a], a, n)
    <3>1. \/ Shows(rows[a], a, n)
          \/ \E m \in stranded : m >= n /\ SameAggregate(m, n)
          \/ \E m \in (cursor + 1)..latest : SameAggregate(m, n)
      BY <2>2 DEF IInv, ClientKeeps, Keeps
    <3>2. ~ \E m \in stranded : m >= n /\ SameAggregate(m, n)
      BY <2>2 DEF Stranded, SameAggregate
    <3>3. ~ \E m \in (cursor + 1)..latest : SameAggregate(m, n)
      BY <2>1, <2>2 DEF SameAggregate
    <3> QED
      BY <3>1, <3>2, <3>3
  <2> QED
    BY <2>1, <2>2, RowReflects
<1> QED
  BY <1>1, ShellInvariant, PTL

\* "live" is true: the client is connected and reflects every event that had been
\* published when the completion marker was queued.
THEOREM LiveIsSynchronized == Spec => []LiveMeansSynchronized
<1>1. IInv => LiveMeansSynchronized
  <2> SUFFICES ASSUME IInv, status = "live"
               PROVE  connected /\ \A a \in Aggregates \ Stranded : Reflects(a, markerAt)
    BY DEF LiveMeansSynchronized
  <2>1. clientStage = "streaming" /\ ~awaiting /\ connected
    BY DEF IInv, Stages
  <2>2. ASSUME NEW a \in Aggregates, a \notin Stranded PROVE Reflects(a, markerAt)
    <3>1. markerAt \in 0..Len(log)
      BY Basics DEF IInv
    <3>2. ASSUME NEW n \in 1..markerAt, log[n].aggregate = a PROVE Shows(rows[a], a, n)
      <4>1. Shown(n) \/ Lost(n)
        BY <2>1 DEF IInv, MarkerKept
      <4>2. ~Lost(n)
        BY <2>2, <3>2 DEF Lost, Stranded, SameAggregate
      <4> QED
        BY <3>2, <4>1, <4>2 DEF Shown
    <3> QED
      BY <3>1, <3>2, RowReflects
  <2> QED
    BY <2>1, <2>2
<1> QED
  BY <1>1, ShellInvariant, PTL

\* The sidebar's cursor never goes back, other than by starting again from its cache; a
\* row gives way to an older one in no other case, and vanishes by a removal only: a newer
\* one, or an older one whose item comes after the row was read ahead of its event.
THEOREM RemovalsAloneGoBack == Spec => BackwardsOnlyByRemoval
<1>1. IInv /\ [Next]_vars
        => [\/ RestartClient
            \/ /\ cursor' >= cursor
               /\ \A a \in Aggregates :
                    \/ Follows(rows[a], rows'[a], a)
                    \/ rows'[a] = Absent /\ OlderRemoval(a)]_vars
  BY NextKeeps DEF Forward, ForwardRow
<1> QED
  BY <1>1, ShellInvariant, PTL DEF Spec, BackwardsOnlyByRemoval
=============================================================================
