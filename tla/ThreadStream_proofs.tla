------------------------- MODULE ThreadStream_proofs -------------------------
(***************************************************************************)
(* Theorems about ThreadStream and the ThreadEventCoalescer under it, for  *)
(* any number of calls and events and any size of the window and of the    *)
(* budget.  The proofs go up from sequences in ascending order over the    *)
(* coalescer's actions to the steps of the subscription and the client.    *)
(***************************************************************************)
EXTENDS ThreadStream, Functions, FiniteSetTheorems, SequenceTheorems, TLAPS

-----------------------------------------------------------------------------
(* Sequences in ascending order.                                            *)

Below == {pair \in Nat \X Nat : pair[1] < pair[2]}

\* A set of numbers that is not empty has a least member.
LEMMA LeastOf ==
    ASSUME NEW T \in SUBSET Nat, T # {}
    PROVE  \E x \in T : \A y \in T : x <= y
<1>1. IsWellFoundedOn(Below, Nat)
  BY NatLessThanWellFounded, Zenon DEF OpToRel, Below
<1>2. PICK x \in T : \A y \in T : ~(<<y, x>> \in Below)
  BY <1>1, WFMin
<1>3. ASSUME NEW y \in T, y < x
      PROVE  FALSE
  <2>1. <<y, x>> \in Nat \X Nat
    OBVIOUS
  <2>2. <<y, x>> \in Below
    BY <2>1, <1>3 DEF Below
  <2> QED  BY <1>2, <2>2
<1> QED  BY <1>3

IsAscending(s, K) ==
    s \in [1..Cardinality(K) -> K] /\ \A i, j \in DOMAIN s : i < j => s[i] < s[j]

Unordered(k) ==
    \E K \in SUBSET Nat : /\ IsFiniteSet(K) /\ Cardinality(K) = k
                          /\ ~\E s : IsAscending(s, K)

\* The members of a finite set of numbers can be put in ascending order: the least
\* first, and the others behind it.
LEMMA AscendingExists ==
    ASSUME NEW K \in SUBSET Nat, IsFiniteSet(K)
    PROVE  \E s : IsAscending(s, K)
<1> DEFINE T == {k \in Nat : Unordered(k)}
<1> SUFFICES ASSUME T # {} PROVE FALSE
  <2>1. Cardinality(K) \in Nat
    BY FS_CardinalityType
  <2> QED  BY <2>1 DEF Unordered
<1>1. PICK k \in T : \A y \in T : k <= y
  <2> HIDE DEF T
  <2>1. T \in SUBSET Nat
    BY DEF T
  <2> QED  BY <2>1, LeastOf
<1>2. PICK L \in SUBSET Nat : IsFiniteSet(L) /\ Cardinality(L) = k /\ ~\E s : IsAscending(s, L)
  BY DEF Unordered
<1>3. CASE L = {}
  <2>1. Cardinality(L) = 0
    BY <1>3, FS_EmptySet
  <2>2. IsAscending([i \in 1..0 |-> 0], L)
    BY <1>3, <2>1 DEF IsAscending
  <2> QED  BY <1>2, <2>2
<1>4. CASE L # {}
  <2>1. PICK least \in L : \A y \in L : least <= y
    BY <1>2, <1>4, LeastOf
  <2> DEFINE M == L \ {least}
  <2>2. IsFiniteSet(M) /\ Cardinality(M) = k - 1 /\ k - 1 \in Nat
    <3>1. Cardinality(L) # 0
      BY <1>2, <1>4, FS_EmptySet
    <3>2. IsFiniteSet(M) /\ Cardinality(M) = Cardinality(L) - 1
      BY <1>2, <2>1, FS_RemoveElement
    <3> QED  BY <1>2, <3>1, <3>2
  <2>3. PICK s : IsAscending(s, M)
    <3>1. k - 1 \notin T
      BY <1>1, <2>2
    <3>2. ~Unordered(k - 1)
      BY <2>2, <3>1
    <3> QED  BY <2>2, <3>2 DEF Unordered
  <2> DEFINE r == [i \in 1..k |-> IF i = 1 THEN least ELSE s[i - 1]]
  <2>4. k \in Nat /\ M \subseteq Nat /\ DOMAIN s = 1..(k - 1) /\ \A i \in DOMAIN s : s[i] \in M
    BY <1>1, <2>2, <2>3 DEF IsAscending
  <2>5. \A i \in 2..k : i - 1 \in 1..(k - 1) /\ r[i] = s[i - 1]
    BY <2>4
  <2>6. \A i \in 2..k : s[i - 1] \in M
    BY <2>4, <2>5
  <2>7. \A m \in M : m \in L /\ least < m
    BY <2>1
  <2>8. \A i \in 2..k : r[i] \in L /\ least < r[i]
    BY <2>5, <2>6, <2>7
  <2>9. \A i \in 1..k : i = 1 \/ i \in 2..k
    BY <2>4
  <2>10. \A i \in 1..k : i = 1 => r[i] = least
    OBVIOUS
  <2>11. r \in [1..k -> L]
    <3>1. \A i \in 1..k : r[i] \in L
      BY <2>1, <2>8, <2>9, <2>10
    <3>2. r = [i \in 1..k |-> r[i]]
      OBVIOUS
    <3> HIDE DEF r
    <3> QED  BY <3>1, <3>2
  <2> HIDE DEF r, M
  <2>12. ASSUME NEW i \in 1..k, NEW j \in 1..k, i < j
        PROVE  r[i] < r[j]
    <3>1. j \in 2..k
      BY <2>4, <2>12
    <3>2. CASE i = 1
      BY <2>8, <2>10, <3>1, <3>2
    <3>3. CASE i \in 2..k
      <4>1. i - 1 < j - 1 /\ i - 1 \in DOMAIN s /\ j - 1 \in DOMAIN s
        BY <2>4, <2>5, <2>12, <3>1, <3>3
      <4>2. s[i - 1] < s[j - 1]
        BY <2>3, <4>1 DEF IsAscending
      <4> QED  BY <2>5, <3>1, <3>3, <4>2
    <3> QED  BY <2>9, <3>2, <3>3
  <2>13. DOMAIN r = 1..k
    BY <2>11
  <2>14. IsAscending(r, L)
    BY <1>2, <2>11, <2>12, <2>13 DEF IsAscending
  <2> QED  BY <1>2, <2>14
<1> QED  BY <1>3, <1>4

\* Ascending(K) has the members of K, each once and in their order.
LEMMA AscendingOf ==
    ASSUME NEW K \in SUBSET Nat, IsFiniteSet(K)
    PROVE  /\ Ascending(K) \in Seq(K) /\ Elements(Ascending(K)) = K
           /\ \A i, j \in DOMAIN Ascending(K) : i < j => Ascending(K)[i] < Ascending(K)[j]
<1> DEFINE s == Ascending(K)
           n == Cardinality(K)
<1>1. IsAscending(s, K)
  BY AscendingExists DEF Ascending, IsAscending
<1>2. n \in Nat
  BY FS_CardinalityType
<1>3. s \in Seq(K) /\ DOMAIN s = 1..n
  BY <1>1, <1>2 DEF IsAscending
<1>4. s \in Injection(1..n, K)
  <2>1. \A i, j \in 1..n : i < j \/ j < i \/ i = j
    BY <1>2
  <2>2. \A i \in 1..n : s[i] \in Nat
    BY <1>1 DEF IsAscending
  <2>3. \A i, j \in 1..n : i < j => s[i] < s[j]
    BY <1>1, <1>3 DEF IsAscending
  <2>4. \A i, j \in 1..n : s[i] = s[j] => i = j
    BY <2>1, <2>2, <2>3
  <2> QED  BY <1>1, <1>3, <2>4 DEF IsAscending, Injection, IsInjective
<1>5. Cardinality(1..n) = n
  BY <1>2, FS_Interval
<1>6. s \in Surjection(1..n, K)
  BY <1>4, <1>5, FS_Injection
<1>7. \A x \in K : \E i \in 1..n : s[i] = x
  BY <1>6 DEF Surjection
<1> QED  BY <1>1, <1>3, <1>7 DEF IsAscending, Elements

-----------------------------------------------------------------------------
(* The contents of queues.                                                  *)

\* An event behind the others.
LEMMA AppendedElements ==
    ASSUME NEW S, NEW s \in Seq(S), NEW e \in S
    PROVE  /\ Append(s, e) \in Seq(S) /\ Append(s, e) # <<>>
           /\ Elements(Append(s, e)) = Elements(s) \cup {e}
           /\ \A i \in DOMAIN s : i \in DOMAIN Append(s, e) /\ Append(s, e)[i] = s[i]
           /\ \A i \in DOMAIN Append(s, e) : i \in DOMAIN s \/ Append(s, e)[i] = e
<1> DEFINE r == Append(s, e)
<1>1. /\ r \in Seq(S) /\ Len(s) \in Nat /\ DOMAIN s = 1..Len(s) /\ DOMAIN r = 1..(Len(s) + 1)
      /\ r[Len(s) + 1] = e /\ \A i \in 1..Len(s) : r[i] = s[i]
  OBVIOUS
<1>2. r # <<>>
  BY <1>1
<1> HIDE DEF r
<1>3. Elements(r) = Elements(s) \cup {e}
  BY <1>1 DEF Elements
<1>4. /\ \A i \in DOMAIN s : i \in DOMAIN r
      /\ \A i \in DOMAIN r : i \in DOMAIN s \/ i = Len(s) + 1
  BY <1>1
<1> QED  BY <1>1, <1>2, <1>3, <1>4 DEF r

LEMMA AppendedInOrder ==
    ASSUME NEW S, NEW s \in Seq(S), NEW e \in S, InOrder(s), Before(Elements(s), {e})
    PROVE  InOrder(Append(s, e))
<1> DEFINE r == Append(s, e)
<1>1. /\ Len(s) \in Nat /\ DOMAIN s = 1..Len(s) /\ DOMAIN r = 1..(Len(s) + 1)
      /\ r[Len(s) + 1] = e /\ \A i \in 1..Len(s) : r[i] = s[i]
  OBVIOUS
<1> HIDE DEF r
<1>2. \A i \in 1..(Len(s) + 1) : i = Len(s) + 1 \/ i \in 1..Len(s)
  BY <1>1
<1>3. \A i \in 1..Len(s) : s[i] # Marker /\ e # Marker => s[i] < e
  BY <1>1 DEF Before, Elements
<1>4. \A i, j \in 1..(Len(s) + 1) : i < j => i \in 1..Len(s)
  BY <1>1
<1>5. InOrder(r)
  BY <1>1, <1>2, <1>3, <1>4 DEF InOrder
<1> QED  BY <1>5 DEF r

\* One queue behind another.
LEMMA JoinedElements ==
    ASSUME NEW S, NEW s \in Seq(S), NEW t \in Seq(S)
    PROVE  /\ s \o t \in Seq(S) /\ Elements(s \o t) = Elements(s) \cup Elements(t)
           /\ \A i \in DOMAIN s : i \in DOMAIN (s \o t) /\ (s \o t)[i] = s[i]
           /\ \A i \in DOMAIN (s \o t) : i \in DOMAIN s \/ (s \o t)[i] \in Elements(t)
<1> DEFINE r == s \o t
           m == Len(s)
           n == Len(t)
<1>1. /\ r \in Seq(S) /\ m \in Nat /\ n \in Nat
      /\ DOMAIN s = 1..m /\ DOMAIN t = 1..n /\ DOMAIN r = 1..(m + n)
  OBVIOUS
<1>2. /\ \A i \in 1..m : r[i] = s[i]
      /\ \A i \in 1..(m + n) : i > m => r[i] = t[i - m]
  OBVIOUS
<1> HIDE DEF r, m, n
<1>3. \A i \in 1..(m + n) : i \in 1..m \/ (i > m /\ i - m \in 1..n)
  BY <1>1
<1>4. \A j \in 1..n : j + m \in 1..(m + n) /\ j + m > m /\ (j + m) - m = j
  BY <1>1
<1>5. \A i \in 1..m : i \in 1..(m + n)
  BY <1>1
<1>6. Elements(r) = Elements(s) \cup Elements(t)
  <2>1. \A i \in 1..(m + n) : r[i] \in Elements(s) \cup Elements(t)
    BY <1>1, <1>2, <1>3 DEF Elements
  <2>2. \A i \in 1..m : s[i] \in Elements(r)
    BY <1>1, <1>2, <1>5 DEF Elements
  <2>3. \A j \in 1..n : t[j] \in Elements(r)
    <3>1. \A j \in 1..n : r[j + m] = t[j]
      BY <1>2, <1>4
    <3> QED  BY <1>1, <1>4, <3>1 DEF Elements
  <2> QED  BY <1>1, <2>1, <2>2, <2>3 DEF Elements
<1>7. \A i \in 1..(m + n) : i \in 1..m \/ r[i] \in Elements(t)
  BY <1>1, <1>2, <1>3 DEF Elements
<1> QED  BY <1>1, <1>2, <1>5, <1>6, <1>7 DEF r

LEMMA JoinedInOrder ==
    ASSUME NEW S, NEW s \in Seq(S), NEW t \in Seq(S), InOrder(s), InOrder(t),
           Before(Elements(s), Elements(t))
    PROVE  InOrder(s \o t)
<1> DEFINE r == s \o t
           m == Len(s)
           n == Len(t)
<1>1. /\ r \in Seq(S) /\ m \in Nat /\ n \in Nat
      /\ DOMAIN s = 1..m /\ DOMAIN t = 1..n /\ DOMAIN r = 1..(m + n)
  OBVIOUS
<1>2. /\ \A i \in 1..m : r[i] = s[i]
      /\ \A i \in 1..(m + n) : i > m => r[i] = t[i - m]
  OBVIOUS
<1> HIDE DEF r, m, n
<1>3. \A i \in 1..(m + n) : i \in 1..m \/ (i > m /\ i - m \in 1..n)
  BY <1>1
<1>4. InOrder(r)
  <2> SUFFICES ASSUME NEW i \in 1..(m + n), NEW j \in 1..(m + n), i < j, r[i] # Marker, r[j] # Marker
               PROVE  r[i] < r[j]
    BY <1>1 DEF InOrder
  <2>1. CASE j \in 1..m
    <3>1. i \in 1..m
      BY <1>1, <2>1
    <3> QED  BY <1>1, <1>2, <2>1, <3>1 DEF InOrder
  <2>2. CASE i \in 1..m /\ j > m
    <3>1. j - m \in 1..n /\ r[j] = t[j - m] /\ r[i] = s[i]
      BY <1>1, <1>2, <1>3, <2>2
    <3>2. r[i] \in Elements(s) /\ r[j] \in Elements(t)
      BY <1>1, <2>2, <3>1 DEF Elements
    <3> QED  BY <3>2 DEF Before
  <2>3. CASE i > m
    <3>1. j > m /\ i - m < j - m
      BY <1>1, <2>3
    <3>2. i - m \in 1..n /\ j - m \in 1..n /\ r[i] = t[i - m] /\ r[j] = t[j - m]
      BY <1>1, <1>2, <1>3, <2>3, <3>1
    <3> QED  BY <1>1, <3>1, <3>2 DEF InOrder
  <2> QED  BY <1>3, <2>1, <2>2, <2>3
<1> QED  BY <1>4 DEF r

\* A queue without its first event.
LEMMA TailElements ==
    ASSUME NEW S, NEW s \in Seq(S), s # <<>>
    PROVE  /\ Head(s) \in S /\ Tail(s) \in Seq(S)
           /\ Elements(s) = {Head(s)} \cup Elements(Tail(s))
           /\ Head(s) = s[1] /\ 1 \in DOMAIN s
           /\ \A i \in DOMAIN Tail(s) : i + 1 \in DOMAIN s /\ Tail(s)[i] = s[i + 1]
           /\ InOrder(s) => InOrder(Tail(s)) /\ Before({Head(s)}, Elements(Tail(s)))
<1> DEFINE r == Tail(s)
<1>1. /\ r \in Seq(S) /\ Len(s) \in Nat /\ Len(s) >= 1 /\ DOMAIN s = 1..Len(s)
      /\ DOMAIN r = 1..(Len(s) - 1) /\ Head(s) = s[1] /\ s[1] \in S
      /\ \A i \in 1..(Len(s) - 1) : r[i] = s[i + 1]
  OBVIOUS
<1> HIDE DEF r
<1>2. \A i \in 1..(Len(s) - 1) : i + 1 \in 1..Len(s) /\ 1 < i + 1 /\ 1 \in 1..Len(s)
  BY <1>1
<1>3. \A i \in 1..Len(s) : i = 1 \/ (i - 1 \in 1..(Len(s) - 1) /\ (i - 1) + 1 = i)
  BY <1>1
<1>4. \A i \in 1..Len(s) : i = 1 \/ (i - 1 \in DOMAIN r /\ r[i - 1] = s[i])
  BY <1>1, <1>3
<1>5. Elements(s) = {s[1]} \cup Elements(r)
  <2>1. \A i \in 1..Len(s) : s[i] \in {s[1]} \cup Elements(r)
    BY <1>4 DEF Elements
  <2>2. \A i \in DOMAIN r : r[i] \in Elements(s)
    BY <1>1, <1>2 DEF Elements
  <2>3. s[1] \in Elements(s)
    BY <1>1 DEF Elements
  <2> QED  BY <1>1, <2>1, <2>2, <2>3 DEF Elements
<1>6. ASSUME InOrder(s)
      PROVE  InOrder(r) /\ Before({s[1]}, Elements(r))
  <2>1. \A i, j \in 1..(Len(s) - 1) : i < j => i + 1 < j + 1
    BY <1>1
  <2>2. InOrder(r)
    BY <1>1, <1>2, <1>6, <2>1 DEF InOrder
  <2>3. \A i \in 1..(Len(s) - 1) : s[1] # Marker /\ r[i] # Marker => s[1] < r[i]
    BY <1>1, <1>2, <1>6 DEF InOrder
  <2> QED  BY <1>1, <2>2, <2>3 DEF Before, Elements
<1> QED  BY <1>1, <1>2, <1>5, <1>6 DEF r

\* An empty queue.
LEMMA EmptyQueue ==
    /\ \A S : <<>> \in Seq(S)
    /\ Elements(<<>>) = {} /\ InOrder(<<>>)
BY DEF Elements, InOrder

\* The members of a queue are of its type.
LEMMA ElementTypes ==
    \A S : \A s \in Seq(S) : Elements(s) \subseteq S
BY DEF Elements

\* Items are known by their sequences.
LEMMA ItemsOf ==
    /\ \A s, x : x \in Raws(s) <=> \E n \in Elements(s) : x = Raw(n)
    /\ \A s, x : x \in Sents(s) <=> \E n \in Elements(s) : x = Sent(n)
    /\ \A m, n : Raw(m) # Sent(n) /\ (Raw(m) = Raw(n) => m = n) /\ (Sent(m) = Sent(n) => m = n)
BY DEF Raws, Sents, Elements, Raw, Sent

-----------------------------------------------------------------------------
(* Coalescing.                                                              *)

\* Of the updates of a window, coalescing keeps their order and drops only what a
\* later one of them supersedes.
LEMMA UpdatesCoalesced ==
    ASSUME Len(log) \in Nat, NEW s \in Seq(1..Len(log))
    PROVE  /\ Coalesce(s) \in Seq(1..Len(log)) /\ Coalesce(s) \in Seq(0..Len(log))
           /\ Elements(Coalesce(s)) \subseteq Elements(s)
           /\ InOrder(Coalesce(s))
           /\ \A n \in Elements(s) \ Elements(Coalesce(s)) :
                 IsUpdate(n) /\ \E m \in Elements(s) : m > n /\ log[m] = log[n]
<1> DEFINE K == Survivors(s)
           c == Ascending(K)
<1>1. K \subseteq Elements(s) /\ Elements(s) \subseteq 1..Len(log)
  BY ElementTypes DEF Survivors
<1>2. K \in SUBSET Nat /\ \A n \in K : n <= Len(log)
  BY <1>1
<1>3. IsFiniteSet(K)
  BY <1>2, FS_BoundedSetOfNaturals
<1>4. /\ c \in Seq(K) /\ Elements(c) = K
      /\ \A i, j \in DOMAIN c : i < j => c[i] < c[j]
  BY <1>2, <1>3, AscendingOf
<1>5. c \in Seq(1..Len(log)) /\ c \in Seq(0..Len(log))
  <2>1. K \subseteq 1..Len(log) /\ K \subseteq 0..Len(log)
    BY <1>1
  <2> HIDE DEF K, c
  <2> QED  BY <1>4, <2>1, SeqMonotonic
<1>6. InOrder(c)
  BY <1>4 DEF InOrder
<1>7. \A n \in Elements(s) \ K :
          IsUpdate(n) /\ \E m \in Elements(s) : m > n /\ log[m] = log[n]
  BY DEF Survivors
<1> QED  BY <1>1, <1>4, <1>5, <1>6, <1>7 DEF Coalesce

\* What is retained is finite.
LEMMA RetainedFinite ==
    ASSUME NEW n \in Nat, NEW items \in SUBSET ({"raw", "sent"} \X (0..n))
    PROVE  IsFiniteSet(items)
<1>1. IsFiniteSet({"raw"} \cup {"sent"})
  BY FS_Singleton, FS_AddElement
<1>2. {"raw"} \cup {"sent"} = {"raw", "sent"}
  OBVIOUS
<1>3. IsFiniteSet(0..n)
  BY FS_Interval
<1>4. IsFiniteSet({"raw", "sent"} \X (0..n))
  BY <1>1, <1>2, <1>3, FS_Product
<1> QED  BY <1>4, FS_Subset

\* Replacing updates by those that coalescing keeps does not need more room.
LEMMA ReplacementFits ==
    ASSUME NEW n \in Nat, NEW items \in SUBSET ({"raw", "sent"} \X (0..n)), Fits(items),
           NEW s, Raws(s) \subseteq items,
           NEW c, Elements(c) \subseteq Elements(s), Elements(s) \subseteq 0..n
    PROVE  /\ (items \ Raws(s)) \cup Sents(c) \in SUBSET ({"raw", "sent"} \X (0..n))
           /\ Fits((items \ Raws(s)) \cup Sents(c))
<1> DEFINE rest == items \ Raws(s)
           new == rest \cup Sents(c)
           f == [x \in new |-> IF x \in rest THEN x ELSE Raw(x[2])]
<1>1. \A x \in Sents(c) : \E m \in Elements(s) : x = Sent(m) /\ m \in 0..n
  BY ItemsOf
<1>2. new \in SUBSET ({"raw", "sent"} \X (0..n))
  BY <1>1 DEF Sent
<1>3. \A x \in new \ rest : \E m \in Elements(s) : x = Sent(m) /\ f[x] = Raw(m) /\ f[x] \in Raws(s)
  <2> SUFFICES ASSUME NEW x \in new \ rest
               PROVE  \E m \in Elements(s) : x = Sent(m) /\ f[x] = Raw(m) /\ f[x] \in Raws(s)
    OBVIOUS
  <2>1. PICK m \in Elements(s) : x = Sent(m)
    BY <1>1
  <2>2. x[2] = m /\ f[x] = Raw(x[2])
    BY <2>1 DEF Sent
  <2> QED  BY <2>1, <2>2, ItemsOf
<1>4. \A x \in rest : x \in new /\ f[x] = x /\ x \notin Raws(s)
  OBVIOUS
<1>5. f \in [new -> items]
  <2>1. \A x \in new : f[x] \in items
    BY <1>3, <1>4
  <2>2. f = [x \in new |-> f[x]]
    OBVIOUS
  <2> HIDE DEF f, new
  <2> QED  BY <2>1, <2>2
<1> HIDE DEF f, new, rest
<1>6. \A x, y \in new : f[x] = f[y] => x = y
  <2> SUFFICES ASSUME NEW x \in new, NEW y \in new, f[x] = f[y]
               PROVE  x = y
    OBVIOUS
  <2>1. CASE x \in rest /\ y \in rest
    BY <1>4, <2>1
  <2>2. CASE x \in rest /\ y \notin rest
    BY <1>3, <1>4, <2>2
  <2>3. CASE x \notin rest /\ y \in rest
    BY <1>3, <1>4, <2>3
  <2>4. CASE x \notin rest /\ y \notin rest
    BY <1>3, <2>4, ItemsOf
  <2> QED  BY <2>1, <2>2, <2>3, <2>4
<1>7. f \in Injection(new, items)
  BY <1>5, <1>6 DEF Injection, IsInjective
<1>8. IsFiniteSet(items) /\ IsFiniteSet(new)
  BY <1>2, RetainedFinite
<1>9. Cardinality(new) <= Cardinality(items)
  BY <1>7, <1>8, FS_Injection
<1>10. Cardinality(new) \in Nat /\ Cardinality(items) \in Nat
  BY <1>8, FS_CardinalityType
<1> QED  BY <1>2, <1>9, <1>10, CoalescerAssumption DEF Fits, new, rest

\* Nor does releasing anything.
LEMMA ReleaseFits ==
    ASSUME NEW n \in Nat, NEW items \in SUBSET ({"raw", "sent"} \X (0..n)), Fits(items),
           NEW less \in SUBSET items
    PROVE  Fits(less)
<1>1. IsFiniteSet(items)
  BY RetainedFinite
<1>2. IsFiniteSet(less) /\ Cardinality(less) <= Cardinality(items)
  BY <1>1, FS_Subset
<1>3. Cardinality(less) \in Nat /\ Cardinality(items) \in Nat
  BY <1>1, <1>2, FS_CardinalityType
<1> QED  BY <1>2, <1>3, CoalescerAssumption DEF Fits

-----------------------------------------------------------------------------
(* The coalescer's actions.                                                 *)

AllItems == {"raw", "sent"} \X (0..Len(log))

\* What the types say of the contents of the queues.
LEMMA QueueTypes ==
    ASSUME CoalescerTypeOK
    PROVE  /\ Len(log) \in Nat /\ pulled \in 0..Len(log) /\ retained \in SUBSET AllItems
           /\ Elements(batch) \subseteq 1..Len(log) /\ Elements(pending) \subseteq 1..Len(log)
           /\ Elements(output) \subseteq 0..Len(log) /\ Elements(taken) \subseteq 0..Len(log)
           /\ Elements(inFlight) \subseteq 0..Len(log)
BY ElementTypes DEF CoalescerTypeOK, AllItems

\* What flushing makes of the output and of what is charged.
Flushed(u) == output \o Coalesce(u)
Charged(u, items) == (items \ Raws(u)) \cup Sents(Coalesce(u))

\* Flushing sends the survivors of a window in order and makes no more items.
LEMMA FlushKeeps ==
    ASSUME CoalescerTypeOK, InOrder(output),
           NEW u \in Seq(1..Len(log)), Before(Elements(output), Elements(u)),
           NEW items \in SUBSET AllItems, Fits(items), Raws(u) \subseteq items
    PROVE  /\ Flushed(u) \in Seq(0..Len(log)) /\ InOrder(Flushed(u))
           /\ Elements(Flushed(u)) = Elements(output) \cup Elements(Coalesce(u))
           /\ \A i \in DOMAIN output : i \in DOMAIN Flushed(u) /\ Flushed(u)[i] = output[i]
           /\ \A i \in DOMAIN Flushed(u) : i \in DOMAIN output \/ Flushed(u)[i] \in Elements(Coalesce(u))
           /\ Charged(u, items) \in SUBSET AllItems /\ Fits(Charged(u, items))
           /\ Elements(Coalesce(u)) \subseteq Elements(u)
<1> DEFINE c == Coalesce(u)
<1>1. /\ Len(log) \in Nat /\ output \in Seq(0..Len(log))
      /\ Elements(u) \subseteq 1..Len(log)
  BY QueueTypes, ElementTypes DEF CoalescerTypeOK
<1>2. /\ c \in Seq(0..Len(log)) /\ Elements(c) \subseteq Elements(u) /\ InOrder(c)
  BY <1>1, UpdatesCoalesced
<1> HIDE DEF c
<1>3. Before(Elements(output), Elements(c))
  BY <1>2 DEF Before
<1>4. /\ output \o c \in Seq(0..Len(log))
      /\ Elements(output \o c) = Elements(output) \cup Elements(c)
      /\ \A i \in DOMAIN output : i \in DOMAIN (output \o c) /\ (output \o c)[i] = output[i]
      /\ \A i \in DOMAIN (output \o c) : i \in DOMAIN output \/ (output \o c)[i] \in Elements(c)
  BY <1>1, <1>2, JoinedElements
<1>5. InOrder(output \o c)
  BY <1>1, <1>2, <1>3, JoinedInOrder
<1>6. Charged(u, items) \in SUBSET AllItems /\ Fits(Charged(u, items))
  <2>1. Elements(u) \subseteq 0..Len(log)
    BY <1>1
  <2> QED  BY <1>1, <1>2, <2>1, ReplacementFits DEF AllItems, Charged, c
<1> QED  BY <1>2, <1>4, <1>5, <1>6 DEF Flushed, c

\* Before anything is pulled nothing is held.
LEMMA AttachKeeps ==
    ASSUME log \in Seq(Calls \cup {Other}), NEW from \in 0..Len(log),
           Attach(from), log' = log
    PROVE  CoalescerInv'
<1>1. Len(log) \in Nat
  OBVIOUS
<1>2. Fits({})
  BY FS_EmptySet, CoalescerAssumption DEF Fits
<1>3. CoalescerTypeOK'
  BY <1>1, <1>2, EmptyQueue DEF CoalescerTypeOK, Attach
<1>4. Raws(<<>>) = {} /\ Sents(<<>>) = {}
  BY DEF Raws, Sents
<1>5. ChargesHeld'
  BY <1>4 DEF ChargesHeld, Attach
<1>6. HeldInOrder' /\ OneBatch' /\ WindowOpen'
  BY EmptyQueue DEF HeldInOrder, OneBatch, WindowOpen, Attach, Held, Sending, Before
<1> QED  BY <1>3, <1>5, <1>6 DEF CoalescerInv, Attach

\* Pulling takes the events that are not yet pulled.
LEMMA PullKeeps ==
    ASSUME CoalescerInv, PullBatch
    PROVE  /\ CoalescerInv'
           /\ Elements(batch') = (pulled + 1)..Len(log) /\ Elements(batch) = {}
<1>1. /\ batch = <<>> /\ ~failed /\ pulled' = Len(log)
      /\ batch' = [i \in 1..(Len(log) - pulled) |-> pulled + i]
      /\ UNCHANGED <<log, pending, window, output, puller, taken, inFlight, retained, failed,
                     cleaned, closed>>
  BY DEF PullBatch, budgetVars
<1>2. /\ CoalescerTypeOK /\ Len(log) \in Nat /\ pulled \in 0..Len(log)
      /\ Elements(batch) = {} /\ Elements(batch) \subseteq 1..Len(log)
  BY <1>1, QueueTypes, EmptyQueue DEF CoalescerInv
<1>3. /\ batch' \in Seq(1..Len(log)) /\ DOMAIN batch' = 1..(Len(log) - pulled)
      /\ \A i \in 1..(Len(log) - pulled) : batch'[i] = pulled + i
  BY <1>1, <1>2
<1>4. Elements(batch') = (pulled + 1)..Len(log)
  <2>1. \A i \in 1..(Len(log) - pulled) : pulled + i \in (pulled + 1)..Len(log)
    BY <1>2
  <2>2. \A n \in (pulled + 1)..Len(log) : n - pulled \in 1..(Len(log) - pulled) /\ pulled + (n - pulled) = n
    BY <1>2
  <2>3. \A x : x \in Elements(batch') <=> \E i \in 1..(Len(log) - pulled) : x = pulled + i
    BY ONLY <1>3 DEF Elements
  <2> QED  BY ONLY <2>1, <2>2, <2>3
<1>5. InOrder(batch')
  <2>1. \A i, j \in 1..(Len(log) - pulled) : i < j => pulled + i < pulled + j
    BY <1>2
  <2> QED  BY ONLY <1>3, <2>1 DEF InOrder
<1>6. CoalescerTypeOK'
  BY <1>1, <1>2, <1>3 DEF CoalescerTypeOK
<1>7. HeldInOrder'
  <2>1. \A n \in Elements(inFlight) \cup Held : n <= pulled /\ n \in Nat
    BY <1>2, QueueTypes DEF CoalescerInv, HeldInOrder, Held
  <2>2. Before(Sending \cup Elements(output) \cup Elements(pending), Elements(batch'))
    BY <1>2, <1>4, <2>1 DEF Before, Sending, Held
  <2>3. \A n \in Elements(inFlight) \cup Held \cup Elements(batch') : n <= Len(log)
    BY <1>2, <1>4, <2>1
  <2> QED  BY <1>1, <1>5, <2>2, <2>3 DEF CoalescerInv, HeldInOrder, Held, Sending
<1>8. OneBatch' /\ ChargesHeld' /\ WindowOpen'
  BY <1>1 DEF CoalescerInv, OneBatch, ChargesHeld, WindowOpen, Sending
<1> QED  BY <1>1, <1>2, <1>4, <1>6, <1>7, <1>8 DEF CoalescerInv

\* A step neither moves a marker in the output nor changes what goes before it.
MarkersStay ==
    \A i \in DOMAIN output' :
        output'[i] = Marker => i \in DOMAIN output /\ \A j \in 1..i : output'[j] = output[j]

\* It drops nothing but superseded updates, unless the budget fails.
HeldStay ==
    ~failed' => \A n \in Held : n \in Held' \/ SupersededBy(n, pulled)

\* Flushing some updates, of which the last may just have been retained.
LEMMA FlushHolds ==
    ASSUME CoalescerInv, ~failed,
           NEW u \in Seq(1..Len(log)), InOrder(u),
           NEW items \in SUBSET AllItems, Fits(items),
           items = Raws(u) \cup Sents(output) \cup Sents(taken) \cup Sents(inFlight),
           Before(Sending \cup Elements(output), Elements(u)),
           Before(Elements(u), Elements(batch')),
           \A n \in Elements(u) : n <= pulled,
           batch' \in Seq(1..Len(log)), InOrder(batch'), Elements(batch') \subseteq Elements(batch),
           Held \subseteq Elements(taken) \cup Elements(output) \cup Elements(u) \cup Elements(batch'),
           Flush(u, items), UNCHANGED <<log, pulled, puller, taken, inFlight, failed, cleaned, closed>>
    PROVE  CoalescerInv' /\ MarkersStay /\ HeldStay
<1> DEFINE c == Coalesce(u)
<1>1. /\ output' = Flushed(u) /\ retained' = Charged(u, items)
      /\ pending' = <<>> /\ window' = FALSE
  BY DEF Flush, Flushed, Charged
<1>2. /\ CoalescerTypeOK /\ Len(log) \in Nat /\ pulled \in 0..Len(log)
      /\ Elements(batch) \subseteq 1..Len(log) /\ Elements(u) \subseteq 1..Len(log)
      /\ Elements(output) \subseteq 0..Len(log) /\ Elements(taken) \subseteq 0..Len(log)
      /\ Elements(inFlight) \subseteq 0..Len(log)
  BY QueueTypes, ElementTypes DEF CoalescerInv
<1>3. /\ output' \in Seq(0..Len(log)) /\ InOrder(output')
      /\ Elements(output') = Elements(output) \cup Elements(c)
      /\ \A i \in DOMAIN output : i \in DOMAIN output' /\ output'[i] = output[i]
      /\ \A i \in DOMAIN output' : i \in DOMAIN output \/ output'[i] \in Elements(c)
      /\ retained' \in SUBSET AllItems /\ Fits(retained')
      /\ Elements(c) \subseteq Elements(u)
  <2>1. InOrder(output) /\ Before(Elements(output), Elements(u))
    BY DEF CoalescerInv, HeldInOrder, Before
  <2>2. Raws(u) \subseteq items
    OBVIOUS
  <2>3. u \in Seq(1..Len(log)) /\ items \in SUBSET AllItems /\ Fits(items)
    OBVIOUS
  <2> QED  BY <1>1, <1>2, <2>1, <2>2, <2>3, FlushKeeps
<1>4. Marker \notin Elements(u) /\ Marker \notin Elements(batch')
  BY <1>2 DEF Marker
<1>5. \A n \in Elements(u) \ Elements(c) : SupersededBy(n, pulled)
  <2>1. \A n \in Elements(u) \ Elements(c) :
            IsUpdate(n) /\ \E m \in Elements(u) : m > n /\ log[m] = log[n]
    BY <1>2, UpdatesCoalesced
  <2>2. \A n \in Elements(u) : n \in Nat /\ n <= pulled
    BY <1>2
  <2>3. \A n, m \in Elements(u) : m > n => m \in (n + 1)..pulled
    BY <1>2, <2>2
  <2> QED  BY <2>1, <2>3 DEF SupersededBy
<1> HIDE DEF c
<1>6. CoalescerTypeOK'
  <2>1. pending' \in Seq(1..Len(log))
    BY <1>1, EmptyQueue
  <2> QED  BY <1>1, <1>2, <1>3, <2>1 DEF CoalescerTypeOK, AllItems
<1>7. HeldInOrder'
  <2>1. Elements(pending') = {} /\ InOrder(pending')
    BY <1>1, EmptyQueue
  <2>2. Before(Sending, Elements(output'))
    BY <1>3 DEF Before, CoalescerInv, HeldInOrder
  <2>3. Before(Sending \cup Elements(output'), Elements(batch'))
    BY <1>3 DEF Before, CoalescerInv, HeldInOrder
  <2>4. \A n \in Elements(inFlight) \cup Elements(taken) \cup Elements(output') \cup Elements(batch') : n <= pulled
    BY <1>3 DEF CoalescerInv, HeldInOrder, Held
  <2>5. Before(Sending \cup Elements(output'), {})
    BY DEF Before
  <2> QED
    BY <1>3, <2>1, <2>2, <2>3, <2>4, <2>5 DEF CoalescerInv, HeldInOrder, Held, Sending
<1>8. OneBatch'
  <2>1. Marker \in Elements(output') => Marker \in Elements(output)
    BY <1>3, <1>4
  <2> QED  BY <2>1 DEF CoalescerInv, OneBatch, Sending
<1>9. ChargesHeld'
  <2>1. Raws(<<>>) = {}
    BY ItemsOf, EmptyQueue
  <2>2. Sents(output') = Sents(output) \cup Sents(c)
    BY <1>3, ItemsOf
  <2>3. Raws(u) \cap (Sents(output) \cup Sents(taken) \cup Sents(inFlight)) = {}
    BY ItemsOf
  <2>4. retained' = Sents(output') \cup Sents(taken) \cup Sents(inFlight)
    BY <1>1, <2>2, <2>3 DEF Charged, c
  <2> QED  BY <1>1, <2>1, <2>4 DEF CoalescerInv, ChargesHeld
<1>10. MarkersStay
  <2> SUFFICES ASSUME NEW i \in DOMAIN output', output'[i] = Marker
               PROVE  i \in DOMAIN output /\ \A j \in 1..i : output'[j] = output[j]
    BY DEF MarkersStay
  <2>1. i \in DOMAIN output
    BY <1>3, <1>4
  <2>2. \A j \in 1..i : j \in DOMAIN output
    BY <2>1, <1>2 DEF CoalescerTypeOK
  <2> QED  BY <1>3, <2>1, <2>2
<1>11. HeldStay
  <2>1. \A n \in Held : n \in Elements(taken) \cup Elements(output') \cup Elements(batch')
                            \/ n \in Elements(u) \ Elements(c)
    BY <1>3
  <2> QED  BY <1>5, <2>1 DEF HeldStay, Held
<1> QED  BY <1>1, <1>6, <1>7, <1>8, <1>9, <1>10, <1>11 DEF CoalescerInv, WindowOpen

\* Offering an event retains it, sends it with the window, or fails.
LEMMA OfferKeeps ==
    ASSUME CoalescerInv, OfferEvent
    PROVE  CoalescerInv' /\ MarkersStay /\ HeldStay
<1> DEFINE n == Head(batch)
           updates == Append(pending, n)
           items == retained \cup {Raw(n)}
<1>1. /\ CoalescerTypeOK /\ Len(log) \in Nat /\ pulled \in 0..Len(log)
      /\ retained \in SUBSET AllItems
      /\ batch \in Seq(1..Len(log)) /\ pending \in Seq(1..Len(log)) /\ batch # <<>>
      /\ output \in Seq(0..Len(log)) /\ DOMAIN output = 1..Len(output)
      /\ UNCHANGED <<log, pulled, puller, taken, inFlight, cleaned, closed>>
  BY QueueTypes DEF CoalescerInv, CoalescerTypeOK, OfferEvent
<1>2. /\ n \in 1..Len(log) /\ Tail(batch) \in Seq(1..Len(log)) /\ InOrder(Tail(batch))
      /\ Elements(batch) = {n} \cup Elements(Tail(batch))
      /\ Before({n}, Elements(Tail(batch)))
  BY <1>1, TailElements DEF CoalescerInv, HeldInOrder
<1> HIDE DEF n
<1>3. /\ updates \in Seq(1..Len(log)) /\ Elements(updates) = Elements(pending) \cup {n}
      /\ updates # <<>> /\ InOrder(updates)
  <2>1. Before(Elements(pending), {n}) /\ InOrder(pending)
    BY <1>2 DEF CoalescerInv, HeldInOrder, Before
  <2>2. InOrder(updates)
    BY <1>1, <1>2, <2>1, AppendedInOrder
  <2>3. /\ updates \in Seq(1..Len(log)) /\ updates # <<>>
        /\ Elements(updates) = Elements(pending) \cup {n}
    <3>1. pending \in Seq(1..Len(log)) /\ n \in 1..Len(log)
      BY <1>1, <1>2
    <3> QED  BY ONLY <3>1, AppendedElements
  <2> QED  BY <2>2, <2>3
<1>4. items \in SUBSET AllItems
  BY <1>1, <1>2 DEF AllItems, Raw
<1>5. CASE failed \/ ~Fits(items)
  <2>1. failed' = TRUE /\ batch' = <<>> /\ UNCHANGED <<pending, window, output, retained>>
    BY <1>5 DEF OfferEvent, Overflow, n
  <2>2. Elements(batch') = {} /\ InOrder(batch') /\ batch' \in Seq(1..Len(log))
    BY <2>1, EmptyQueue
  <2>3. CoalescerTypeOK'
    BY <1>1, <2>1, <2>2 DEF CoalescerTypeOK
  <2>4. HeldInOrder'
    BY <1>1, <2>1, <2>2 DEF CoalescerInv, HeldInOrder, Held, Sending, Before
  <2>5. OneBatch' /\ ChargesHeld' /\ WindowOpen'
    BY <1>1, <2>1 DEF CoalescerInv, OneBatch, ChargesHeld, WindowOpen, Sending
  <2>6. MarkersStay
    BY <1>1, <2>1 DEF MarkersStay
  <2> QED  BY <1>1, <2>1, <2>3, <2>4, <2>5, <2>6 DEF CoalescerInv, HeldStay
<1>6. CASE ~failed /\ Fits(items) /\ IsUpdate(n) /\ Len(updates) < MaxPending
  <2>1. /\ batch' = Tail(batch) /\ failed' = failed /\ pending' = updates
        /\ retained' = items /\ output' = output /\ window' = (window \/ Len(updates) = 1)
    BY <1>6 DEF OfferEvent, n
  <2>2. window' \in BOOLEAN /\ (pending # <<>> => window' = window)
    <3>1. pending # <<>> => Len(updates) # 1
      BY <1>1, <1>2
    <3>2. window \in BOOLEAN
      BY <1>1 DEF CoalescerTypeOK
    <3>3. window' \in BOOLEAN
      BY ONLY <2>1, Zenon
    <3> QED  BY <2>1, <3>1, <3>2, <3>3
  <2>3. CoalescerTypeOK'
    BY <1>1, <1>2, <1>3, <1>4, <1>6, <2>1, <2>2 DEF CoalescerTypeOK, AllItems
  <2>4. HeldInOrder'
    <3>1. InOrder(pending') /\ InOrder(batch')
      BY <1>2, <1>3, <2>1
    <3>2. Before(Sending \cup Elements(output), Elements(pending'))
      BY <1>2, <1>3, <2>1 DEF CoalescerInv, HeldInOrder, Before
    <3>3. Before(Sending \cup Elements(output) \cup Elements(pending'), Elements(batch'))
      BY <1>2, <1>3, <2>1 DEF CoalescerInv, HeldInOrder, Before
    <3>4. \A m \in Elements(inFlight) \cup Elements(taken) \cup Elements(output)
                    \cup Elements(pending') \cup Elements(batch') : m <= pulled
      BY <1>2, <1>3, <2>1 DEF CoalescerInv, HeldInOrder, Held
    <3> QED
      BY <1>1, <2>1, <3>1, <3>2, <3>3, <3>4 DEF CoalescerInv, HeldInOrder, Held, Sending
  <2>5. ChargesHeld'
    <3>1. Raws(updates) = Raws(pending) \cup {Raw(n)}
      BY <1>3, ItemsOf
    <3> QED  BY <1>1, <1>6, <2>1, <3>1 DEF CoalescerInv, ChargesHeld
  <2>6. WindowOpen'
    <3>1. pending = <<>> => Len(updates) = 1
      BY <1>1, <1>2
    <3> QED  BY <1>6, <2>1, <2>2, <3>1 DEF CoalescerInv, WindowOpen
  <2>7. OneBatch'
    BY <1>1, <2>1 DEF CoalescerInv, OneBatch, Sending
  <2>8. MarkersStay
    BY <1>1, <2>1 DEF MarkersStay
  <2>9. HeldStay
    BY <1>1, <1>2, <1>3, <2>1 DEF HeldStay, Held
  <2> QED  BY <1>1, <1>6, <2>1, <2>3, <2>4, <2>5, <2>6, <2>7, <2>8, <2>9 DEF CoalescerInv
<1>7. CASE ~failed /\ Fits(items) /\ ~(IsUpdate(n) /\ Len(updates) < MaxPending)
  <2>1. /\ batch' = Tail(batch) /\ failed' = failed /\ Flush(updates, items)
    BY <1>7 DEF OfferEvent, n
  <2>2. items = Raws(updates) \cup Sents(output) \cup Sents(taken) \cup Sents(inFlight)
    <3>1. Raws(updates) = Raws(pending) \cup {Raw(n)}
      BY <1>3, ItemsOf
    <3> QED  BY <1>7, <3>1 DEF CoalescerInv, ChargesHeld
  <2>3. /\ Before(Sending \cup Elements(output), Elements(updates))
        /\ Before(Elements(updates), Elements(batch'))
    BY <1>2, <1>3, <2>1 DEF CoalescerInv, HeldInOrder, Before
  <2>4. \A m \in Elements(updates) : m <= pulled
    BY <1>2, <1>3 DEF CoalescerInv, HeldInOrder, Held
  <2>5. /\ batch' \in Seq(1..Len(log)) /\ InOrder(batch')
        /\ Elements(batch') \subseteq Elements(batch)
        /\ Held \subseteq Elements(taken) \cup Elements(output) \cup Elements(updates) \cup Elements(batch')
    BY <1>2, <1>3, <2>1 DEF Held
  <2>6. UNCHANGED <<log, pulled, puller, taken, inFlight, failed, cleaned, closed>>
    BY <1>1, <2>1
  <2> HIDE DEF updates, items
  <2> QED  BY <1>3, <1>4, <1>7, <2>1, <2>2, <2>3, <2>4, <2>5, <2>6, FlushHolds
<1> QED  BY <1>5, <1>6, <1>7

\* What is being sent is not in the output any more.
LEMMA SentOnce ==
    ASSUME CoalescerInv
    PROVE  /\ Sending \cap Elements(output) = {}
           /\ Sents(inFlight) \cap (Raws(pending) \cup Sents(output)) = {}
<1>1. ASSUME NEW n \in Sending, n \in Elements(output)
      PROVE  FALSE
  <2>1. n \in 0..Len(log) /\ Len(log) \in Nat
    BY <1>1, QueueTypes DEF CoalescerInv
  <2>2. n # Marker
    BY <1>1 DEF CoalescerInv, OneBatch
  <2>3. n < n
    BY <1>1, <2>2 DEF CoalescerInv, HeldInOrder, Before
  <2> QED  BY <2>1, <2>3
<1>2. Elements(inFlight) \cap Elements(output) = {}
  BY <1>1 DEF Sending
<1> QED  BY <1>1, <1>2, ItemsOf

\* The end of a window sends what it holds.
LEMMA WindowKeeps ==
    ASSUME CoalescerInv, WindowFires
    PROVE  CoalescerInv' /\ MarkersStay /\ HeldStay
<1>1. /\ batch = <<>> /\ batch' = <<>>
      /\ UNCHANGED <<log, pulled, puller, taken, inFlight, failed, cleaned, closed>>
  BY DEF WindowFires
<1>2. /\ CoalescerTypeOK /\ Len(log) \in Nat /\ pending \in Seq(1..Len(log))
      /\ retained \in SUBSET AllItems /\ Fits(retained) /\ DOMAIN output = 1..Len(output)
  BY QueueTypes DEF CoalescerInv, CoalescerTypeOK
<1>3. CASE failed
  <2>1. window' = FALSE /\ UNCHANGED <<output, retained, pending>>
    BY <1>3 DEF WindowFires
  <2>2. CoalescerTypeOK'
    BY <1>1, <1>2, <2>1 DEF CoalescerTypeOK
  <2>3. HeldInOrder' /\ OneBatch' /\ ChargesHeld' /\ WindowOpen'
    BY <1>1, <1>3, <2>1
       DEF CoalescerInv, HeldInOrder, Held, Sending, OneBatch, ChargesHeld, WindowOpen
  <2> QED
    BY <1>1, <1>2, <1>3, <2>1, <2>2, <2>3 DEF CoalescerInv, MarkersStay, HeldStay
<1>4. CASE ~failed
  <2>1. Flush(pending, retained)
    BY <1>4 DEF WindowFires
  <2>2. /\ Elements(batch) = {} /\ Elements(batch') = {}
        /\ batch' \in Seq(1..Len(log)) /\ InOrder(batch')
    BY <1>1, EmptyQueue
  <2>3. /\ InOrder(pending) /\ \A n \in Elements(pending) : n <= pulled
        /\ Before(Sending \cup Elements(output), Elements(pending))
        /\ Before(Elements(pending), Elements(batch'))
        /\ Elements(batch') \subseteq Elements(batch)
        /\ Held \subseteq Elements(taken) \cup Elements(output) \cup Elements(pending) \cup Elements(batch')
    BY <2>2 DEF CoalescerInv, HeldInOrder, Held, Before
  <2>4. retained = Raws(pending) \cup Sents(output) \cup Sents(taken) \cup Sents(inFlight)
    BY <1>4 DEF CoalescerInv, ChargesHeld
  <2> QED  BY <1>1, <1>2, <1>4, <2>1, <2>2, <2>3, <2>4, FlushHolds
<1> QED  BY <1>3, <1>4

\* Closing drops what was not sent; the budget has failed by then.
LEMMA CloseKeeps ==
    ASSUME CoalescerInv, CloseCoalescer
    PROVE  CoalescerInv' /\ MarkersStay /\ HeldStay
<1>1. /\ failed /\ failed' = failed /\ closed' = TRUE /\ window' = FALSE
      /\ retained' = retained \ (Raws(pending) \cup Sents(output))
      /\ pending' = <<>> /\ output' = <<>>
      /\ UNCHANGED <<log, pulled, batch, puller, taken, inFlight, cleaned>>
  BY DEF CloseCoalescer
<1>2. CoalescerTypeOK /\ Len(log) \in Nat /\ retained \in SUBSET AllItems /\ Fits(retained)
  BY QueueTypes DEF CoalescerInv, CoalescerTypeOK
<1>3. CoalescerTypeOK'
  <2>1. retained' \in SUBSET retained /\ retained' \in SUBSET AllItems
    BY <1>1, <1>2
  <2>2. Fits(retained')
    BY <1>2, <2>1, ReleaseFits DEF AllItems
  <2> QED  BY <1>1, <1>2, <2>1, <2>2, EmptyQueue DEF CoalescerTypeOK, AllItems
<1>4. HeldInOrder' /\ OneBatch' /\ WindowOpen'
  BY <1>1, EmptyQueue DEF CoalescerInv, HeldInOrder, Held, Sending, OneBatch, WindowOpen, Before
<1>5. ChargesHeld'
  BY <1>1, SentOnce DEF CoalescerInv, ChargesHeld
<1> QED  BY <1>1, <1>3, <1>4, <1>5 DEF CoalescerInv, MarkersStay, HeldStay

\* After the failure only what awaits its acknowledgement is still charged.
LEMMA CleanUpKeeps ==
    ASSUME CoalescerInv, CleanUp
    PROVE  CoalescerInv' /\ MarkersStay /\ HeldStay
<1>1. /\ failed /\ failed' = failed /\ cleaned' = TRUE
      /\ retained' = retained \cap Sents(inFlight)
      /\ UNCHANGED <<log, pulled, batch, pending, window, output, puller, taken, inFlight, closed>>
  BY DEF CleanUp
<1>2. CoalescerTypeOK /\ Len(log) \in Nat /\ retained \in SUBSET AllItems /\ Fits(retained)
      /\ DOMAIN output = 1..Len(output)
  BY QueueTypes DEF CoalescerInv, CoalescerTypeOK
<1>3. CoalescerTypeOK'
  <2>1. retained' \in SUBSET retained /\ retained' \in SUBSET AllItems
    BY <1>1, <1>2
  <2>2. Fits(retained')
    BY <1>2, <2>1, ReleaseFits DEF AllItems
  <2> QED  BY <1>1, <1>2, <2>1, <2>2 DEF CoalescerTypeOK, AllItems
<1>4. HeldInOrder' /\ OneBatch' /\ WindowOpen'
  BY <1>1 DEF CoalescerInv, HeldInOrder, Held, Sending, OneBatch, WindowOpen
<1>5. ChargesHeld'
  BY <1>1 DEF CoalescerInv, ChargesHeld
<1> QED  BY <1>1, <1>2, <1>3, <1>4, <1>5 DEF CoalescerInv, MarkersStay, HeldStay

\* Taking the output for the next batch.
LEMMA TakeKeeps ==
    ASSUME CoalescerInv, TakeOutput
    PROVE  CoalescerInv' /\ Held' = Held
<1>1. /\ puller = "pulling" /\ taken = <<>> /\ taken' = output /\ output' = <<>>
      /\ UNCHANGED <<log, pulled, batch, pending, window, puller, inFlight, retained, failed,
                     cleaned, closed>>
  BY DEF TakeOutput, budgetVars
<1>2. CoalescerTypeOK'
  BY <1>1, EmptyQueue DEF CoalescerInv, CoalescerTypeOK
<1>3. inFlight = <<>> /\ Elements(taken) = {} /\ Elements(inFlight) = {}
      /\ Elements(output') = {} /\ InOrder(output')
  BY <1>1, EmptyQueue DEF CoalescerInv, OneBatch
<1>4. Held' = Held
  BY <1>1, <1>3 DEF Held
<1>5. HeldInOrder'
  BY <1>1, <1>3 DEF CoalescerInv, HeldInOrder, Held, Sending, Before
<1>6. OneBatch' /\ WindowOpen'
  BY <1>1, <1>3 DEF CoalescerInv, OneBatch, WindowOpen
<1>7. ChargesHeld'
  <2>1. Sents(<<>>) = {}
    BY ItemsOf, EmptyQueue
  <2> QED  BY <1>1, <2>1 DEF CoalescerInv, ChargesHeld
<1> QED  BY <1>1, <1>2, <1>4, <1>5, <1>6, <1>7 DEF CoalescerInv

\* An acknowledgement releases the batch it is for.
LEMMA AcknowledgeKeeps ==
    ASSUME CoalescerInv, Acknowledge
    PROVE  CoalescerInv' /\ Held' = Held
<1>1. /\ puller # "pulling" /\ retained' = retained \ Sents(inFlight) /\ inFlight' = <<>>
      /\ ~failed /\ puller' = "pulling"
      /\ UNCHANGED <<log, pulled, batch, pending, window, output, taken, failed, cleaned, closed>>
  BY DEF Acknowledge
<1>2. /\ CoalescerTypeOK /\ Len(log) \in Nat /\ retained \in SUBSET AllItems /\ Fits(retained)
      /\ taken = <<>> /\ Elements(taken) = {} /\ Elements(inFlight') = {}
  BY <1>1, QueueTypes, EmptyQueue DEF CoalescerInv, CoalescerTypeOK, OneBatch
<1>3. CoalescerTypeOK'
  <2>1. retained' \in SUBSET retained /\ retained' \in SUBSET AllItems
    BY <1>1, <1>2
  <2>2. Fits(retained')
    BY <1>2, <2>1, ReleaseFits DEF AllItems
  <2> QED  BY <1>1, <1>2, <2>1, <2>2, EmptyQueue DEF CoalescerTypeOK, AllItems
<1>4. Held' = Held
  BY <1>1 DEF Held
<1>5. HeldInOrder' /\ OneBatch' /\ WindowOpen'
  BY <1>1, <1>2 DEF CoalescerInv, HeldInOrder, Held, Sending, OneBatch, WindowOpen, Before
<1>6. ChargesHeld'
  <2>1. Sents(<<>>) = {}
    BY ItemsOf, EmptyQueue
  <2>2. ~cleaned
    BY <1>1 DEF CoalescerInv
  <2>3. retained = Raws(pending) \cup Sents(output) \cup Sents(inFlight)
    BY <1>1, <1>2, <2>1 DEF CoalescerInv, ChargesHeld
  <2> QED  BY <1>1, <1>2, <2>1, <2>2, <2>3, SentOnce DEF ChargesHeld
<1> QED  BY <1>1, <1>3, <1>4, <1>5, <1>6 DEF CoalescerInv

\* A batch that was delivered stays charged until it is acknowledged.
LEMMA DeliverKeeps ==
    ASSUME CoalescerInv, Deliver
    PROVE  CoalescerInv' /\ puller = "pulling" /\ Marker \notin Elements(output)
<1>1. /\ taken # <<>> /\ ~failed /\ inFlight' = taken /\ taken' = <<>> /\ puller' = "idle"
      /\ UNCHANGED <<log, pulled, batch, pending, window, output, retained, failed, cleaned, closed>>
  BY DEF Deliver, budgetVars
<1>2. /\ CoalescerTypeOK /\ puller = "pulling" /\ inFlight = <<>>
      /\ Elements(inFlight) = {} /\ Elements(taken') = {} /\ InOrder(taken')
  BY <1>1, EmptyQueue DEF CoalescerInv, OneBatch
<1>3. CoalescerTypeOK'
  BY <1>1, <1>2, EmptyQueue DEF CoalescerTypeOK
<1>4. Sending' = Sending
  BY <1>1, <1>2 DEF Sending
<1>5. HeldInOrder'
  <2>1. \A n \in Elements(taken) \cup Elements(output) \cup Elements(pending) \cup Elements(batch) : n <= pulled
    BY DEF CoalescerInv, HeldInOrder, Held
  <2> QED  BY <1>1, <1>2, <1>4, <2>1 DEF CoalescerInv, HeldInOrder, Held
<1>6. Marker \notin Elements(output)
  <2>1. 1 \in DOMAIN taken
    BY <1>1, <1>2 DEF CoalescerTypeOK
  <2>2. Sending # {}
    BY <2>1 DEF Sending, Elements
  <2> QED  BY <2>2 DEF CoalescerInv, OneBatch
<1>7. OneBatch' /\ WindowOpen'
  BY <1>1, <1>6 DEF CoalescerInv, OneBatch, WindowOpen
<1>8. ChargesHeld'
  <2>1. Sents(<<>>) = {}
    BY ItemsOf, EmptyQueue
  <2> QED  BY <1>1, <1>2, <2>1 DEF CoalescerInv, ChargesHeld
<1> QED  BY <1>1, <1>2, <1>3, <1>5, <1>6, <1>7, <1>8 DEF CoalescerInv

\* A marker, offered when nothing is being sent, goes behind all that was pulled.
LEMMA MarkerKeeps ==
    ASSUME CoalescerInv, OfferMarker, puller = "off", Marker \notin Elements(output)
    PROVE  /\ CoalescerInv' /\ HeldStay
           /\ \A i \in DOMAIN output' :
                 output'[i] = Marker /\ pulled \in Held =>
                     \E j \in 1..(i - 1) : output'[j] = pulled
<1> DEFINE sent == Flushed(pending)
           items == Charged(pending, retained)
           c == Coalesce(pending)
<1>1. /\ batch = <<>> /\ ~failed /\ pending' = <<>> /\ window' = FALSE
      /\ UNCHANGED <<log, pulled, batch, puller, taken, inFlight, cleaned, closed>>
  BY DEF OfferMarker
<1>2. \/ /\ Fits(items \cup {Sent(Marker)}) /\ output' = Append(sent, Marker)
         /\ retained' = items \cup {Sent(Marker)} /\ failed' = failed
      \/ output' = sent /\ retained' = items /\ failed' = TRUE
  BY DEF OfferMarker, Flushed, Charged
<1>3. /\ CoalescerTypeOK /\ Len(log) \in Nat /\ pulled \in 0..Len(log)
      /\ pending \in Seq(1..Len(log)) /\ retained \in SUBSET AllItems /\ Fits(retained)
      /\ Elements(pending) \subseteq 1..Len(log) /\ Elements(output) \subseteq 0..Len(log)
      /\ failed \in BOOLEAN
  BY QueueTypes DEF CoalescerInv, CoalescerTypeOK
<1>4. /\ taken = <<>> /\ inFlight = <<>> /\ Elements(taken) = {} /\ Elements(inFlight) = {}
      /\ Elements(batch) = {} /\ Elements(pending') = {} /\ InOrder(pending')
      /\ pending' \in Seq(1..Len(log)) /\ Sending = {} /\ Sending' = {}
  BY <1>1, EmptyQueue DEF CoalescerInv, OneBatch, Sending
<1>5. retained = Raws(pending) \cup Sents(output)
  <2>1. Sents(<<>>) = {}
    BY ItemsOf, EmptyQueue
  <2> QED  BY <1>1, <1>4, <2>1 DEF CoalescerInv, ChargesHeld
<1>6. /\ sent \in Seq(0..Len(log)) /\ InOrder(sent)
      /\ Elements(sent) = Elements(output) \cup Elements(c)
      /\ items \in SUBSET AllItems /\ Fits(items) /\ Elements(c) \subseteq Elements(pending)
  <2>1. InOrder(output) /\ Before(Elements(output), Elements(pending))
    BY DEF CoalescerInv, HeldInOrder, Before
  <2>2. Raws(pending) \subseteq retained
    BY <1>5
  <2> QED  BY <1>3, <2>1, <2>2, FlushKeeps
<1>7. items = Sents(sent)
  <2>1. Sents(sent) = Sents(output) \cup Sents(c)
    BY <1>6, ItemsOf
  <2>2. Raws(pending) \cap Sents(output) = {}
    BY ItemsOf
  <2> QED  BY <1>5, <2>1, <2>2 DEF Charged
<1>8. \A n \in Elements(pending) \ Elements(c) :
          \E m \in Elements(pending) : m > n /\ IsUpdate(n) /\ log[m] = log[n]
  BY <1>3, UpdatesCoalesced
<1>9. \A n \in Elements(output) \cup Elements(pending) : n <= pulled /\ n \in 0..Len(log)
  BY <1>3 DEF CoalescerInv, HeldInOrder, Held
<1>10. Marker \notin Elements(sent)
  BY <1>3, <1>6 DEF Marker
<1> HIDE DEF sent, items, c
<1>11. CASE /\ Fits(items \cup {Sent(Marker)}) /\ output' = Append(sent, Marker)
            /\ retained' = items \cup {Sent(Marker)} /\ failed' = failed
  <2>1. Marker \in 0..Len(log)
    BY <1>3 DEF Marker
  <2>2. /\ Append(sent, Marker) \in Seq(0..Len(log))
        /\ Elements(Append(sent, Marker)) = Elements(sent) \cup {Marker}
        /\ \A i \in DOMAIN sent : i \in DOMAIN Append(sent, Marker) /\ Append(sent, Marker)[i] = sent[i]
    BY ONLY <1>6, <2>1, AppendedElements
  <2>3. /\ output' \in Seq(0..Len(log)) /\ Elements(output') = Elements(sent) \cup {Marker}
        /\ Len(output') = Len(sent) + 1 /\ Len(sent) \in Nat /\ DOMAIN sent = 1..Len(sent)
        /\ \A i \in DOMAIN sent : i \in DOMAIN output' /\ output'[i] = sent[i]
    BY <1>6, <1>11, <2>2
  <2>4. InOrder(output')
    <3>1. Before(Elements(sent), {Marker})
      BY DEF Before
    <3> QED  BY <1>6, <1>11, <2>1, <3>1, AppendedInOrder
  <2>5. retained' \in SUBSET AllItems
    BY <1>6, <1>11, <2>1 DEF Sent, AllItems
  <2>6. CoalescerTypeOK'
    BY <1>1, <1>3, <1>4, <1>11, <2>3, <2>5 DEF CoalescerTypeOK, AllItems
  <2>7. HeldInOrder'
    <3>1. \A n \in Elements(output') : n <= pulled
      BY <1>3, <1>6, <1>9, <2>3 DEF Marker
    <3> QED
      BY <1>1, <1>4, <2>4, <3>1 DEF CoalescerInv, HeldInOrder, Held, Before
  <2>8. OneBatch' /\ WindowOpen'
    BY <1>1, <1>4 DEF CoalescerInv, OneBatch, WindowOpen
  <2>9. ChargesHeld'
    <3>1. Sents(output') = Sents(sent) \cup {Sent(Marker)}
      BY <2>3, ItemsOf
    <3>2. Sents(<<>>) = {} /\ Raws(<<>>) = {} /\ ~cleaned
      BY <1>1, ItemsOf, EmptyQueue DEF CoalescerInv
    <3> QED  BY <1>1, <1>4, <1>7, <1>11, <3>1, <3>2 DEF ChargesHeld
  <2>10. HeldStay
    <3>1. \A n \in Elements(pending) \ Elements(c) : SupersededBy(n, pulled)
      <4>1. \A n, m \in Elements(pending) : m > n => m \in (n + 1)..pulled
        BY <1>3, <1>9
      <4> QED  BY <1>8, <4>1 DEF SupersededBy
    <3>2. \A n \in Held : n \in Elements(output) \cup Elements(pending)
      BY <1>4 DEF Held
    <3>3. Elements(output') \subseteq Held'
      BY DEF Held
    <3> QED  BY <1>6, <2>3, <3>1, <3>2, <3>3 DEF HeldStay
  <2>11. ASSUME NEW i \in DOMAIN output', output'[i] = Marker, pulled \in Held
         PROVE  \E j \in 1..(i - 1) : output'[j] = pulled
    <3>1. pulled \in Elements(output) \cup Elements(pending)
      BY <1>4, <2>11 DEF Held
    <3>2. pulled \in Elements(pending) => pulled \in Elements(c)
      <4>1. ~\E m \in Elements(pending) : m > pulled
        BY <1>3, <1>9
      <4> QED  BY <1>8, <4>1
    <3>3. PICK j \in DOMAIN sent : sent[j] = pulled
      <4>1. pulled \in Elements(sent)
        BY <1>6, <3>1, <3>2
      <4> QED  BY <4>1 DEF Elements
    <3>4. i \notin DOMAIN sent
      BY <1>10, <2>3, <2>11 DEF Elements
    <3>5. DOMAIN output' = 1..(Len(sent) + 1)
      BY <2>3
    <3>6. i = Len(sent) + 1 /\ j \in 1..(i - 1)
      BY <2>3, <2>11, <3>4, <3>5
    <3> QED  BY <2>3, <3>3, <3>6
  <2>12. cleaned' => failed'
    BY <1>1, <1>11 DEF CoalescerInv
  <2> QED  BY <2>6, <2>7, <2>8, <2>9, <2>10, <2>11, <2>12 DEF CoalescerInv
<1>12. CASE output' = sent /\ retained' = items /\ failed' = TRUE
  <2>1. CoalescerTypeOK'
    <3>1. failed' \in BOOLEAN /\ window' \in BOOLEAN
      BY <1>1, <1>12
    <3> QED  BY <1>1, <1>3, <1>4, <1>6, <1>12, <3>1 DEF CoalescerTypeOK, AllItems
  <2>2. HeldInOrder'
    <3>1. \A n \in Elements(output') : n <= pulled
      BY <1>6, <1>9, <1>12
    <3> QED
      BY <1>1, <1>4, <1>6, <1>12, <3>1 DEF CoalescerInv, HeldInOrder, Held, Before
  <2>3. OneBatch' /\ WindowOpen'
    BY <1>1, <1>4 DEF CoalescerInv, OneBatch, WindowOpen
  <2>4. ChargesHeld'
    <3>1. Sents(<<>>) = {} /\ ~cleaned
      BY <1>1, ItemsOf, EmptyQueue DEF CoalescerInv
    <3> QED  BY <1>1, <1>4, <1>12, <3>1 DEF ChargesHeld
  <2>5. \A i \in DOMAIN output' : output'[i] # Marker
    BY <1>10, <1>12 DEF Elements
  <2> QED  BY <1>12, <2>1, <2>2, <2>3, <2>4, <2>5 DEF CoalescerInv, HeldStay
<1> QED  BY <1>2, <1>11, <1>12

\* The log grows behind what was pulled.
LEMMA CommitKeeps ==
    ASSUME CoalescerInv, NEW event \in Calls \cup {Other}, log' = Append(log, event),
           UNCHANGED coalescerVars
    PROVE  CoalescerInv'
<1>1. UNCHANGED <<pulled, batch, pending, window, output, puller, taken, inFlight,
                  retained, failed, cleaned, closed>>
  BY DEF coalescerVars
<1>2. /\ CoalescerTypeOK /\ log' \in Seq(Calls \cup {Other}) /\ Len(log) \in Nat
      /\ Len(log') = Len(log) + 1
  BY DEF CoalescerInv, CoalescerTypeOK
<1>3. CoalescerTypeOK'
  <2>1. 1..Len(log) \subseteq 1..Len(log') /\ 0..Len(log) \subseteq 0..Len(log')
    BY <1>2
  <2>2. /\ batch \in Seq(1..Len(log')) /\ pending \in Seq(1..Len(log'))
        /\ output \in Seq(0..Len(log')) /\ taken \in Seq(0..Len(log'))
        /\ inFlight \in Seq(0..Len(log'))
    BY <1>2, <2>1, SeqMonotonic DEF CoalescerTypeOK
  <2> QED  BY <1>1, <1>2, <2>1, <2>2 DEF CoalescerTypeOK, Fits
<1>4. HeldInOrder' /\ OneBatch' /\ ChargesHeld' /\ WindowOpen'
  BY <1>1 DEF CoalescerInv, HeldInOrder, Held, Sending, OneBatch, ChargesHeld, WindowOpen
<1> QED  BY <1>1, <1>3, <1>4 DEF CoalescerInv

-----------------------------------------------------------------------------
(* The subscription.                                                        *)

\* What IInv says of the client does not depend on the coalescer.
LEMMA ClientStays ==
    ASSUME IInv, CoalescerTypeOK', UNCHANGED <<log, stage, replay, wire, cursor, shown, live, fence>>
    PROVE  StreamTypeOK' /\ WireCovers' /\ NothingLost' /\ LiveMeansCaughtUp'
<1>1. StreamTypeOK'
  BY DEF IInv, StreamTypeOK, TypeOK, Items
<1>2. WireCovers' /\ NothingLost' /\ LiveMeansCaughtUp'
  BY DEF IInv, WireCovers, NothingLost, LiveMeansCaughtUp, Superseded, IsUpdate
<1> QED  BY <1>1, <1>2

\* The coalescer's own steps: the window, the budget, the retained events.
LEMMA SteadyKeeps ==
    ASSUME IInv, CoalescerInv', MarkersStay, HeldStay, stage \notin {"none", "failed"},
           failed => failed', UNCHANGED <<log, pulled, puller, taken>>,
           UNCHANGED <<stage, replay, wire, clientVars, fence, disturbances>>
    PROVE  IInv'
<1>1. UNCHANGED <<log, stage, replay, wire, cursor, shown, live, fence>>
  BY DEF clientVars
<1>2. StreamTypeOK' /\ WireCovers' /\ NothingLost' /\ LiveMeansCaughtUp'
  BY <1>1, ClientStays DEF CoalescerInv
<1>3. Marker \in Elements(output') => Marker \in Elements(output)
  <2>1. \A i \in DOMAIN output' : i \in 1..i
    BY DEF CoalescerInv, CoalescerTypeOK
  <2> QED  BY <2>1 DEF MarkersStay, Elements
<1>4. StageShape'
  BY <1>1, <1>3 DEF IInv, StageShape
<1>5. HeldCovers'
  BY <1>1 DEF IInv, HeldCovers, HeldStay, Arriving, SupersededBy, IsUpdate
<1>6. MarkerBehindFence'
  <2>1. ASSUME NEW i \in DOMAIN output', output'[i] = Marker, FenceAhead(i, output)
        PROVE  \E j \in 1..(i - 1) : output'[j] = fence' /\ fence' # Marker
    <3>1. \A j \in 1..i : output'[j] = output[j]
      BY <2>1 DEF MarkersStay
    <3>2. i \in Nat
      BY DEF CoalescerInv, CoalescerTypeOK
    <3>3. \A j \in 1..(i - 1) : j \in 1..i
      BY <3>2
    <3> QED  BY <1>1, <2>1, <3>1, <3>3 DEF FenceAhead
  <2>2. \A i \in DOMAIN output' : output'[i] = Marker => i \in DOMAIN output /\ output[i] = Marker
    <3>1. \A i \in DOMAIN output' : i \in 1..i
      BY DEF CoalescerInv, CoalescerTypeOK
    <3> QED  BY <3>1 DEF MarkersStay
  <2>3. CASE cursor >= fence
    BY <1>1, <2>3 DEF MarkerBehindFence
  <2>4. CASE ~(cursor >= fence)
    <3>1. /\ \A i \in DOMAIN output' : output'[i] = Marker =>
                  \E j \in 1..(i - 1) : output'[j] = fence' /\ fence' # Marker
          /\ \A i \in DOMAIN taken' : taken'[i] = Marker =>
                  \E j \in 1..(i - 1) : taken'[j] = fence' /\ fence' # Marker
          /\ \A i \in DOMAIN wire' : wire'[i] = Synchronized =>
                  \E j \in 1..(i - 1) : wire'[j] = Event(fence')
      BY <1>1, <2>1, <2>2, <2>4 DEF IInv, MarkerBehindFence, FenceAhead
    <3> QED  BY <3>1 DEF MarkerBehindFence, FenceAhead
  <2> QED  BY <2>3, <2>4
<1> QED  BY <1>2, <1>4, <1>5, <1>6 DEF IInv

LEMMA PullsAndTakes ==
    ASSUME IInv, PullBatch \/ TakeOutput, stage \notin {"none", "failed"},
           UNCHANGED <<stage, replay, wire, clientVars, fence, disturbances>>
    PROVE  IInv'
<1>1. UNCHANGED <<stage, replay, wire, cursor, shown, live, fence>>
  BY DEF clientVars
<1>2. CASE PullBatch
  <2>1. CoalescerInv' /\ Elements(batch') = (pulled + 1)..Len(log) /\ Elements(batch) = {}
    BY <1>2, PullKeeps DEF IInv
  <2>2. /\ pulled' = Len(log) /\ ~failed
        /\ UNCHANGED <<log, pending, output, puller, taken, failed>>
    BY <1>2 DEF PullBatch, budgetVars
  <2>3. Len(log) \in Nat /\ pulled \in 0..Len(log)
    BY QueueTypes DEF IInv, CoalescerInv
  <2>4. StreamTypeOK' /\ WireCovers' /\ NothingLost' /\ LiveMeansCaughtUp'
    BY <1>1, <2>1, <2>2, ClientStays DEF CoalescerInv
  <2>5. StageShape' /\ MarkerBehindFence'
    BY <1>1, <2>2 DEF IInv, StageShape, MarkerBehindFence, FenceAhead
  <2>6. HeldCovers'
    <3>1. \A n : SupersededBy(n, pulled) => SupersededBy(n, pulled)'
      BY <2>2, <2>3 DEF SupersededBy, IsUpdate
    <3>2. \A n \in 1..Len(log) : n \in 1..pulled \/ n \in Elements(batch')
      BY <2>1, <2>3
    <3>3. Held' = Held \cup Elements(batch')
      BY <2>1, <2>2 DEF Held
    <3>4. Arriving' = Arriving
      BY <1>1 DEF Arriving
    <3> QED  BY <1>1, <2>2, <3>1, <3>2, <3>3, <3>4 DEF IInv, HeldCovers
  <2> QED  BY <2>1, <2>4, <2>5, <2>6 DEF IInv
<1>3. CASE TakeOutput
  <2>1. CoalescerInv' /\ Held' = Held
    BY <1>3, TakeKeeps DEF IInv
  <2>2. /\ puller = "pulling" /\ taken = <<>> /\ taken' = output /\ output' = <<>>
        /\ UNCHANGED <<log, pulled, puller, failed>>
    BY <1>3 DEF TakeOutput, budgetVars
  <2>3. StreamTypeOK' /\ WireCovers' /\ NothingLost' /\ LiveMeansCaughtUp'
    BY <1>1, <2>1, <2>2, ClientStays DEF CoalescerInv
  <2>4. StageShape'
    BY <1>1, <2>2, EmptyQueue DEF IInv, StageShape
  <2>5. HeldCovers'
    BY <1>1, <2>1, <2>2 DEF IInv, HeldCovers, Arriving, SupersededBy, IsUpdate
  <2>6. MarkerBehindFence'
    <3>1. DOMAIN output' = {}
      BY <2>2
    <3> QED  BY <1>1, <2>2, <3>1 DEF IInv, MarkerBehindFence, FenceAhead
  <2> QED  BY <2>1, <2>3, <2>4, <2>5, <2>6 DEF IInv
<1> QED  BY <1>2, <1>3

LEMMA CoalescerWorksKeeps ==
    ASSUME IInv, CoalescerWorks
    PROVE  IInv'
<1>1. /\ stage \notin {"none", "failed"}
      /\ UNCHANGED <<stage, replay, wire, clientVars, fence, disturbances>>
  BY DEF CoalescerWorks
<1>2. CASE PullBatch \/ TakeOutput
  BY <1>1, <1>2, PullsAndTakes
<1>3. CASE OfferEvent
  <2>1. CoalescerInv' /\ MarkersStay /\ HeldStay
    BY <1>3, OfferKeeps DEF IInv
  <2>2. UNCHANGED <<log, pulled, puller, taken>> /\ (failed => failed')
    BY <1>3 DEF OfferEvent, Overflow
  <2> QED  BY <1>1, <2>1, <2>2, SteadyKeeps
<1>4. CASE WindowFires
  <2>1. CoalescerInv' /\ MarkersStay /\ HeldStay
    BY <1>4, WindowKeeps DEF IInv
  <2>2. UNCHANGED <<log, pulled, puller, taken>> /\ (failed => failed')
    BY <1>4 DEF WindowFires
  <2> QED  BY <1>1, <2>1, <2>2, SteadyKeeps
<1>5. CASE CloseCoalescer
  <2>1. CoalescerInv' /\ MarkersStay /\ HeldStay
    BY <1>5, CloseKeeps DEF IInv
  <2>2. UNCHANGED <<log, pulled, puller, taken>> /\ (failed => failed')
    BY <1>5 DEF CloseCoalescer
  <2> QED  BY <1>1, <2>1, <2>2, SteadyKeeps
<1>6. CASE CleanUp
  <2>1. CoalescerInv' /\ MarkersStay /\ HeldStay
    BY <1>6, CleanUpKeeps DEF IInv
  <2>2. UNCHANGED <<log, pulled, puller, taken>> /\ (failed => failed')
    BY <1>6 DEF CleanUp
  <2> QED  BY <1>1, <2>1, <2>2, SteadyKeeps
<1> QED  BY <1>2, <1>3, <1>4, <1>5, <1>6 DEF CoalescerWorks

\* A later event supersedes more, and changes nothing else.
LEMMA CommitStep ==
    ASSUME IInv, Commit
    PROVE  IInv'
<1>1. PICK event \in Calls \cup {Other} : log' = Append(log, event)
  BY DEF Commit
<1>2. /\ UNCHANGED coalescerVars
      /\ UNCHANGED <<stage, replay, wire, cursor, shown, live, fence>>
      /\ UNCHANGED <<pulled, batch, pending, output, puller, taken, inFlight, failed>>
  BY DEF Commit, clientVars, coalescerVars
<1>3. CoalescerInv'
  BY <1>1, <1>2, CommitKeeps DEF IInv
<1>4. /\ Len(log) \in Nat /\ Len(log') = Len(log) + 1 /\ pulled \in 0..Len(log)
      /\ \A n \in 1..Len(log) : log'[n] = log[n] /\ n \in 1..Len(log')
  BY <1>1 DEF IInv, CoalescerInv, CoalescerTypeOK
<1>5. /\ stage \in {"none", "failed", "attached", "replay", "snapshot", "marker", "live"}
      /\ cursor \in {NoData} \cup (0..Len(log)) /\ shown \subseteq 1..Len(log)
      /\ fence \in 0..Len(log) /\ wire \in Seq(Items) /\ DOMAIN wire = 1..Len(wire)
  BY DEF IInv, StreamTypeOK, TypeOK
<1>6. StreamTypeOK'
  <2>1. /\ stage' \in {"none", "failed", "attached", "replay", "snapshot", "marker", "live"}
        /\ cursor' \in {NoData} \cup (0..Len(log')) /\ shown' \subseteq 1..Len(log')
        /\ fence' \in 0..Len(log')
    BY <1>2, <1>4, <1>5
  <2>2. Items \subseteq Items'
    BY <1>4 DEF Items
  <2>3. wire' \in Seq(Items')
    BY <1>2, <1>5, <2>2, SeqMonotonic
  <2> QED  BY <1>2, <1>3, <2>1, <2>3 DEF IInv, CoalescerInv, StreamTypeOK, TypeOK
<1>7. \A n \in 1..Len(log) : Superseded(n) =>
          (log'[n] \in Calls /\ \E m \in (n + 1)..Len(log') : log'[m] = log'[n])
  <2>1. \A n \in 1..Len(log) : \A m \in (n + 1)..Len(log) :
            m \in 1..Len(log) /\ m \in (n + 1)..Len(log')
    BY <1>4
  <2> QED  BY <1>4, <2>1 DEF Superseded, IsUpdate
<1>8. \A n \in 1..pulled : SupersededBy(n, pulled) =>
          (log'[n] \in Calls /\ \E m \in (n + 1)..pulled : log'[m] = log'[n])
  <2>1. \A n \in 1..pulled : n \in 1..Len(log) /\ \A m \in (n + 1)..pulled : m \in 1..Len(log)
    BY <1>4
  <2> QED  BY <1>4, <2>1 DEF SupersededBy, IsUpdate
<1>9. StageShape' /\ MarkerBehindFence' /\ LiveMeansCaughtUp'
  BY <1>2 DEF IInv, StageShape, MarkerBehindFence, FenceAhead, LiveMeansCaughtUp
<1>10. NothingLost'
  <2>1. \A n \in 1..cursor : n \in 1..Len(log)
    BY <1>4, <1>5 DEF NoData
  <2> QED  BY <1>2, <1>7, <2>1 DEF IInv, NothingLost, Superseded, IsUpdate
<1>11. HeldCovers'
  <2>1. Held' = Held /\ Arriving' = Arriving
    BY <1>2 DEF Held, Arriving
  <2> QED  BY <1>2, <1>8, <2>1 DEF IInv, HeldCovers, SupersededBy, IsUpdate
<1>12. WireCovers'
  <2>1. \A i \in DOMAIN wire : wire[i].kind = "event" => wire[i].sequence \in 1..Len(log)
    BY <1>4, <1>5 DEF Items, Synchronized
  <2>2. \A i \in DOMAIN wire : wire[i].kind = "event" =>
            \A n \in 1..wire[i].sequence : n \in 1..Len(log)
    BY <1>4, <2>1
  <2> QED  BY <1>2, <1>7, <2>2 DEF IInv, WireCovers, Superseded, IsUpdate
<1> QED  BY <1>3, <1>6, <1>9, <1>10, <1>11, <1>12 DEF IInv

\* Before a subscription has read the head, nothing is on its way.
LEMMA LoadSnapshotStep ==
    ASSUME IInv, LoadSnapshot
    PROVE  IInv'
<1>1. /\ stage = "none" /\ cursor' = Len(log) /\ shown' = 1..Len(log)
      /\ UNCHANGED <<log, stage, replay, wire, live, fence>> /\ UNCHANGED coalescerVars
      /\ UNCHANGED <<pulled, batch, pending, window, output, puller, taken, inFlight, retained,
                     failed, cleaned, closed>>
  BY DEF LoadSnapshot, coalescerVars
<1>2. /\ Len(log) \in Nat /\ fence \in 0..Len(log) /\ wire = <<>> /\ ~live
  BY <1>1, QueueTypes DEF IInv, CoalescerInv, StreamTypeOK, TypeOK, StageShape
<1>3. CoalescerInv'
  BY <1>1 DEF IInv, CoalescerInv, CoalescerTypeOK, Fits, HeldInOrder, Held, Sending, OneBatch,
              ChargesHeld, WindowOpen
<1>4. StreamTypeOK'
  BY <1>1, <1>2, <1>3 DEF IInv, CoalescerInv, StreamTypeOK, TypeOK, Items
<1>5. StageShape' /\ WireCovers' /\ HeldCovers' /\ MarkerBehindFence' /\ LiveMeansCaughtUp'
  BY <1>1, <1>2 DEF IInv, StageShape, WireCovers, HeldCovers, MarkerBehindFence, LiveMeansCaughtUp
<1>6. NothingLost'
  BY <1>1 DEF NothingLost
<1> QED  BY <1>3, <1>4, <1>5, <1>6 DEF IInv

\* A subscription begins, or ends, with a coalescer that holds nothing.
LEMMA EmptiedKeeps ==
    ASSUME IInv, NEW from \in 0..Len(log), Attach(from), wire' = <<>>,
           stage' \in {"none", "failed", "attached"},
           replay' \in [next: Nat, last: Nat], live' = FALSE, fence' \in 0..Len(log),
           UNCHANGED <<log, cursor, shown>>
    PROVE  IInv'
<1>1. CoalescerInv'
  BY AttachKeeps DEF IInv, CoalescerInv, CoalescerTypeOK
<1>2. output' = <<>> /\ taken' = <<>> /\ puller' = "off"
  BY DEF Attach
<1>3. StreamTypeOK'
  <2>1. wire' \in Seq(Items)'
    BY EmptyQueue
  <2>2. live' \in BOOLEAN
    BY Zenon
  <2> QED  BY <1>1, <2>1, <2>2 DEF IInv, CoalescerInv, StreamTypeOK, TypeOK
<1>4. StageShape'
  BY <1>2, EmptyQueue DEF StageShape
<1>5. WireCovers' /\ HeldCovers' /\ MarkerBehindFence' /\ LiveMeansCaughtUp'
  BY <1>2 DEF WireCovers, HeldCovers, MarkerBehindFence, LiveMeansCaughtUp
<1>6. NothingLost'
  BY DEF IInv, NothingLost, Superseded, IsUpdate
<1> QED  BY <1>1, <1>3, <1>4, <1>5, <1>6 DEF IInv

LEMMA SubscribeStep ==
    ASSUME IInv, Subscribe
    PROVE  IInv'
<1>1. /\ stage = "none" /\ stage' = "attached" /\ Attach(Len(log))
      /\ UNCHANGED <<log, replay, wire, cursor, shown, live, fence>>
  BY DEF Subscribe, clientVars
<1>2. /\ wire' = <<>> /\ ~live /\ live \in BOOLEAN /\ replay' \in [next: Nat, last: Nat]
      /\ fence' \in 0..Len(log) /\ Len(log) \in 0..Len(log)
  BY <1>1, QueueTypes DEF IInv, CoalescerInv, StageShape, StreamTypeOK, TypeOK
<1>3. live' = FALSE
  BY <1>1, <1>2
<1> QED  BY <1>1, <1>2, <1>3, EmptiedKeeps

LEMMA EndsKeeps ==
    ASSUME IInv, NEW next \in {"none", "failed"}, Ends(next)
    PROVE  IInv'
<1>1. /\ Attach(0) /\ stage' = next /\ replay' = NoReplay /\ wire' = <<>> /\ live' = FALSE
      /\ fence' = 0 /\ UNCHANGED <<log, cursor, shown>>
  BY DEF Ends
<1>2. /\ 0 \in 0..Len(log) /\ replay' \in [next: Nat, last: Nat]
  BY <1>1, QueueTypes DEF IInv, CoalescerInv, NoReplay
<1> QED  BY <1>1, <1>2, EmptiedKeeps

LEMMA EndingSteps ==
    ASSUME IInv, StreamFails \/ ReadFails \/ Resubscribe
    PROVE  IInv'
BY EndsKeeps DEF StreamFails, ReadFails, Resubscribe

\* Steps that leave the coalescer alone.
LEMMA CoalescerStays ==
    ASSUME CoalescerInv, UNCHANGED <<log, coalescerVars>>
    PROVE  /\ CoalescerInv' /\ Held' = Held
           /\ UNCHANGED <<log, pulled, batch, pending, output, puller, taken, inFlight, failed>>
BY DEF coalescerVars, CoalescerInv, CoalescerTypeOK, Fits, HeldInOrder, Held, Sending, OneBatch,
       ChargesHeld, WindowOpen

\* Before the subscription is live nothing of it is taken from the coalescer.
LEMMA NotYetLive ==
    ASSUME IInv, stage # "live"
    PROVE  /\ puller = "off" /\ taken = <<>> /\ inFlight = <<>> /\ ~live
           /\ Marker \notin Elements(output)
           /\ \A i \in DOMAIN output : output[i] # Marker
BY DEF IInv, StageShape, CoalescerInv, OneBatch, Elements

\* What a step that only chooses what to send next has to establish.
LEMMA SendingKeeps ==
    ASSUME IInv, UNCHANGED <<log, coalescerVars, cursor, shown, live>>, stage # "live",
           stage' \in {"none", "replay", "snapshot", "marker"}, wire' \in Seq(Items),
           replay' \in [next: Nat, last: Nat], fence' \in 0..Len(log),
           \A i \in DOMAIN wire' : wire'[i] # Synchronized,
           StageShape', WireCovers', HeldCovers'
    PROVE  IInv'
<1>1. /\ CoalescerInv' /\ UNCHANGED <<log, output, taken>>
  BY CoalescerStays DEF IInv
<1>2. taken = <<>> /\ ~live /\ \A i \in DOMAIN output : output[i] # Marker
  BY NotYetLive
<1>3. StreamTypeOK'
  <2>1. wire' \in Seq(Items)'
    BY DEF Items
  <2>2. \A i \in DOMAIN wire' : wire'[i].kind \in {"event", "snapshot", "synchronized"}
    <3>1. \A i \in DOMAIN wire' : wire'[i] \in Items
      OBVIOUS
    <3> QED  BY <3>1 DEF Items, Synchronized
  <2> QED  BY <1>1, <2>1, <2>2 DEF IInv, CoalescerInv, StreamTypeOK, TypeOK
<1>4. MarkerBehindFence' /\ LiveMeansCaughtUp'
  BY <1>1, <1>2 DEF MarkerBehindFence, LiveMeansCaughtUp
<1>5. NothingLost'
  BY DEF IInv, NothingLost, Superseded, IsUpdate
<1> QED  BY <1>1, <1>3, <1>4, <1>5 DEF IInv

LEMMA ReadHeadStep ==
    ASSUME IInv, ReadHead
    PROVE  IInv'
<1>1. /\ stage = "attached" /\ wire = <<>> /\ wire' = <<>>
      /\ UNCHANGED <<log, coalescerVars, cursor, shown, live>>
  BY DEF ReadHead, clientVars, IInv, StageShape
<1>2. /\ Len(log) \in Nat /\ pulled \in 0..Len(log) /\ cursor \in {NoData} \cup (0..Len(log))
      /\ fence \in 0..Len(log) /\ replay \in [next: Nat, last: Nat] /\ wire' \in Seq(Items)
  BY <1>1, QueueTypes DEF IInv, CoalescerInv, StreamTypeOK, TypeOK
<1>3. UNCHANGED <<pulled, puller, output>> /\ puller = "off" /\ ~live /\ Marker \notin Elements(output)
  BY <1>1, CoalescerStays, NotYetLive DEF IInv
<1>4. CASE cursor # NoData /\ Len(log) - cursor <= MaxReplay
  <2>1. /\ stage' = "replay" /\ replay' = [next |-> cursor + 1, last |-> Len(log)]
        /\ fence' = Len(log)
    BY <1>4 DEF ReadHead
  <2>2. /\ cursor \in 0..Len(log) /\ fence' \in 0..Len(log) /\ replay' \in [next: Nat, last: Nat]
    BY <1>2, <1>4, <2>1
  <2>3. StageShape'
    BY <1>1, <1>2, <1>3, <2>1, <2>2 DEF StageShape
  <2>4. WireCovers' /\ HeldCovers'
    BY <1>1, <1>2, <1>3, <2>1 DEF WireCovers, HeldCovers
  <2>5. \A i \in DOMAIN wire' : wire'[i] # Synchronized
    BY <1>1
  <2> QED  BY <1>1, <1>2, <2>1, <2>2, <2>3, <2>4, <2>5, SendingKeeps
<1>5. CASE ~(cursor # NoData /\ Len(log) - cursor <= MaxReplay)
  <2>1. stage' = "snapshot" /\ UNCHANGED <<replay, fence>>
    BY <1>5 DEF ReadHead
  <2>2. StageShape' /\ WireCovers' /\ HeldCovers'
    BY <1>1, <1>3, <2>1 DEF StageShape, WireCovers, HeldCovers
  <2>3. \A i \in DOMAIN wire' : wire'[i] # Synchronized
    BY <1>1
  <2> QED  BY <1>1, <1>2, <2>1, <2>2, <2>3, SendingKeeps
<1> QED  BY <1>4, <1>5

LEMMA SendSnapshotStep ==
    ASSUME IInv, SendSnapshot
    PROVE  IInv'
<1>1. /\ stage = "snapshot" /\ stage' = "marker" /\ wire' = <<Snapshot(Len(log))>>
      /\ fence' = Len(log) /\ UNCHANGED <<replay, log, coalescerVars, cursor, shown, live>>
  BY DEF SendSnapshot, clientVars
<1>2. /\ Len(log) \in Nat /\ pulled \in 0..Len(log) /\ replay \in [next: Nat, last: Nat]
  BY QueueTypes DEF IInv, CoalescerInv, StreamTypeOK
<1>3. UNCHANGED <<pulled, puller, output>> /\ puller = "off" /\ ~live /\ Marker \notin Elements(output)
  BY <1>1, CoalescerStays, NotYetLive DEF IInv
<1>4. /\ Snapshot(Len(log)) \in Items /\ Snapshot(Len(log)) # Synchronized
      /\ Snapshot(Len(log)).kind = "snapshot"
  BY <1>2 DEF Items, Snapshot, Synchronized
<1>5. wire' \in Seq(Items) /\ \A i \in DOMAIN wire' : wire'[i] = Snapshot(Len(log))
  BY <1>1, <1>4
<1>6. StageShape'
  BY <1>1, <1>3 DEF StageShape
<1>7. WireCovers' /\ HeldCovers'
  BY <1>1, <1>2, <1>3, <1>4, <1>5 DEF WireCovers, HeldCovers
<1> QED  BY <1>1, <1>2, <1>4, <1>5, <1>6, <1>7, SendingKeeps

\* The replay sends one event at a time, each as the last has been applied.
LEMMA SendReplayStep ==
    ASSUME IInv, SendReplay
    PROVE  IInv'
<1>1. /\ stage = "replay" /\ wire = <<>>
      /\ UNCHANGED <<fence, log, coalescerVars, cursor, shown, live>>
  BY DEF SendReplay, clientVars
<1>2. /\ Len(log) \in Nat /\ replay \in [next: Nat, last: Nat] /\ fence \in 0..Len(log)
      /\ cursor \in {NoData} \cup (0..Len(log))
  BY QueueTypes DEF IInv, CoalescerInv, StreamTypeOK, TypeOK
<1>3. /\ UNCHANGED <<pulled, puller, output, failed>> /\ Held' = Held
      /\ puller = "off" /\ ~live /\ Marker \notin Elements(output)
  BY <1>1, CoalescerStays, NotYetLive DEF IInv
<1>4. /\ replay.last = fence /\ replay.next \in 1..(fence + 1) /\ cursor >= replay.next - 1
  BY <1>1, <1>2 DEF IInv, StageShape
<1>5. CASE replay.next <= replay.last
  <2>1. /\ wire' = <<Event(replay.next)>> /\ replay' = [replay EXCEPT !.next = @ + 1]
        /\ stage' = "replay"
    BY <1>1, <1>5 DEF SendReplay
  <2>2. /\ Event(replay.next) \in Items /\ Event(replay.next) # Synchronized
        /\ Event(replay.next).sequence = replay.next
    BY <1>2, <1>4, <1>5 DEF Items, Event, Synchronized
  <2>3. /\ wire' \in Seq(Items) /\ DOMAIN wire' = {1} /\ wire'[1] = Event(replay.next)
    BY <2>1, <2>2
  <2>4. /\ replay' \in [next: Nat, last: Nat] /\ replay'.last = fence
        /\ replay'.next = replay.next + 1
    BY <1>2, <1>4, <2>1
  <2>5. StageShape'
    <3>1. replay'.next \in 1..(fence + 1) /\ replay'.next - 1 = replay.next /\ cursor >= replay'.next - 2
      BY <1>2, <1>4, <1>5, <2>4
    <3> QED  BY <1>1, <1>3, <2>1, <2>4, <3>1 DEF StageShape
  <2>6. WireCovers'
    <3>1. \A n \in 1..replay.next : n > cursor => n = replay.next
      BY <1>2, <1>4 DEF NoData
    <3>2. 1 \in 1..1
      OBVIOUS
    <3> QED  BY <1>1, <2>2, <2>3, <3>1, <3>2 DEF WireCovers
  <2>7. HeldCovers'
    BY <1>1, <1>3, <2>1 DEF IInv, HeldCovers, SupersededBy, IsUpdate
  <2>8. \A i \in DOMAIN wire' : wire'[i] # Synchronized
    BY <2>2, <2>3
  <2> QED  BY <1>1, <1>2, <2>1, <2>3, <2>4, <2>5, <2>6, <2>7, <2>8, SendingKeeps
<1>6. CASE ~(replay.next <= replay.last)
  <2>1. stage' = "marker" /\ replay' = NoReplay /\ wire' = <<>>
    BY <1>1, <1>6 DEF SendReplay
  <2>2. replay' \in [next: Nat, last: Nat] /\ wire' \in Seq(Items) /\ DOMAIN wire' = {}
    BY <2>1 DEF NoReplay
  <2>3. StageShape'
    <3>1. cursor >= fence
      BY <1>2, <1>4, <1>6
    <3> QED  BY <1>1, <1>3, <2>1, <3>1 DEF StageShape
  <2>4. WireCovers' /\ HeldCovers'
    BY <1>1, <1>3, <2>1, <2>2 DEF IInv, WireCovers, HeldCovers, SupersededBy, IsUpdate
  <2> QED  BY <1>1, <1>2, <2>1, <2>2, <2>3, <2>4, SendingKeeps
<1> QED  BY <1>5, <1>6

LEMMA RetryStep ==
    ASSUME IInv, Retry
    PROVE  IInv'
<1>1. /\ stage = "failed" /\ stage' = "none" /\ wire = <<>> /\ wire' = <<>>
      /\ UNCHANGED <<replay, fence, log, coalescerVars, cursor, shown, live>>
  BY DEF Retry, clientVars, IInv, StageShape
<1>2. UNCHANGED <<puller, output>> /\ puller = "off" /\ ~live /\ Marker \notin Elements(output)
  BY <1>1, CoalescerStays, NotYetLive DEF IInv
<1>3. /\ replay' \in [next: Nat, last: Nat] /\ fence' \in 0..Len(log) /\ wire' \in Seq(Items)
      /\ DOMAIN wire' = {}
  BY <1>1 DEF IInv, StreamTypeOK, TypeOK
<1>4. StageShape' /\ WireCovers' /\ HeldCovers'
  BY <1>1, <1>2, <1>3 DEF StageShape, WireCovers, HeldCovers
<1> QED  BY <1>1, <1>3, <1>4, SendingKeeps

\* The marker is offered when the replay, or the snapshot, has been applied.
LEMMA SendMarkerStep ==
    ASSUME IInv, SendMarker
    PROVE  IInv'
<1>1. /\ stage = "marker" /\ stage' = "live" /\ wire = <<>> /\ OfferMarker
      /\ fence' = (IF pulled > fence THEN pulled ELSE fence)
      /\ batch = <<>> /\ ~failed
      /\ UNCHANGED <<log, pulled, puller, taken, replay, wire, cursor, shown, live>>
  BY DEF SendMarker, OfferMarker, clientVars
<1>2. /\ Len(log) \in Nat /\ pulled \in 0..Len(log) /\ fence \in 0..Len(log)
      /\ cursor \in {NoData} \cup (0..Len(log)) /\ cursor >= fence
  BY <1>1, QueueTypes DEF IInv, CoalescerInv, StreamTypeOK, TypeOK, StageShape, Snapshot
<1>3. /\ puller = "off" /\ taken = <<>> /\ ~live /\ Marker \notin Elements(output)
  BY <1>1, NotYetLive
<1>4. /\ CoalescerInv' /\ HeldStay
      /\ \A i \in DOMAIN output' :
            output'[i] = Marker /\ pulled \in Held => \E j \in 1..(i - 1) : output'[j] = pulled
  BY <1>1, <1>3, MarkerKeeps DEF IInv
<1>5. StreamTypeOK'
  <2>1. fence' \in 0..Len(log)
    BY <1>1, <1>2
  <2> QED  BY <1>1, <1>4, <2>1 DEF IInv, CoalescerInv, StreamTypeOK, TypeOK, Items
<1>6. StageShape' /\ WireCovers' /\ LiveMeansCaughtUp'
  BY <1>1, <1>3 DEF StageShape, WireCovers, LiveMeansCaughtUp
<1>7. NothingLost'
  BY <1>1 DEF IInv, NothingLost, Superseded, IsUpdate
<1>8. HeldCovers'
  <2>1. \A n \in 1..pulled : n > cursor => n \in Held \/ SupersededBy(n, pulled)
    <3>1. \A n \in 1..pulled : n > cursor => n > fence
      BY <1>2 DEF NoData
    <3> QED  BY <1>1, <3>1 DEF IInv, HeldCovers
  <2> QED  BY <1>1, <1>4, <2>1 DEF HeldCovers, HeldStay, SupersededBy, IsUpdate
<1>9. MarkerBehindFence'
  <2>1. CASE cursor >= fence'
    BY <1>1, <2>1 DEF MarkerBehindFence
  <2>2. CASE ~(cursor >= fence')
    <3>1. fence' = pulled /\ pulled > fence /\ ~(cursor >= pulled) /\ pulled # Marker
      BY <1>1, <1>2, <2>2 DEF NoData, Marker
    <3>2. pulled \in 1..pulled /\ ~SupersededBy(pulled, pulled)
      BY <1>2, <3>1 DEF SupersededBy
    <3>3. pulled \in Held
      BY <1>1, <3>1, <3>2 DEF IInv, HeldCovers
    <3>4. \A i \in DOMAIN output' : output'[i] = Marker =>
              \E j \in 1..(i - 1) : output'[j] = fence' /\ fence' # Marker
      BY <1>4, <3>1, <3>3
    <3>5. DOMAIN taken' = {} /\ DOMAIN wire' = {}
      BY <1>1, <1>3
    <3> QED  BY <3>4, <3>5 DEF MarkerBehindFence, FenceAhead
  <2> QED  BY <2>1, <2>2
<1> QED  BY <1>4, <1>5, <1>6, <1>7, <1>8, <1>9 DEF IInv

LEMMA AskForMoreStep ==
    ASSUME IInv, AskForMore
    PROVE  IInv'
<1>1. /\ stage = "live" /\ wire = <<>> /\ Acknowledge /\ failed' = failed
      /\ UNCHANGED <<log, pulled, output, taken, stage, replay, wire, cursor, shown, live, fence>>
  BY DEF AskForMore, Acknowledge, clientVars
<1>2. CoalescerInv' /\ Held' = Held
  BY <1>1, AcknowledgeKeeps DEF IInv
<1>3. StreamTypeOK' /\ WireCovers' /\ NothingLost' /\ LiveMeansCaughtUp'
  BY <1>1, <1>2, ClientStays DEF CoalescerInv
<1>4. StageShape'
  BY <1>1 DEF StageShape
<1>5. HeldCovers'
  BY <1>1, <1>2 DEF IInv, HeldCovers, Arriving, SupersededBy, IsUpdate
<1>6. MarkerBehindFence'
  BY <1>1 DEF IInv, MarkerBehindFence, FenceAhead
<1> QED  BY <1>2, <1>3, <1>4, <1>5, <1>6 DEF IInv

\* A batch, as it is sent.
LEMMA WiredItems ==
    ASSUME Len(log) \in Nat, NEW s \in Seq(0..Len(log))
    PROVE  /\ Wired(s) \in Seq(Items) /\ DOMAIN Wired(s) = DOMAIN s /\ DOMAIN s = 1..Len(s)
           /\ \A i \in DOMAIN s :
                 /\ s[i] \in 0..Len(log) /\ Wired(s)[i].sequence = s[i]
                 /\ Wired(s)[i].kind \in {"event", "synchronized"}
                 /\ Wired(s)[i] = Synchronized => s[i] = Marker
                 /\ s[i] # Marker => Wired(s)[i] = Event(s[i])
                 /\ Wired(s)[i].kind = "event" => s[i] # Marker
<1>1. DOMAIN s = 1..Len(s) /\ Len(s) \in Nat /\ \A i \in DOMAIN s : s[i] \in 0..Len(log)
  OBVIOUS
<1>2. \A i \in DOMAIN s : (s[i] = Marker => Wired(s)[i] = Synchronized)
                          /\ (s[i] # Marker => Wired(s)[i] = Event(s[i]))
  BY DEF Wired
<1>3. \A n \in 0..Len(log) : n # Marker => n \in 1..Len(log) /\ Event(n) \in Items
  BY DEF Marker, Items, Event
<1>4. Synchronized \in Items /\ \A n : Event(n) # Synchronized
  BY DEF Items, Synchronized, Event
<1>5. \A i \in DOMAIN s : Wired(s)[i] \in Items
  BY <1>1, <1>2, <1>3, <1>4
<1>6. Wired(s) \in Seq(Items)
  <2>1. Wired(s) = [i \in 1..Len(s) |-> Wired(s)[i]]
    BY <1>1 DEF Wired
  <2> QED  BY <1>1, <1>5, <2>1
<1>7. DOMAIN Wired(s) = DOMAIN s
  BY DEF Wired
<1>8. /\ Synchronized.kind = "synchronized" /\ Synchronized.sequence = Marker
      /\ \A n : Event(n).kind = "event" /\ Event(n).sequence = n
  BY DEF Synchronized, Event
<1> QED  BY <1>1, <1>2, <1>4, <1>6, <1>7, <1>8

LEMMA SendLiveStep ==
    ASSUME IInv, SendLive
    PROVE  IInv'
<1>1. /\ stage = "live" /\ Deliver /\ wire' = Wired(taken) /\ ~failed
      /\ inFlight' = taken /\ taken' = <<>> /\ puller' = "idle"
      /\ UNCHANGED <<log, pulled, batch, pending, output, failed>>
      /\ UNCHANGED <<stage, replay, cursor, shown, live, fence>>
  BY DEF SendLive, Deliver, budgetVars, clientVars
<1>2. CoalescerInv' /\ puller = "pulling" /\ Marker \notin Elements(output)
  BY <1>1, DeliverKeeps DEF IInv
<1>3. wire = <<>> /\ Arriving = {}
  BY <1>2 DEF IInv, StageShape, Arriving
<1>4. /\ CoalescerTypeOK /\ Len(log) \in Nat /\ pulled \in 0..Len(log)
      /\ taken \in Seq(0..Len(log)) /\ cursor \in {NoData} \cup (0..Len(log))
      /\ Elements(output) \subseteq 0..Len(log) /\ Elements(pending) \subseteq 1..Len(log)
      /\ Elements(batch) \subseteq 1..Len(log)
  BY QueueTypes DEF IInv, CoalescerInv, CoalescerTypeOK, StreamTypeOK, TypeOK
<1>5. /\ wire' \in Seq(Items) /\ DOMAIN wire' = DOMAIN taken /\ DOMAIN taken = 1..Len(taken)
      /\ \A i \in DOMAIN taken :
            /\ taken[i] \in 0..Len(log) /\ wire'[i].sequence = taken[i]
            /\ wire'[i].kind \in {"event", "synchronized"}
            /\ wire'[i] = Synchronized => taken[i] = Marker
            /\ taken[i] # Marker => wire'[i] = Event(taken[i])
            /\ wire'[i].kind = "event" => taken[i] # Marker
  BY <1>1, <1>4, WiredItems
<1>6. StreamTypeOK'
  BY <1>1, <1>2, <1>5 DEF IInv, CoalescerInv, StreamTypeOK, TypeOK, Items
<1>7. StageShape'
  BY <1>1, <1>2, <1>5 DEF StageShape
<1>8. NothingLost' /\ LiveMeansCaughtUp'
  BY <1>1 DEF IInv, NothingLost, LiveMeansCaughtUp, Superseded, IsUpdate
<1>9. /\ Arriving' = Elements(taken)
      /\ Held \subseteq Held' \cup Elements(taken)
  BY <1>1, <1>5 DEF Arriving, Elements, Held
<1>10. HeldCovers'
  BY <1>1, <1>3, <1>9 DEF IInv, HeldCovers, SupersededBy, IsUpdate
<1>11. MarkerBehindFence'
  <2>1. DOMAIN taken' = {}
    BY <1>1
  <2>2. \A i \in DOMAIN output : output[i] # Marker
    BY <1>2 DEF Elements
  <2>3. ASSUME NEW i \in DOMAIN taken, ~(cursor >= fence), wire'[i] = Synchronized
        PROVE  \E j \in 1..(i - 1) : wire'[j] = Event(fence)
    <3>1. PICK j \in 1..(i - 1) : taken[j] = fence /\ fence # Marker
      BY <1>5, <2>3 DEF IInv, MarkerBehindFence, FenceAhead
    <3>2. j \in DOMAIN taken
      BY <1>4, <1>5, <2>3
    <3> QED  BY <1>5, <3>1, <3>2
  <2> QED  BY <1>1, <1>5, <2>1, <2>2, <2>3 DEF MarkerBehindFence
<1>12. WireCovers'
  <2> SUFFICES ASSUME NEW i \in DOMAIN taken, taken[i] # Marker,
                      NEW n \in 1..taken[i], n > cursor, ~Superseded(n)
               PROVE  \E j \in 1..i : wire'[j].sequence = n
    BY <1>1, <1>5 DEF WireCovers, Superseded, IsUpdate
  <2>1. taken[i] \in Elements(taken) /\ taken[i] \in Nat /\ n # Marker /\ taken[i] <= pulled
    <3>1. taken[i] \in Elements(taken)
      BY DEF Elements
    <3>2. taken[i] <= pulled
      BY <3>1 DEF IInv, CoalescerInv, HeldInOrder, Held
    <3> QED  BY <1>5, <3>1, <3>2 DEF Marker
  <2>2. n \in 1..pulled /\ ~SupersededBy(n, pulled)
    <3>1. \A m \in (n + 1)..pulled : m \in (n + 1)..Len(log)
      BY <1>4
    <3> QED  BY <1>4, <2>1, <3>1 DEF Superseded, SupersededBy
  <2>3. n \in Held
    BY <1>1, <1>3, <2>2 DEF IInv, HeldCovers
  <2>4. n \notin Elements(output) \cup Elements(pending) \cup Elements(batch)
    <3>1. n \in Elements(output) \cup Elements(pending) \cup Elements(batch) => taken[i] < n
      BY <2>1 DEF IInv, CoalescerInv, HeldInOrder, Before, Sending
    <3> QED  BY <2>1, <3>1
  <2>5. PICK j \in DOMAIN taken : taken[j] = n
    <3>1. n \in Elements(taken)
      BY <2>3, <2>4 DEF Held
    <3> QED  BY <3>1 DEF Elements
  <2>6. j <= i
    <3>1. i < j => taken[i] < taken[j]
      BY <2>1, <2>5 DEF IInv, CoalescerInv, HeldInOrder, InOrder
    <3> QED  BY <1>5, <2>1, <2>5, <3>1
  <2> QED  BY <1>5, <2>5, <2>6
<1> QED  BY <1>2, <1>6, <1>7, <1>8, <1>10, <1>11, <1>12 DEF IInv

-----------------------------------------------------------------------------
(* The client.                                                              *)

\* What the client has yet to apply, but for the first of it.
LEMMA RestOfWire ==
    ASSUME IInv, wire # <<>>
    PROVE  /\ wire \in Seq(Items) /\ Tail(wire) \in Seq(Items) /\ Head(wire) = wire[1]
           /\ wire[1] \in Items /\ 1 \in DOMAIN wire
           /\ \A i \in DOMAIN Tail(wire) : i \in Nat /\ i + 1 \in DOMAIN wire /\ Tail(wire)[i] = wire[i + 1]
           /\ \A i \in DOMAIN wire : i = 1 \/ (i - 1 \in DOMAIN Tail(wire) /\ Tail(wire)[i - 1] = wire[i])
           /\ \A i \in DOMAIN wire : i \in Nat /\ i >= 1
<1>1. wire \in Seq(Items)
  BY DEF IInv, StreamTypeOK
<1> DEFINE r == Tail(wire)
<1>2. /\ r \in Seq(Items) /\ Len(wire) \in Nat /\ Len(wire) >= 1 /\ DOMAIN wire = 1..Len(wire)
      /\ DOMAIN r = 1..(Len(wire) - 1) /\ Head(wire) = wire[1] /\ wire[1] \in Items
      /\ \A i \in 1..(Len(wire) - 1) : r[i] = wire[i + 1]
  BY <1>1
<1> HIDE DEF r
<1>3. \A i \in 1..(Len(wire) - 1) : i + 1 \in 1..Len(wire) /\ i \in Nat
  BY <1>2
<1>4. \A i \in 1..Len(wire) : i = 1 \/ (i - 1 \in 1..(Len(wire) - 1) /\ (i - 1) + 1 = i)
  BY <1>2
<1>5. \A i \in DOMAIN wire : i = 1 \/ (i - 1 \in DOMAIN r /\ r[i - 1] = wire[i])
  BY <1>2, <1>4
<1> QED  BY <1>1, <1>2, <1>3, <1>5 DEF r

\* The parts of the invariant that an item applied may disturb.
LEMMA AppliedKeeps ==
    ASSUME IInv, ApplyItem, cursor' \in {NoData} \cup (0..Len(log)), shown' \subseteq 1..Len(log),
           live' \in BOOLEAN, StageShape', WireCovers', HeldCovers', MarkerBehindFence',
           NothingLost', LiveMeansCaughtUp'
    PROVE  IInv'
<1>1. /\ wire # <<>> /\ wire' = Tail(wire)
      /\ UNCHANGED <<log, coalescerVars, stage, replay, fence>>
  BY DEF ApplyItem
<1>2. CoalescerInv'
  BY <1>1, CoalescerStays DEF IInv
<1>3. wire' \in Seq(Items)' /\ \A i \in DOMAIN wire' : wire'[i].kind \in {"event", "snapshot", "synchronized"}
  <2>1. wire' \in Seq(Items) /\ \A i \in DOMAIN wire' : wire'[i] \in Items
    BY <1>1, RestOfWire
  <2>2. Items' = Items
    BY <1>1 DEF Items
  <2>3. \A item \in Items : item.kind \in {"event", "snapshot", "synchronized"}
    BY DEF Items, Synchronized
  <2> QED  BY <2>1, <2>2, <2>3
<1>4. StreamTypeOK'
  BY <1>1, <1>2, <1>3 DEF IInv, CoalescerInv, StreamTypeOK, TypeOK
<1> QED  BY <1>2, <1>4 DEF IInv

\* While something is on its way, nothing is taken and no marker waits.
LEMMA Waiting ==
    ASSUME IInv, wire # <<>>
    PROVE  /\ stage \in {"replay", "marker", "live"}
           /\ puller # "pulling" /\ Marker \notin Elements(output)
           /\ \A i \in DOMAIN output : output[i] # Marker
           /\ taken = <<>> /\ DOMAIN taken = {}
BY DEF IInv, StageShape, StreamTypeOK, TypeOK, CoalescerInv, OneBatch, Elements

\* A marker comes when the client has what it stands for.
LEMMA SynchronizedStep ==
    ASSUME IInv, ApplyItem, wire[1].kind = "synchronized"
    PROVE  IInv'
<1>1. /\ wire # <<>> /\ wire' = Tail(wire)
      /\ UNCHANGED <<log, coalescerVars, stage, replay, fence>>
  BY DEF ApplyItem
<1>2. live' = TRUE /\ UNCHANGED <<cursor, shown>>
  <2>1. Head(wire).kind = "synchronized"
    BY <1>1, RestOfWire
  <2> QED  BY <2>1 DEF ApplyItem
<1>3. /\ stage \in {"replay", "marker", "live"} /\ puller # "pulling"
      /\ Marker \notin Elements(output) /\ \A i \in DOMAIN output : output[i] # Marker
      /\ DOMAIN taken = {}
      /\ UNCHANGED <<pulled, puller, output, taken, failed>> /\ Held' = Held
  BY <1>1, Waiting, CoalescerStays DEF IInv
<1>4. wire[1] = Synchronized /\ wire[1].sequence = Marker
  BY <1>1, RestOfWire DEF Items, Synchronized
<1>5. stage = "live"
  BY <1>1, <1>3, <1>4 DEF IInv, StageShape, Event, Snapshot, Synchronized
<1>6. /\ cursor \in {NoData} \cup (0..Len(log)) /\ fence \in 0..Len(log)
      /\ shown \subseteq 1..Len(log) /\ Len(log) \in Nat /\ pulled \in 0..Len(log)
  BY QueueTypes DEF IInv, CoalescerInv, StreamTypeOK, TypeOK
<1>7. cursor >= fence
  <2>1. 1 \in DOMAIN wire /\ ~\E j \in 1..(1 - 1) : wire[j] = Event(fence)
    BY <1>1, RestOfWire
  <2> QED  BY <1>4, <2>1 DEF IInv, MarkerBehindFence
<1>8. /\ \A i \in DOMAIN wire' : i \in Nat /\ i + 1 \in DOMAIN wire /\ wire'[i] = wire[i + 1]
      /\ \A i \in DOMAIN wire : i = 1 \/ (i - 1 \in DOMAIN wire' /\ wire'[i - 1] = wire[i])
      /\ \A i \in DOMAIN wire : i \in Nat /\ i >= 1
  BY <1>1, RestOfWire
<1>9. StageShape'
  BY <1>1, <1>3, <1>5, <1>8 DEF IInv, StageShape
<1>10. MarkerBehindFence' /\ LiveMeansCaughtUp'
  BY <1>1, <1>2, <1>7 DEF MarkerBehindFence, LiveMeansCaughtUp
<1>11. NothingLost'
  BY <1>1, <1>2 DEF IInv, NothingLost, Superseded, IsUpdate
<1>12. WireCovers'
  <2>0. log' = log /\ cursor' = cursor
    BY <1>1, <1>2
  <2> SUFFICES ASSUME NEW i \in DOMAIN wire', wire'[i].kind = "event",
                      NEW n \in 1..wire'[i].sequence, n > cursor, ~Superseded(n)
               PROVE  \E j \in 1..i : wire'[j].sequence = n
    BY <2>0 DEF WireCovers, Superseded, IsUpdate
  <2>1. i + 1 \in DOMAIN wire /\ wire'[i] = wire[i + 1]
    BY <1>8
  <2>2. PICK j \in 1..(i + 1) : wire[j].sequence = n
    BY <2>1 DEF IInv, WireCovers
  <2>3. j # 1
    BY <1>4, <2>2 DEF Marker
  <2>4. j \in DOMAIN wire
    BY <1>1, <1>8, <2>1, <2>2, RestOfWire
  <2>5. j - 1 \in 1..i /\ wire'[j - 1] = wire[j]
    BY <1>8, <2>2, <2>3, <2>4
  <2> QED  BY <2>2, <2>5
<1>13. HeldCovers'
  <2>1. \A n \in 1..pulled : n \in Arriving => n \in Arriving'
    BY <1>4, <1>8 DEF Arriving, Marker
  <2> QED  BY <1>1, <1>2, <1>3, <2>1 DEF IInv, HeldCovers, SupersededBy, IsUpdate
<1> QED  BY <1>1, <1>2, <1>6, <1>9, <1>10, <1>11, <1>12, <1>13, AppliedKeeps

\* A snapshot is all the client needs, and the last thing before the marker.
LEMMA SnapshotStep ==
    ASSUME IInv, ApplyItem, wire[1].kind = "snapshot"
    PROVE  IInv'
<1>1. /\ wire # <<>> /\ wire' = Tail(wire)
      /\ UNCHANGED <<log, coalescerVars, stage, replay, fence>>
  BY DEF ApplyItem
<1>2. cursor' = wire[1].sequence /\ shown' = 1..wire[1].sequence /\ live' = live
  <2>1. Head(wire) = wire[1]
    BY <1>1, RestOfWire
  <2> QED  BY <2>1 DEF ApplyItem
<1>3. /\ stage \in {"replay", "marker", "live"} /\ puller # "pulling"
      /\ \A i \in DOMAIN output : output[i] # Marker
      /\ DOMAIN taken = {} /\ 1 \in DOMAIN wire
      /\ UNCHANGED <<pulled, puller, output, taken, failed>> /\ Held' = Held
  BY <1>1, Waiting, CoalescerStays, RestOfWire DEF IInv
<1>4. stage = "marker" /\ wire = <<Snapshot(fence)>>
  BY <1>1, <1>3 DEF IInv, StageShape, Event
<1>5. wire' = <<>> /\ cursor' = fence /\ shown' = 1..fence /\ ~live
  BY <1>1, <1>2, <1>4, NotYetLive DEF Snapshot
<1>6. fence \in 0..Len(log) /\ Len(log) \in Nat
  BY QueueTypes DEF IInv, CoalescerInv, StreamTypeOK, TypeOK
<1>7. StageShape'
  BY <1>1, <1>2, <1>3, <1>4, <1>5, <1>6 DEF IInv, StageShape
<1>8. WireCovers' /\ HeldCovers'
  BY <1>1, <1>3, <1>4, <1>5 DEF IInv, WireCovers, HeldCovers, SupersededBy, IsUpdate
<1>9. MarkerBehindFence' /\ LiveMeansCaughtUp' /\ NothingLost'
  BY <1>1, <1>2, <1>5, <1>6 DEF MarkerBehindFence, LiveMeansCaughtUp, NothingLost
<1>10. cursor' \in {NoData} \cup (0..Len(log)) /\ shown' \subseteq 1..Len(log) /\ live' \in BOOLEAN
  BY <1>2, <1>5, <1>6 DEF IInv, StreamTypeOK
<1> QED  BY <1>7, <1>8, <1>9, <1>10, AppliedKeeps

\* An event the client did not have follows what it had, but for updates that a later
\* one supersedes; one that it had is dropped.
LEMMA EventStep ==
    ASSUME IInv, ApplyItem, wire[1].kind = "event"
    PROVE  IInv'
<1> DEFINE s == wire[1].sequence
<1>1. /\ wire # <<>> /\ wire' = Tail(wire)
      /\ UNCHANGED <<log, coalescerVars, stage, replay, fence>>
  BY DEF ApplyItem
<1>2. /\ live' = live
      /\ \/ s > cursor /\ cursor' = s /\ shown' = shown \cup {s}
         \/ ~(s > cursor) /\ cursor' = cursor /\ shown' = shown
  <2>1. Head(wire) = wire[1]
    BY <1>1, RestOfWire
  <2> QED  BY <2>1 DEF ApplyItem
<1>3. /\ stage \in {"replay", "marker", "live"} /\ puller # "pulling"
      /\ Marker \notin Elements(output) /\ \A i \in DOMAIN output : output[i] # Marker
      /\ DOMAIN taken = {}
      /\ UNCHANGED <<pulled, puller, output, taken, failed>> /\ Held' = Held
  BY <1>1, Waiting, CoalescerStays DEF IInv
<1>4. s \in 1..Len(log) /\ wire[1] = Event(s)
  BY <1>1, RestOfWire DEF Items, Event, Synchronized
<1>5. /\ cursor \in {NoData} \cup (0..Len(log)) /\ fence \in 0..Len(log) /\ live \in BOOLEAN
      /\ shown \subseteq 1..Len(log) /\ Len(log) \in Nat /\ pulled \in 0..Len(log)
  BY QueueTypes DEF IInv, CoalescerInv, StreamTypeOK, TypeOK
<1>6. /\ \A i \in DOMAIN wire' : i \in Nat /\ i + 1 \in DOMAIN wire /\ wire'[i] = wire[i + 1]
      /\ \A i \in DOMAIN wire : i = 1 \/ (i - 1 \in DOMAIN wire' /\ wire'[i - 1] = wire[i])
      /\ \A i \in DOMAIN wire : i \in Nat /\ i >= 1
      /\ 1 \in DOMAIN wire
  BY <1>1, RestOfWire
<1> HIDE DEF s
<1>7. /\ cursor' \in {NoData} \cup (0..Len(log)) /\ shown' \subseteq 1..Len(log) /\ live' \in BOOLEAN
      /\ cursor' \in Int /\ cursor \in Int /\ cursor' >= cursor /\ cursor' >= s
  <2>1. cursor \in Int /\ s \in Int /\ cursor \in {NoData} \cup (0..Len(log)) /\ s \in 0..Len(log)
    BY <1>4, <1>5 DEF NoData
  <2>2. live' \in BOOLEAN
    BY <1>2, <1>5
  <2>3. \/ s > cursor /\ cursor' = s /\ shown' = shown \cup {s}
        \/ s <= cursor /\ cursor' = cursor /\ shown' = shown
    BY <1>2, <2>1
  <2>4. shown' \subseteq 1..Len(log)
    BY <1>4, <1>5, <2>3
  <2>5. cursor' \in {NoData} \cup (0..Len(log))
    BY <2>1, <2>3
  <2>6. cursor' \in Int /\ cursor' >= cursor /\ cursor' >= s
    BY <2>1, <2>3
  <2> QED  BY <2>1, <2>2, <2>4, <2>5, <2>6
<1>8. NothingLost'
  <2> SUFFICES ASSUME NEW n \in 1..cursor', ~Superseded(n)
               PROVE  n \in shown'
    BY <1>1 DEF NothingLost, Superseded, IsUpdate
  <2>1. CASE n <= cursor
    BY <1>2, <1>7, <2>1 DEF IInv, NothingLost
  <2>2. CASE n > cursor
    <3>1. s > cursor /\ cursor' = s /\ shown' = shown \cup {s} /\ n \in 1..s
      BY <1>2, <1>7, <2>2
    <3>2. \E j \in 1..1 : wire[j].sequence = n
      BY <1>4, <1>6, <2>2, <3>1 DEF IInv, WireCovers, s
    <3>3. n = s
      BY <3>2 DEF s
    <3> QED  BY <3>1, <3>3
  <2> QED  BY <1>7, <2>1, <2>2
<1>9. WireCovers'
  <2>0. log' = log
    BY <1>1
  <2> SUFFICES ASSUME NEW i \in DOMAIN wire', wire'[i].kind = "event",
                      NEW n \in 1..wire'[i].sequence, n > cursor', ~Superseded(n)
               PROVE  \E j \in 1..i : wire'[j].sequence = n
    BY <2>0 DEF WireCovers, Superseded, IsUpdate
  <2>1. i + 1 \in DOMAIN wire /\ wire'[i] = wire[i + 1] /\ n > cursor /\ n # s
    <3>1. n \in Int
      OBVIOUS
    <3> QED  BY <1>4, <1>6, <1>7, <3>1
  <2>2. PICK j \in 1..(i + 1) : wire[j].sequence = n
    BY <2>1 DEF IInv, WireCovers
  <2>3. j # 1
    BY <2>1, <2>2 DEF s
  <2>4. j \in DOMAIN wire
    BY <1>1, <1>6, <2>1, <2>2, RestOfWire
  <2>5. j - 1 \in 1..i /\ wire'[j - 1] = wire[j]
    BY <1>6, <2>2, <2>3, <2>4
  <2> QED  BY <2>2, <2>5
<1>10. HeldCovers'
  <2>1. \A n \in 1..pulled : n > cursor' => n > cursor /\ n # s
    BY <1>4, <1>7
  <2>2. \A n \in Arriving : n = s \/ n \in Arriving'
    BY <1>6 DEF Arriving, s
  <2> QED  BY <1>1, <1>3, <2>1, <2>2 DEF IInv, HeldCovers, SupersededBy, IsUpdate
<1>11. MarkerBehindFence'
  <2>1. CASE cursor' >= fence
    BY <1>1, <2>1 DEF MarkerBehindFence
  <2>2. CASE ~(cursor' >= fence)
    <3>1. ~(cursor >= fence) /\ s # fence
      BY <1>4, <1>5, <1>7, <2>2
    <3>2. ASSUME NEW i \in DOMAIN wire', wire'[i] = Synchronized
          PROVE  \E j \in 1..(i - 1) : wire'[j] = Event(fence)
      <4>1. i + 1 \in DOMAIN wire /\ wire[i + 1] = Synchronized /\ i \in Nat /\ (i + 1) - 1 = i
        BY <1>6, <3>2
      <4>2. PICK j \in 1..i : wire[j] = Event(fence)
        BY <3>1, <4>1 DEF IInv, MarkerBehindFence
      <4>3. j # 1
        BY <1>4, <3>1, <4>2 DEF Event
      <4>4. j \in DOMAIN wire
        BY <1>1, <1>6, <4>1, <4>2, RestOfWire
      <4>5. j - 1 \in 1..(i - 1) /\ wire'[j - 1] = wire[j]
        BY <1>6, <4>1, <4>2, <4>3, <4>4
      <4> QED  BY <4>2, <4>5
    <3> QED  BY <1>1, <1>3, <3>2 DEF MarkerBehindFence
  <2> QED  BY <2>1, <2>2
<1>12. StageShape'
  <2>1. CASE stage = "live"
    BY <1>1, <1>3, <1>6, <2>1 DEF IInv, StageShape
  <2>2. CASE stage = "replay"
    <3>1. /\ replay.last = fence /\ replay.next \in 1..(fence + 1)
          /\ wire = <<Event(replay.next - 1)>>
      BY <1>1, <2>2 DEF IInv, StageShape
    <3>2. wire' = <<>> /\ cursor' >= replay.next - 1
      BY <1>1, <1>7, <3>1 DEF s, Event
    <3> QED  BY <1>1, <1>2, <1>3, <2>2, <3>1, <3>2 DEF IInv, StageShape
  <2>3. stage # "marker"
    BY <1>1, <1>4 DEF IInv, StageShape, Snapshot, Event
  <2> QED  BY <1>3, <2>1, <2>2, <2>3
<1>13. LiveMeansCaughtUp'
  BY <1>1, <1>2, <1>5, <1>7 DEF IInv, LiveMeansCaughtUp
<1> QED  BY <1>7, <1>8, <1>9, <1>10, <1>11, <1>12, <1>13, AppliedKeeps

LEMMA ApplyItemStep ==
    ASSUME IInv, ApplyItem
    PROVE  IInv'
<1>1. wire # <<>>
  BY DEF ApplyItem
<1>2. wire[1].kind \in {"event", "snapshot", "synchronized"}
  BY <1>1, RestOfWire DEF Items, Synchronized
<1> QED  BY <1>2, SynchronizedStep, SnapshotStep, EventStep

-----------------------------------------------------------------------------
(* The theorems.                                                            *)

LEMMA InitialInvariant == Init => IInv
<1> SUFFICES ASSUME Init PROVE IInv
  OBVIOUS
<1>1. /\ log = <<>> /\ Fresh(0) /\ stage = "none" /\ replay = NoReplay /\ wire = <<>>
      /\ cursor = NoData /\ shown = {} /\ live = FALSE /\ fence = 0
  BY DEF Init
<1>2. Fits({})
  BY FS_EmptySet, CoalescerAssumption DEF Fits
<1>3. Len(log) = 0 /\ log \in Seq(Calls \cup {Other})
  BY <1>1
<1>4. CoalescerTypeOK
  <2>1. pulled = 0 /\ pulled \in 0..Len(log) /\ puller = "off" /\ retained = {}
    BY <1>1, <1>3 DEF Fresh
  <2>2. /\ batch \in Seq(1..Len(log)) /\ pending \in Seq(1..Len(log))
        /\ output \in Seq(0..Len(log)) /\ taken \in Seq(0..Len(log)) /\ inFlight \in Seq(0..Len(log))
    BY <1>1, EmptyQueue DEF Fresh
  <2>3. {window, failed, cleaned, closed} = {FALSE}
    BY <1>1 DEF Fresh
  <2> QED  BY <1>2, <1>3, <2>1, <2>2, <2>3 DEF CoalescerTypeOK
<1>5. Raws(<<>>) = {} /\ Sents(<<>>) = {}
  BY ItemsOf, EmptyQueue
<1>6. CoalescerInv
  BY <1>1, <1>4, <1>5, EmptyQueue
     DEF CoalescerInv, HeldInOrder, OneBatch, ChargesHeld, WindowOpen, Held, Sending, Before, Fresh
<1>7. StreamTypeOK
  <2>1. live \in BOOLEAN
    BY ONLY <1>1, Zenon
  <2>2. replay \in [next: Nat, last: Nat]
    BY <1>1 DEF NoReplay
  <2>3. wire \in Seq(Items) /\ DOMAIN wire = {}
    BY <1>1
  <2> QED  BY <1>1, <1>3, <1>4, <2>1, <2>2, <2>3 DEF StreamTypeOK, TypeOK
<1>8. StageShape
  BY <1>1, EmptyQueue DEF StageShape, Fresh
<1>9. WireCovers /\ HeldCovers /\ MarkerBehindFence /\ NothingLost /\ LiveMeansCaughtUp
  BY <1>1 DEF WireCovers, HeldCovers, MarkerBehindFence, NothingLost, LiveMeansCaughtUp, Fresh, NoData
<1> QED  BY <1>6, <1>7, <1>8, <1>9 DEF IInv

LEMMA StepKeepsInvariant == IInv /\ [Next]_vars => IInv'
<1> SUFFICES ASSUME IInv, [Next]_vars PROVE IInv'
  OBVIOUS
<1>1. CASE Commit
  BY <1>1, CommitStep
<1>2. CASE LoadSnapshot
  BY <1>2, LoadSnapshotStep
<1>3. CASE Subscribe
  BY <1>3, SubscribeStep
<1>4. CASE ReadHead
  BY <1>4, ReadHeadStep
<1>5. CASE SendSnapshot
  BY <1>5, SendSnapshotStep
<1>6. CASE SendReplay
  BY <1>6, SendReplayStep
<1>7. CASE SendMarker
  BY <1>7, SendMarkerStep
<1>8. CASE AskForMore
  BY <1>8, AskForMoreStep
<1>9. CASE SendLive
  BY <1>9, SendLiveStep
<1>10. CASE CoalescerWorks
  BY <1>10, CoalescerWorksKeeps
<1>11. CASE StreamFails \/ ReadFails \/ Resubscribe
  BY <1>11, EndingSteps
<1>12. CASE Retry
  BY <1>12, RetryStep
<1>13. CASE ApplyItem
  BY <1>13, ApplyItemStep
<1>14. CASE UNCHANGED vars
  <2>1. UNCHANGED <<log, coalescerVars, stage, replay, wire, clientVars, fence, disturbances>>
    BY <1>14 DEF vars
  <2>2. UNCHANGED <<stage, replay, wire, cursor, shown, live, fence>>
    BY <2>1 DEF clientVars
  <2>3. /\ CoalescerInv' /\ Held' = Held
        /\ UNCHANGED <<log, pulled, batch, pending, output, puller, taken, inFlight, failed>>
    BY <2>1, CoalescerStays DEF IInv
  <2>4. StreamTypeOK' /\ WireCovers' /\ NothingLost' /\ LiveMeansCaughtUp'
    BY <2>2, <2>3, ClientStays DEF CoalescerInv
  <2>5. StageShape' /\ HeldCovers' /\ MarkerBehindFence'
    BY <2>2, <2>3 DEF IInv, StageShape, HeldCovers, MarkerBehindFence, FenceAhead, Arriving,
                      SupersededBy, IsUpdate
  <2> QED  BY <2>3, <2>4, <2>5 DEF IInv
<1> QED
  BY <1>1, <1>2, <1>3, <1>4, <1>5, <1>6, <1>7, <1>8, <1>9, <1>10, <1>11, <1>12, <1>13, <1>14
     DEF Next

\* What is held, sent and shown is related as IInv says, in every reachable state.
THEOREM StreamInvariant == Spec => []IInv
<1>1. Init => IInv
  BY InitialInvariant
<1>2. IInv /\ [Next]_vars => IInv'
  BY StepKeepsInvariant
<1> QED  BY <1>1, <1>2, PTL DEF Spec

\* The queues hold sequences of the log, and the budget its limit (makeLiveStreamBudget).
THEOREM TypesHold == Spec => []TypeOK
<1>1. IInv => TypeOK
  BY DEF IInv, StreamTypeOK
<1> QED  BY <1>1, StreamInvariant, PTL

\* The budget is charged for exactly what is held, for a batch until its
\* acknowledgement (deliver of makeLiveStreamBudget).
THEOREM BudgetExact == Spec => []ChargesHeld
<1>1. IInv => ChargesHeld
  BY DEF IInv, CoalescerInv
<1> QED  BY <1>1, StreamInvariant, PTL

\* A pending update's window is open (offerAll and flushWindow).
THEOREM WindowsOpen == Spec => []PendingHasWindow
<1>1. IInv => PendingHasWindow
  BY DEF IInv, CoalescerInv, WindowOpen, PendingHasWindow
<1> QED  BY <1>1, StreamInvariant, PTL

\* A client misses no event up to its cursor, but for updates that a later one of the
\* same call supersedes (subscribeThread and makeEnvironmentThreadState).
THEOREM NoEventMissed == Spec => []NothingLost
<1>1. IInv => NothingLost
  BY DEF IInv
<1> QED  BY <1>1, StreamInvariant, PTL

\* A client told it is synchronized has what the marker stands for.
THEOREM MarkerKept == Spec => []LiveMeansCaughtUp
<1>1. IInv => LiveMeansCaughtUp
  BY DEF IInv
<1> QED  BY <1>1, StreamInvariant, PTL
=============================================================================
