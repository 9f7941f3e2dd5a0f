------------------------- MODULE MarketOrdersProofs -------------------------
(***************************************************************************)
(* What GetOrdersByItem returns, for any reply, filter and block size: the *)
(* orders the filter admits, each once, sorted. The comparison is no order *)
(* when it descends, but it is always asked of a later order and an        *)
(* earlier one, and on such pairs it agrees with a strict order of the     *)
(* places in the reply: by the value first, and then by the place.         *)
(***************************************************************************)
EXTENDS MarketOrders, SequenceTheorems, SumTheorems

-----------------------------------------------------------------------------
(* The order of the places. *)

Sortable(s, filter) == s \in Seq(Order) /\ filter \in OrdersFilter

\* A filter that sorts.
Sorts(filter) == filter.sortBy # ""

ValueAt(s, filter, i) == SortValue(s[i], filter.sortBy)

\* The order at place i comes before the one at place j.
Precedes(s, filter, i, j) ==
    IF filter.sortDir = "desc"
    THEN \/ ValueAt(s, filter, j) < ValueAt(s, filter, i)
         \/ ValueAt(s, filter, i) = ValueAt(s, filter, j) /\ j < i
    ELSE \/ ValueAt(s, filter, i) < ValueAt(s, filter, j)
         \/ ValueAt(s, filter, i) = ValueAt(s, filter, j) /\ i < j

\* What orders are sorted by is a number.
LEMMA Values == ASSUME NEW o \in Order, NEW by PROVE SortValue(o, by) \in Int
<1>1. o.platinum \in Int /\ o.quantity \in Int /\ o.reputation \in Int
    BY DEF Order
<1> QED
    BY <1>1 DEF SortValue

\* The places of a reply are ordered strictly, by value and then by place, and the
\* comparison agrees when it asks whether a later place goes before an earlier one.
LEMMA PlacesOrdered ==
    ASSUME NEW s, NEW filter, Sortable(s, filter)
    PROVE  /\ DOMAIN s \subseteq Int
           /\ \A i \in DOMAIN s : ~Precedes(s, filter, i, i)
           /\ \A i, j \in DOMAIN s : i = j \/ Precedes(s, filter, i, j) \/ Precedes(s, filter, j, i)
           /\ \A i, j, k \in DOMAIN s :
                 Precedes(s, filter, i, j) /\ Precedes(s, filter, j, k) => Precedes(s, filter, i, k)
           /\ \A i, j \in DOMAIN s :
                 i < j => (Before(s[j], s[i], filter) <=> Precedes(s, filter, j, i))
<1> DEFINE v(i) == ValueAt(s, filter, i)
<1>1. DOMAIN s \subseteq Int
  <2>1. DOMAIN s = 1..Len(s) /\ Len(s) \in Nat
      BY DEF Sortable
  <2> QED
      BY <2>1
<1>2. \A i \in DOMAIN s : v(i) \in Int
  <2> SUFFICES ASSUME NEW i \in DOMAIN s PROVE v(i) \in Int
      OBVIOUS
  <2>1. s[i] \in Order
      BY ElementOfSeq DEF Sortable
  <2> QED
      BY <2>1, Values DEF ValueAt
<1>3. \A i, j : Precedes(s, filter, i, j) <=>
        IF filter.sortDir = "desc" THEN v(j) < v(i) \/ (v(i) = v(j) /\ j < i)
                                   ELSE v(i) < v(j) \/ (v(i) = v(j) /\ i < j)
    BY DEF Precedes
<1>4. \A i, j : Before(s[j], s[i], filter) <=>
        IF filter.sortDir = "desc" THEN ~(v(j) < v(i)) ELSE v(j) < v(i)
    BY DEF Before, ValueAt
<1> HIDE DEF v
<1>5. CASE filter.sortDir = "desc"
    BY <1>1, <1>2, <1>3, <1>4, <1>5
<1>6. CASE filter.sortDir # "desc"
    BY <1>1, <1>2, <1>3, <1>4, <1>6
<1> QED
    BY <1>5, <1>6

-----------------------------------------------------------------------------
(* Numbers up to a bound. *)

\* A nonempty set of numbers up to n has a greatest one.
LEMMA Greatest ==
    ASSUME NEW n \in Nat, NEW I \in SUBSET (1..n), I # {}
    PROVE  \E x \in I : \A y \in I : x >= y
<1> DEFINE J == {n - x : x \in I}
<1>1. J \in SUBSET Nat /\ J # {}
  <2>1. \A x \in I : n - x \in Nat
      OBVIOUS
  <2>2. PICK x \in I : TRUE
      OBVIOUS
  <2>3. n - x \in J
      BY <2>2
  <2> QED
      BY <2>1, <2>3
<1>2. PICK j \in J : \A k \in J : j <= k
    BY <1>1, Least
<1>3. PICK x \in I : j = n - x
    OBVIOUS
<1>4. ASSUME NEW y \in I PROVE x >= y
  <2>1. j <= n - y
      BY <1>2
  <2> QED
      BY <1>3, <2>1
<1> QED
    BY <1>4

\* What holds of the first number, and of each next one if it holds of the one
\* before, holds of all.
LEMMA StepByStep ==
    ASSUME NEW a \in Int, NEW b \in Int, NEW Good \in SUBSET (a..b),
           a <= b => a \in Good,
           \A k \in Good : k < b => k + 1 \in Good
    PROVE  Good = a..b
<1> DEFINE N == {n \in Nat : a + n <= b => a + n \in Good}
<1>1. N = Nat
  <2>1. 0 \in N
      OBVIOUS
  <2>2. ASSUME NEW n \in N PROVE n + 1 \in N
    <3>1. n \in Nat /\ (a + n) + 1 = a + (n + 1)
        OBVIOUS
    <3>2. a + (n + 1) <= b => a + n \in Good /\ a + n < b
        OBVIOUS
    <3>3. a + (n + 1) <= b => a + (n + 1) \in Good
        BY <3>1, <3>2
    <3> QED
        BY <3>1, <3>3
  <2> HIDE DEF N
  <2>3. N \in SUBSET Nat
      BY DEF N
  <2> QED
      BY <2>1, <2>2, <2>3, NatSetInduction
<1>2. ASSUME NEW k \in a..b PROVE k \in Good
  <2>1. k - a \in Nat /\ a + (k - a) = k
      OBVIOUS
  <2>2. k - a \in N
      BY <1>1, <2>1
  <2> QED
      BY <2>1, <2>2
<1> QED
    BY <1>2

\* A set of numbers up to n with all that are smaller.
LEMMA Initial ==
    ASSUME NEW n \in Nat, NEW D \in SUBSET (1..n),
           \A k \in D : \A j \in 1..n : j < k => j \in D
    PROVE  Cardinality(D) \in 0..n /\ \A k \in 1..n : k \in D <=> k <= Cardinality(D)
<1>1. CASE D = {}
  <2>1. Cardinality(D) = 0
      BY <1>1, FS_EmptySet
  <2> QED
      BY <1>1, <2>1
<1>2. CASE D # {}
  <2>1. PICK x \in D : \A y \in D : x >= y
      BY <1>2, Greatest
  <2>2. x \in 1..n
      OBVIOUS
  <2>3. ASSUME NEW k \in 1..n PROVE k \in D <=> k <= x
    <3>1. k \in D => x >= k
        BY <2>1
    <3>2. k < x => k \in D
        BY <2>1
    <3> QED
        BY <2>1, <2>2, <3>1, <3>2
  <2>4. D = 1..x
    <3>1. \A k \in D : k \in 1..n /\ k \in 1..x
        BY <2>2, <2>3
    <3>2. \A k \in 1..x : k \in 1..n /\ k <= x
        BY <2>2
    <3> QED
        BY <2>3, <3>1, <3>2
  <2>5. Cardinality(1..x) = x
      BY <2>2, FS_Interval
  <2> QED
      BY <2>2, <2>3, <2>4, <2>5
<1> QED
    BY <1>1, <1>2

\* Two lists are laid into one another: each has as many of the other before it as
\* c and d count.
Apart(l, r, c, d) ==
    /\ \A i \in 1..l : i + c[i] \in 1..l + r
    /\ \A j \in 1..r : j + d[j] \in 1..l + r
    /\ \A i, k \in 1..l : i < k => i + c[i] < k + c[k]
    /\ \A j, k \in 1..r : j < k => j + d[j] < k + d[k]
    /\ \A i \in 1..l, j \in 1..r : j <= c[i] => j + d[j] < i + c[i]
    /\ \A i \in 1..l, j \in 1..r : ~(j <= c[i]) => i + c[i] < j + d[j]

\* Two runs that count each other consistently go to different places.
LEMMA PlacesApart ==
    ASSUME NEW l \in Nat, NEW r \in Nat, NEW c \in [1..l -> 0..r], NEW d \in [1..r -> 0..l],
           \A i \in 1..l, j \in 1..r : j <= c[i] <=> ~(i <= d[j])
    PROVE  Apart(l, r, c, d)
<1>1. \A i \in 1..l : c[i] \in 0..r
    OBVIOUS
<1>2. \A j \in 1..r : d[j] \in 0..l
    OBVIOUS
<1>3. ASSUME NEW i \in 1..l, NEW k \in 1..l, i < k PROVE i + c[i] < k + c[k]
  <2>1. CASE c[i] = 0
      BY <1>1, <1>3, <2>1
  <2>2. CASE c[i] # 0
    <3>1. c[i] \in 1..r
        BY <1>1, <2>2
    <3>2. ~(i <= d[c[i]])
        BY <3>1
    <3>3. ~(k <= d[c[i]])
        BY <1>2, <1>3, <3>1, <3>2
    <3>4. c[i] <= c[k]
        BY <3>1, <3>3
    <3> QED
        BY <1>1, <1>3, <3>4
  <2> QED
      BY <2>1, <2>2
<1>4. ASSUME NEW j \in 1..r, NEW k \in 1..r, j < k PROVE j + d[j] < k + d[k]
  <2>1. CASE d[j] = 0
      BY <1>2, <1>4, <2>1
  <2>2. CASE d[j] # 0
    <3>1. d[j] \in 1..l /\ d[j] <= d[j]
        BY <1>2, <2>2
    <3>2. ~(j <= c[d[j]])
        BY <3>1
    <3>3. ~(k <= c[d[j]])
        BY <1>1, <1>4, <3>1, <3>2
    <3>4. d[j] <= d[k]
        BY <3>1, <3>3
    <3> QED
        BY <1>2, <1>4, <3>4
  <2> QED
      BY <2>1, <2>2
<1>5. ASSUME NEW i \in 1..l, NEW j \in 1..r
      PROVE  /\ j <= c[i] => j + d[j] < i + c[i]
             /\ ~(j <= c[i]) => i + c[i] < j + d[j]
  <2>1. c[i] \in Int /\ d[j] \in Int /\ (j <= c[i] <=> ~(i <= d[j]))
      BY <1>1, <1>2
  <2> QED
      BY <2>1
<1>6. \A i \in 1..l : i + c[i] \in 1..l + r
    BY <1>1
<1>7. \A j \in 1..r : j + d[j] \in 1..l + r
    BY <1>2
<1> QED
    BY <1>3, <1>4, <1>5, <1>6, <1>7 DEF Apart

\* Being as many as the places, they leave none free.
Filled(l, r, c, d) ==
    \A k \in 1..l + r : (\E i \in 1..l : i + c[i] = k) \/ (\E j \in 1..r : j + d[j] = k)

\* Places that are apart and as many as there are elements leave none free.
LEMMA PlacesFilled ==
    ASSUME NEW l \in Nat, NEW r \in Nat, NEW c \in [1..l -> 0..r], NEW d \in [1..r -> 0..l],
           Apart(l, r, c, d)
    PROVE  Filled(l, r, c, d)
<1> DEFINE N == 1..l + r
           h == [x \in N |-> IF x <= l THEN x + c[x] ELSE (x - l) + d[x - l]]
<1>1. ASSUME NEW x \in N
      PROVE  \/ x \in 1..l /\ h[x] = x + c[x]
             \/ x - l \in 1..r /\ h[x] = (x - l) + d[x - l] /\ x > l
    OBVIOUS
<1> HIDE DEF h
<1>2. ASSUME NEW x \in N PROVE h[x] \in N
    BY <1>1 DEF Apart
<1>3. \A i \in 1..l : i + c[i] \in Int
    BY DEF Apart
<1>4. \A j \in 1..r : j + d[j] \in Int
    BY DEF Apart
<1>5. ASSUME NEW x \in N, NEW y \in N, x < y PROVE h[x] # h[y]
  <2>1. CASE y \in 1..l /\ h[y] = y + c[y]
    <3>1. x \in 1..l /\ h[x] = x + c[x]
        BY <1>1, <1>5, <2>1
    <3> QED
        BY <1>3, <1>5, <2>1, <3>1 DEF Apart
  <2>2. CASE y - l \in 1..r /\ h[y] = (y - l) + d[y - l] /\ y > l
    <3>1. CASE x \in 1..l /\ h[x] = x + c[x]
      <4> DEFINE j == y - l
      <4>1. j \in 1..r /\ h[y] = j + d[j]
          BY <2>2
      <4> HIDE DEF j
      <4>2. x + c[x] < j + d[j] \/ j + d[j] < x + c[x]
          BY <3>1, <4>1 DEF Apart
      <4> QED
          BY <1>3, <1>4, <3>1, <4>1, <4>2
    <3>2. CASE x - l \in 1..r /\ h[x] = (x - l) + d[x - l] /\ x > l
      <4> DEFINE i == x - l
                 j == y - l
      <4>1. i \in 1..r /\ h[x] = i + d[i] /\ j \in 1..r /\ h[y] = j + d[j] /\ i < j
          BY <1>5, <2>2, <3>2
      <4> HIDE DEF i, j
      <4>2. i + d[i] < j + d[j]
          BY <4>1 DEF Apart
      <4> QED
          BY <1>4, <4>1, <4>2
    <3> QED
        BY <1>1, <3>1, <3>2
  <2> QED
      BY <1>1, <2>1, <2>2
<1>6. h \in Injection(N, N)
  <2>1. h \in [N -> N]
    <3>1. h = [x \in N |-> h[x]]
        BY DEF h
    <3> QED
        BY <1>2, <3>1
  <2>2. \A x, y \in N : h[x] = h[y] => x = y
    <3> SUFFICES ASSUME NEW x \in N, NEW y \in N, h[x] = h[y], x # y PROVE FALSE
        OBVIOUS
    <3>1. x < y \/ y < x
        OBVIOUS
    <3> QED
        BY <1>5, <3>1
  <2> QED
      BY <2>1, <2>2 DEF Injection, IsInjective
<1>7. IsFiniteSet(N)
    BY FS_Interval
<1>8. h \in Surjection(N, N)
    BY <1>6, <1>7, FS_Injection
<1>9. \A k \in N : \E x \in N : h[x] = k
    BY <1>8 DEF Surjection
<1>10. ASSUME NEW k \in N
       PROVE  (\E i \in 1..l : i + c[i] = k) \/ (\E j \in 1..r : j + d[j] = k)
  <2>1. PICK x \in N : h[x] = k
      BY <1>9
  <2> QED
      BY <1>1, <2>1
<1> QED
    BY <1>10 DEF Filled

-----------------------------------------------------------------------------
(* Lists made of the orders at some places, sorted. *)

\* The places p of the orders of t in s: all those of the set, in their order.
Enumerates(t, s, places, filter, p) ==
    /\ t \in Seq(Order)
    /\ p \in [DOMAIN t -> places]
    /\ \A k \in DOMAIN t : t[k] = s[p[k]]
    /\ \A i \in places : \E k \in DOMAIN t : p[k] = i
    /\ \A k, l \in DOMAIN t : k < l => Precedes(s, filter, p[k], p[l])

Sorted(t, s, places, filter) == \E p : Enumerates(t, s, places, filter, p)

\* The list u is t with o put behind its first m orders.
Behind(u, t, m, o) ==
    /\ u \in Seq(Order) /\ Len(u) = Len(t) + 1
    /\ \A k \in 1..Len(t) + 1 : u[k] = IF k <= m THEN t[k] ELSE IF k = m + 1 THEN o ELSE t[k - 1]

\* InsertAt puts the new order behind the first m and moves the others on.
LEMMA InsertAtPlace ==
    ASSUME NEW t \in Seq(Order), NEW o \in Order, NEW m \in 0..Len(t)
    PROVE  Behind(Lists!InsertAt(t, m + 1, o), t, m, o)
<1> DEFINE n  == Len(t)
           l  == SubSeq(t, 1, m)
           r  == SubSeq(t, m + 1, n)
           lo == l \o <<o>>
           u  == lo \o r
<1>1. n \in Nat /\ m \in Int /\ m + 1 - 1 = m /\ m <= n /\ \A k \in 1..n : t[k] \in Order
    BY ElementOfSeq
<1>2. Lists!InsertAt(t, m + 1, o) = u
  <2>1. Lists!InsertAt(t, m + 1, o) = SubSeq(t, 1, (m + 1) - 1) \o <<o>> \o SubSeq(t, m + 1, n)
      BY DEF Lists!InsertAt
  <2>2. (m + 1) - 1 = m
      BY <1>1
  <2> QED
      BY <2>1, <2>2
<1>3. l \in Seq(Order) /\ Len(l) = m /\ \A k \in 1..m : l[k] = t[k]
  <2>1. \A k \in 1..m : t[k] \in Order
      BY <1>1
  <2> QED
      BY <1>1, <2>1, SubSeqProperties
<1>4. r \in Seq(Order) /\ Len(r) = n - m /\ \A k \in 1..n - m : r[k] = t[m + k]
  <2>1. \A k \in m + 1..n : t[k] \in Order
      BY <1>1
  <2>2. /\ r \in Seq(Order) /\ Len(r) = (IF m + 1 <= n THEN n - (m + 1) + 1 ELSE 0)
        /\ \A k \in 1..n - (m + 1) + 1 : r[k] = t[(m + 1) + k - 1]
      BY <1>1, <2>1, SubSeqProperties
  <2> HIDE DEF r
  <2> QED
      BY <1>1, <2>2
<1> HIDE DEF l, r, n
<1>5. <<o>> \in Seq(Order) /\ Len(<<o>>) = 1 /\ <<o>>[1] = o
    OBVIOUS
<1>6. /\ lo \in Seq(Order) /\ Len(lo) = m + 1
      /\ \A k \in 1..m + 1 : lo[k] = IF k <= m THEN t[k] ELSE o
  <2>1. /\ lo \in Seq(Order) /\ Len(lo) = m + 1
        /\ \A k \in 1..m + 1 : lo[k] = IF k <= m THEN l[k] ELSE <<o>>[k - m]
      BY <1>3, <1>5, ConcatProperties
  <2>2. ASSUME NEW k \in 1..m + 1, ~(k <= m) PROVE k - m = 1
      BY <1>1, <2>2
  <2> QED
      BY <1>1, <1>3, <1>5, <2>1, <2>2
<1> HIDE DEF lo
<1>7. /\ u \in Seq(Order) /\ Len(u) = m + 1 + (n - m)
      /\ \A k \in 1..m + 1 + (n - m) :
            u[k] = IF k <= m + 1 THEN lo[k] ELSE r[k - (m + 1)]
  <2>1. /\ u \in Seq(Order) /\ Len(u) = Len(lo) + Len(r)
        /\ \A k \in 1..Len(lo) + Len(r) : u[k] = IF k <= Len(lo) THEN lo[k] ELSE r[k - Len(lo)]
      BY <1>4, <1>6, ConcatProperties
  <2> QED
      BY <1>4, <1>6, <2>1
<1> HIDE DEF u
<1>8. u \in Seq(Order) /\ Len(u) = n + 1
    BY <1>1, <1>7
<1>9. ASSUME NEW k \in 1..n + 1
      PROVE  u[k] = IF k <= m THEN t[k] ELSE IF k = m + 1 THEN o ELSE t[k - 1]
  <2>1. k \in 1..m + 1 + (n - m)
      BY <1>1
  <2>2. CASE k <= m + 1
    <3>1. u[k] = lo[k]
        BY <1>7, <2>1, <2>2
    <3>2. k \in 1..m + 1
        BY <1>1, <2>2
    <3>3. lo[k] = IF k <= m THEN t[k] ELSE o
        BY <1>6, <3>2
    <3> QED
        BY <1>1, <3>1, <3>2, <3>3
  <2>3. CASE ~(k <= m + 1)
    <3>1. k - (m + 1) \in 1..n - m /\ m + (k - (m + 1)) = k - 1
        BY <1>1, <2>3
    <3>2. u[k] = r[k - (m + 1)]
        BY <1>7, <2>1, <2>3
    <3>3. r[k - (m + 1)] = t[k - 1]
        BY <1>4, <3>1
    <3> QED
        BY <1>1, <2>3, <3>2, <3>3
  <2> QED
      BY <2>2, <2>3
<1> QED
    BY <1>2, <1>8, <1>9 DEF Behind, n

\* Where an order is inserted.
InsertsAt(t, o, filter, m) ==
    /\ Inserted(t, o, filter) = Lists!InsertAt(t, m + 1, o)
    /\ m > 0 => ~Before(o, t[m], filter)
    /\ \A k \in m + 1..Len(t) : Before(o, t[k], filter)

\* Inserting an order into a run puts it at the one place the code stops at.
LEMMA InsertedAt ==
    ASSUME NEW t \in Seq(Order), NEW o \in Order, NEW filter
    PROVE  \E m \in 0..Len(t) : InsertsAt(t, o, filter, m)
<1> DEFINE I == {k \in 1..Len(t) : ~Before(o, t[k], filter)}
           m == IF I # {} THEN CHOOSE x \in I : \A y \in I : x >= y ELSE 0
<1>1. Inserted(t, o, filter) = Lists!InsertAt(t, m + 1, o)
    BY DEF Inserted, Lists!SelectLastInSeq, Lists!Max
<1>2. Len(t) \in Nat
    OBVIOUS
<1>3. \A k \in 1..Len(t) : k \in I <=> ~Before(o, t[k], filter)
    OBVIOUS
<1>4. I \in SUBSET (1..Len(t))
    OBVIOUS
<1> HIDE DEF I
<1>5. CASE I = {}
  <2>1. m = 0
      BY <1>5
  <2>2. InsertsAt(t, o, filter, m)
      BY <1>1, <1>2, <1>3, <1>5, <2>1 DEF InsertsAt
  <2> HIDE DEF m
  <2>3. m \in 0..Len(t)
      BY <1>2, <2>1
  <2> QED
      BY <2>2, <2>3
<1>6. CASE I # {}
  <2>1. \E x \in I : \A y \in I : x >= y
      BY <1>2, <1>4, <1>6, Greatest
  <2>2. m \in I /\ \A y \in I : m >= y
      BY <1>6, <2>1
  <2> HIDE DEF m
  <2>3. m \in 1..Len(t) /\ ~Before(o, t[m], filter)
      BY <1>3, <1>4, <2>2
  <2>4. \A k \in m + 1..Len(t) : Before(o, t[k], filter)
    <3> SUFFICES ASSUME NEW k \in m + 1..Len(t), k \in I PROVE FALSE
        BY <1>2, <1>3, <2>3
    <3> QED
        BY <1>2, <2>2, <2>3
  <2>5. InsertsAt(t, o, filter, m)
      BY <1>1, <2>3, <2>4 DEF InsertsAt
  <2>6. m \in 0..Len(t)
      BY <1>2, <2>3
  <2> QED
      BY <2>5, <2>6
<1> QED
    BY <1>5, <1>6

\* An order from behind goes to its place.
LEMMA InsertedSorted ==
    ASSUME NEW s, NEW filter, Sortable(s, filter),
           NEW places \in SUBSET DOMAIN s, NEW i \in DOMAIN s, \A j \in places : j < i,
           NEW t, Sorted(t, s, places, filter)
    PROVE  Sorted(Inserted(t, s[i], filter), s, places \cup {i}, filter)
<1>1. PICK p : Enumerates(t, s, places, filter, p)
    BY DEF Sorted
<1> DEFINE n == Len(t)
           u == Inserted(t, s[i], filter)
<1>2. /\ t \in Seq(Order) /\ n \in Nat /\ DOMAIN t = 1..n
      /\ p \in [1..n -> places]
      /\ \A k \in 1..n : t[k] = s[p[k]]
      /\ \A j \in places : \E k \in 1..n : p[k] = j
      /\ \A k, l \in 1..n : k < l => Precedes(s, filter, p[k], p[l])
  <2>1. t \in Seq(Order) /\ n \in Nat /\ DOMAIN t = 1..n
      BY <1>1 DEF Enumerates
  <2> QED
      BY <1>1, <2>1 DEF Enumerates
<1>3. s[i] \in Order
    BY ElementOfSeq DEF Sortable
<1>4. PICK m \in 0..n : InsertsAt(t, s[i], filter, m)
    BY <1>2, <1>3, InsertedAt
<1>5. /\ u \in Seq(Order) /\ Len(u) = n + 1
      /\ \A k \in 1..n + 1 : u[k] = IF k <= m THEN t[k] ELSE IF k = m + 1 THEN s[i] ELSE t[k - 1]
  <2>1. u = Lists!InsertAt(t, m + 1, s[i])
      BY <1>4 DEF InsertsAt
  <2>2. Behind(Lists!InsertAt(t, m + 1, s[i]), t, m, s[i])
      BY <1>2, <1>3, InsertAtPlace
  <2> HIDE DEF u
  <2>3. Behind(u, t, m, s[i])
      BY <2>1, <2>2
  <2> QED
      BY <2>3 DEF Behind
<1>6. /\ m > 0 => ~Before(s[i], t[m], filter)
      /\ \A k \in m + 1..n : Before(s[i], t[k], filter)
    BY <1>4 DEF InsertsAt
<1>7. DOMAIN u = 1..n + 1
    BY <1>5
<1> HIDE DEF u, n
<1> DEFINE q == [k \in 1..n + 1 |-> IF k <= m THEN p[k] ELSE IF k = m + 1 THEN i ELSE p[k - 1]]
<1>8. ASSUME NEW k \in 1..n
      PROVE  /\ p[k] \in places /\ p[k] \in DOMAIN s
             /\ k <= m => Precedes(s, filter, p[k], i)
             /\ k > m => Precedes(s, filter, i, p[k])
  <2>1. p[k] \in places /\ p[k] \in DOMAIN s /\ t[k] = s[p[k]] /\ p[k] < i
      BY <1>2
  <2>2. CASE k > m
    <3>1. Before(s[i], s[p[k]], filter)
        BY <1>2, <1>6, <2>1, <2>2
    <3> QED
        BY <2>1, <2>2, <3>1, PlacesOrdered
  <2>3. CASE k <= m
    <3>1. m \in 1..n
        BY <1>2, <2>3
    <3>2. p[m] \in places /\ p[m] \in DOMAIN s /\ t[m] = s[p[m]] /\ p[m] < i
        BY <1>2, <3>1
    <3>3. ~Before(s[i], s[p[m]], filter)
        BY <1>6, <3>1, <3>2
    <3>4. Precedes(s, filter, p[m], i)
        BY <3>2, <3>3, PlacesOrdered
    <3>5. k = m \/ Precedes(s, filter, p[k], p[m])
        BY <1>2, <2>3, <3>1
    <3> QED
        BY <2>1, <2>3, <3>2, <3>4, <3>5, PlacesOrdered
  <2> QED
      BY <1>2, <2>1, <2>2, <2>3
<1>9. q \in [1..n + 1 -> places \cup {i}]
  <2> SUFFICES ASSUME NEW k \in 1..n + 1 PROVE q[k] \in places \cup {i}
      OBVIOUS
  <2>1. k <= m => k \in 1..n
      BY <1>2
  <2>2. k > m + 1 => k - 1 \in 1..n
      BY <1>2
  <2> QED
      BY <1>2, <1>8, <2>1, <2>2
<1>10. \A k \in 1..n + 1 : u[k] = s[q[k]]
  <2> SUFFICES ASSUME NEW k \in 1..n + 1 PROVE u[k] = s[q[k]]
      OBVIOUS
  <2>1. k <= m => k \in 1..n
      BY <1>2
  <2>2. k > m + 1 => k - 1 \in 1..n
      BY <1>2
  <2> QED
      BY <1>2, <1>5, <2>1, <2>2
<1>11. ASSUME NEW j \in places \cup {i} PROVE \E k \in 1..n + 1 : q[k] = j
  <2>1. CASE j = i
    <3>1. m + 1 \in 1..n + 1 /\ q[m + 1] = i
        BY <1>2
    <3> QED
        BY <2>1, <3>1
  <2>2. CASE j \in places
    <3>1. PICK k \in 1..n : p[k] = j
        BY <1>2, <2>2
    <3>2. k <= m => k \in 1..n + 1 /\ q[k] = j
        BY <1>2, <3>1
    <3>3. k > m => k + 1 \in 1..n + 1 /\ q[k + 1] = j
      <4>1. k > m => k + 1 \in 1..n + 1 /\ ~(k + 1 <= m) /\ k + 1 # m + 1 /\ (k + 1) - 1 = k
          BY <1>2
      <4> QED
          BY <3>1, <4>1
    <3>4. k <= m \/ k > m
        BY <1>2
    <3> HIDE DEF q
    <3> QED
        BY <3>2, <3>3, <3>4
  <2> QED
      BY <2>1, <2>2
<1>12. ASSUME NEW k \in 1..n + 1, NEW l \in 1..n + 1, k < l
       PROVE  Precedes(s, filter, q[k], q[l])
  <2>1. CASE l <= m
    <3>1. k \in 1..n /\ l \in 1..n /\ q[k] = p[k] /\ q[l] = p[l]
        BY <1>2, <1>12, <2>1
    <3> QED
        BY <1>2, <1>12, <3>1
  <2>2. CASE l = m + 1
    <3>1. k \in 1..n /\ k <= m /\ q[k] = p[k] /\ q[l] = i
        BY <1>2, <1>12, <2>2
    <3> QED
        BY <1>8, <3>1
  <2>3. CASE l > m + 1 /\ k <= m
    <3>1. k \in 1..n /\ l - 1 \in 1..n /\ k < l - 1 /\ q[k] = p[k] /\ q[l] = p[l - 1]
        BY <1>2, <1>12, <2>3
    <3> QED
        BY <1>2, <3>1
  <2>4. CASE l > m + 1 /\ k = m + 1
    <3>1. l - 1 \in 1..n /\ l - 1 > m /\ q[k] = i /\ q[l] = p[l - 1]
        BY <1>2, <1>12, <2>4
    <3> QED
        BY <1>8, <3>1
  <2>5. CASE l > m + 1 /\ k > m + 1
    <3>1. /\ k - 1 \in 1..n /\ l - 1 \in 1..n /\ k - 1 < l - 1
          /\ q[k] = p[k - 1] /\ q[l] = p[l - 1]
        BY <1>2, <1>12, <2>5
    <3> QED
        BY <1>2, <3>1
  <2> QED
      BY <1>2, <1>12, <2>1, <2>2, <2>3, <2>4, <2>5
<1> HIDE DEF q
<1>13. Enumerates(u, s, places \cup {i}, filter, q)
    BY <1>5, <1>7, <1>9, <1>10, <1>11, <1>12 DEF Enumerates
<1> QED
    BY <1>13 DEF Sorted, u

\* What comes of the orders between two places is a list of them, sorted.
LEMMA InsertionSorts ==
    ASSUME NEW s, NEW filter, Sortable(s, filter),
           NEW first \in 0..Len(s), NEW last \in first..Len(s)
    PROVE  Sorted(InsertionSort(s, first, last, filter), s, first + 1..last, filter)
<1> DEFINE E(f, k) == IF k = first THEN <<>> ELSE Inserted(f[k - 1], s[k], filter)
           Is(f, b) == f = [k \in first..b |-> E(f, k)]
           list == CHOOSE f : Is(f, last)
<1>1. /\ first \in Int /\ last \in Int /\ first <= last /\ Len(s) \in Nat
      /\ first \in Nat /\ last <= Len(s) /\ DOMAIN s = 1..Len(s)
  <2>1. Len(s) \in Nat /\ DOMAIN s = 1..Len(s)
      BY DEF Sortable
  <2> QED
      BY <2>1
<1>2. \E f : Is(f, last)
  <2> DEFINE Good == {b \in first..last : \E f : Is(f, b)}
  <2>1. first \in Good
    <3> DEFINE f == [k \in first..first |-> <<>>]
    <3>1. \A k \in first..first : E(f, k) = <<>>
        BY <1>1
    <3> HIDE DEF E
    <3>2. Is(f, first)
        BY <3>1
    <3> HIDE DEF f, Is
    <3>3. first \in first..last /\ \E g : Is(g, first)
        BY <1>1, <3>2
    <3> QED
        BY <3>3
  <2>2. ASSUME NEW b \in Good, b < last PROVE b + 1 \in Good
    <3>1. b \in first..last /\ b + 1 \in first..last /\ b + 1 # first
        BY <1>1, <2>2
    <3>2. PICK f : Is(f, b)
        BY <2>2
    <3> DEFINE g == [k \in first..b + 1 |-> E(f, k)]
    <3>3. \A k \in first..b : g[k] = f[k]
      <4> HIDE DEF E
      <4>1. first..b \subseteq first..b + 1
          BY <1>1, <3>1
      <4> QED
          BY <3>2, <4>1
    <3>4. \A k \in first..b + 1 : E(f, k) = E(g, k)
      <4> HIDE DEF g
      <4>1. \A k \in first..b + 1 : k # first => k - 1 \in first..b
          BY <1>1, <3>1
      <4> QED
          BY <3>3, <4>1
    <3> HIDE DEF E
    <3>5. Is(g, b + 1)
        BY <3>4
    <3> QED
        BY <3>1, <3>5
  <2> HIDE DEF Good
  <2>3. Good \in SUBSET (first..last)
      BY DEF Good
  <2>4. Good = first..last
      BY <1>1, <2>1, <2>2, <2>3, StepByStep
  <2> QED
      BY <1>1, <2>4 DEF Good
<1>3. Is(list, last)
    BY <1>2
<1>4. InsertionSort(s, first, last, filter) = list[last]
    BY DEF InsertionSort
<1> HIDE DEF list
<1>5. list[first] = <<>> /\ \A k \in first + 1..last : list[k] = Inserted(list[k - 1], s[k], filter)
    BY <1>1, <1>3
<1> HIDE DEF Is
<1> DEFINE Good == {k \in first..last : Sorted(list[k], s, first + 1..k, filter)}
<1>6. first \in Good
  <2>1. Enumerates(<<>>, s, first + 1..first, filter, <<>>)
      BY <1>1 DEF Enumerates
  <2> QED
      BY <1>1, <1>5, <2>1 DEF Sorted
<1>7. ASSUME NEW k \in Good, k < last PROVE k + 1 \in Good
  <2>1. /\ k \in first..last /\ k + 1 \in first + 1..last /\ (k + 1) - 1 = k
        /\ k + 1 \in DOMAIN s /\ (first + 1..k) \in SUBSET DOMAIN s
      BY <1>1, <1>7
  <2>2. Sorted(list[k], s, first + 1..k, filter)
      BY <1>7
  <2>3. \A j \in first + 1..k : j < k + 1
      BY <1>1, <2>1
  <2>4. Sorted(Inserted(list[k], s[k + 1], filter), s, (first + 1..k) \cup {k + 1}, filter)
      BY <2>1, <2>2, <2>3, InsertedSorted
  <2>5. (first + 1..k) \cup {k + 1} = first + 1..k + 1
      BY <1>1, <2>1
  <2>6. list[k + 1] = Inserted(list[k], s[k + 1], filter)
      BY <1>5, <2>1
  <2>7. Sorted(list[k + 1], s, first + 1..k + 1, filter)
      BY <2>4, <2>5, <2>6
  <2>8. k + 1 \in first..last
      BY <1>1, <2>1
  <2> QED
      BY <2>7, <2>8
<1> HIDE DEF Good
<1>8. Good \in SUBSET (first..last)
    BY DEF Good
<1>9. Good = first..last
    BY <1>1, <1>6, <1>7, <1>8, StepByStep
<1> QED
    BY <1>1, <1>4, <1>9 DEF Good

\* Two lists of which one has earlier places than the other are merged.
LEMMA MergedSorted ==
    ASSUME NEW s, NEW filter, Sortable(s, filter),
           NEW early \in SUBSET DOMAIN s, NEW late \in SUBSET DOMAIN s,
           \A i \in early, j \in late : i < j,
           NEW left, NEW right, Sorted(left, s, early, filter), Sorted(right, s, late, filter)
    PROVE  Sorted(Merged(left, right, filter), s, early \cup late, filter)
<1>1. PICK p : Enumerates(left, s, early, filter, p)
    BY DEF Sorted
<1>2. PICK q : Enumerates(right, s, late, filter, q)
    BY DEF Sorted
<1> DEFINE l == Len(left)
           r == Len(right)
<1>3. /\ left \in Seq(Order) /\ l \in Nat /\ DOMAIN left = 1..l
      /\ p \in [1..l -> early]
      /\ \A k \in 1..l : left[k] = s[p[k]] /\ left[k] \in Order
      /\ \A i \in early : \E k \in 1..l : p[k] = i
      /\ \A i, k \in 1..l : i < k => Precedes(s, filter, p[i], p[k])
  <2>1. left \in Seq(Order) /\ l \in Nat /\ DOMAIN left = 1..l
      BY <1>1 DEF Enumerates
  <2> QED
      BY <1>1, <2>1, ElementOfSeq DEF Enumerates
<1>4. /\ right \in Seq(Order) /\ r \in Nat /\ DOMAIN right = 1..r
      /\ q \in [1..r -> late]
      /\ \A k \in 1..r : right[k] = s[q[k]] /\ right[k] \in Order
      /\ \A i \in late : \E k \in 1..r : q[k] = i
      /\ \A i, k \in 1..r : i < k => Precedes(s, filter, q[i], q[k])
  <2>1. right \in Seq(Order) /\ r \in Nat /\ DOMAIN right = 1..r
      BY <1>2 DEF Enumerates
  <2> QED
      BY <1>2, <2>1, ElementOfSeq DEF Enumerates
<1> DEFINE C(i) == {j \in DOMAIN right : Before(right[j], left[i], filter)}
           D(j) == {i \in DOMAIN left : ~Before(right[j], left[i], filter)}
           A(i) == i + Cardinality(C(i))
           B(j) == j + Cardinality(D(j))
           m    == [k \in 1..(Len(left) + Len(right)) |->
                        IF \E i \in DOMAIN left : A(i) = k
                        THEN left[CHOOSE i \in DOMAIN left : A(i) = k]
                        ELSE right[CHOOSE j \in DOMAIN right : B(j) = k]]
           P    == [k \in 1..(l + r) |->
                        IF \E i \in 1..l : A(i) = k
                        THEN p[CHOOSE i \in 1..l : A(i) = k]
                        ELSE q[CHOOSE j \in 1..r : B(j) = k]]
           c    == [i \in 1..l |-> Cardinality(C(i))]
           d    == [j \in 1..r |-> Cardinality(D(j))]
<1>5. Merged(left, right, filter) = m
    BY DEF Merged
<1>6. /\ DOMAIN m = 1..l + r /\ DOMAIN P = 1..l + r
      /\ \A k \in 1..l + r :
            IF \E i \in 1..l : A(i) = k
            THEN m[k] = left[CHOOSE i \in 1..l : A(i) = k] /\ P[k] = p[CHOOSE i \in 1..l : A(i) = k]
            ELSE m[k] = right[CHOOSE j \in 1..r : B(j) = k] /\ P[k] = q[CHOOSE j \in 1..r : B(j) = k]
  <2> HIDE DEF A, B
  <2>1. DOMAIN left = 1..l /\ DOMAIN right = 1..r
      BY <1>3, <1>4
  <2>2. m = [k \in 1..(l + r) |->
                IF \E i \in 1..l : A(i) = k
                THEN left[CHOOSE i \in 1..l : A(i) = k]
                ELSE right[CHOOSE j \in 1..r : B(j) = k]]
      BY <2>1
  <2> HIDE DEF m, l, r
  <2> QED
      BY <2>2
<1>7. /\ \A i \in 1..l : A(i) = i + c[i] /\ c[i] = Cardinality(C(i))
      /\ \A j \in 1..r : B(j) = j + d[j] /\ d[j] = Cardinality(D(j))
      /\ c = [i \in 1..l |-> c[i]] /\ d = [j \in 1..r |-> d[j]]
    OBVIOUS
<1>8. \A i \in 1..l, j \in 1..r :
        /\ j \in C(i) <=> Precedes(s, filter, q[j], p[i])
        /\ i \in D(j) <=> ~Precedes(s, filter, q[j], p[i])
  <2> SUFFICES ASSUME NEW i \in 1..l, NEW j \in 1..r
               PROVE  Before(right[j], left[i], filter) <=> Precedes(s, filter, q[j], p[i])
      BY <1>3, <1>4
  <2>1. p[i] \in DOMAIN s /\ q[j] \in DOMAIN s /\ p[i] < q[j]
      BY <1>3, <1>4
  <2>2. right[j] = s[q[j]] /\ left[i] = s[p[i]]
      BY <1>3, <1>4
  <2> QED
      BY <2>1, <2>2, PlacesOrdered
<1>9. \A i \in 1..l, j \in 1..r : p[i] \in DOMAIN s /\ q[j] \in DOMAIN s /\ p[i] < q[j]
    BY <1>3, <1>4
<1>10. \A i : C(i) \in SUBSET (1..r)
    BY <1>4
<1>11. \A j : D(j) \in SUBSET (1..l)
    BY <1>3
<1> HIDE DEF C, D, A, B, c, d, m, P, l, r
<1>12. \A i \in 1..l : c[i] \in 0..r /\ \A j \in 1..r : j \in C(i) <=> j <= c[i]
  <2> SUFFICES ASSUME NEW i \in 1..l
               PROVE  c[i] \in 0..r /\ \A j \in 1..r : j \in C(i) <=> j <= c[i]
      OBVIOUS
  <2>1. ASSUME NEW k \in C(i), NEW j \in 1..r, j < k PROVE j \in C(i)
    <3>1. k \in 1..r
        BY <1>10
    <3>2. Precedes(s, filter, q[j], q[k]) /\ Precedes(s, filter, q[k], p[i])
        BY <1>4, <1>8, <2>1, <3>1
    <3>3. Precedes(s, filter, q[j], p[i])
        BY <1>9, <3>1, <3>2, PlacesOrdered
    <3> QED
        BY <1>8, <3>3
  <2>2. c[i] = Cardinality(C(i))
      BY <1>7
  <2>3. r \in Nat /\ C(i) \in SUBSET (1..r)
      BY <1>4, <1>10
  <2>4. Cardinality(C(i)) \in 0..r /\ \A j \in 1..r : j \in C(i) <=> j <= Cardinality(C(i))
      BY <2>1, <2>3, Initial
  <2> QED
      BY <2>2, <2>4
<1>13. \A j \in 1..r : d[j] \in 0..l /\ \A i \in 1..l : i \in D(j) <=> i <= d[j]
  <2> SUFFICES ASSUME NEW j \in 1..r
               PROVE  d[j] \in 0..l /\ \A i \in 1..l : i \in D(j) <=> i <= d[j]
      OBVIOUS
  <2>1. ASSUME NEW k \in D(j), NEW i \in 1..l, i < k PROVE i \in D(j)
    <3>1. k \in 1..l
        BY <1>11
    <3>2. Precedes(s, filter, p[i], p[k]) /\ ~Precedes(s, filter, q[j], p[k])
        BY <1>3, <1>8, <2>1, <3>1
    <3>3. ~Precedes(s, filter, q[j], p[i])
        BY <1>9, <3>1, <3>2, PlacesOrdered
    <3> QED
        BY <1>8, <3>3
  <2>2. d[j] = Cardinality(D(j))
      BY <1>7
  <2>3. l \in Nat /\ D(j) \in SUBSET (1..l)
      BY <1>3, <1>11
  <2>4. Cardinality(D(j)) \in 0..l /\ \A i \in 1..l : i \in D(j) <=> i <= Cardinality(D(j))
      BY <2>1, <2>3, Initial
  <2> QED
      BY <2>2, <2>4
<1>14. /\ l \in Nat /\ r \in Nat
       /\ c \in [1..l -> 0..r] /\ d \in [1..r -> 0..l]
       /\ \A i \in 1..l, j \in 1..r : j <= c[i] <=> ~(i <= d[j])
  <2>1. c \in [1..l -> 0..r]
      BY <1>7, <1>12
  <2>2. d \in [1..r -> 0..l]
      BY <1>7, <1>13
  <2>3. \A i \in 1..l, j \in 1..r : j <= c[i] <=> ~(i <= d[j])
      BY <1>8, <1>12, <1>13
  <2> QED
      BY <1>3, <1>4, <2>1, <2>2, <2>3
<1>15. Apart(l, r, c, d)
    BY <1>14, PlacesApart
<1>16. ASSUME NEW k \in 1..l + r
       PROVE  (\E i \in 1..l : A(i) = k) \/ (\E j \in 1..r : B(j) = k)
  <2>1. \A n \in 1..l + r : (\E i \in 1..l : i + c[i] = n) \/ (\E j \in 1..r : j + d[j] = n)
    <3>1. Filled(l, r, c, d)
        BY <1>14, <1>15, PlacesFilled
    <3> QED
        BY <3>1 DEF Filled
  <2>2. CASE \E i \in 1..l : i + c[i] = k
    <3>1. PICK i \in 1..l : i + c[i] = k
        BY <2>2
    <3>2. A(i) = i + c[i]
        BY <1>7
    <3>3. A(i) = k
        BY <3>1, <3>2
    <3> QED
        BY <3>3
  <2>3. CASE \E j \in 1..r : j + d[j] = k
    <3>1. PICK j \in 1..r : j + d[j] = k
        BY <2>3
    <3>2. B(j) = j + d[j]
        BY <1>7
    <3>3. B(j) = k
        BY <3>1, <3>2
    <3> QED
        BY <3>3
  <2> QED
      BY <2>1, <2>2, <2>3
<1>17. /\ \A i \in 1..l : A(i) \in 1..l + r
       /\ \A j \in 1..r : B(j) \in 1..l + r
       /\ \A i, k \in 1..l : i < k => A(i) < A(k)
       /\ \A j, k \in 1..r : j < k => B(j) < B(k)
       /\ \A i \in 1..l, j \in 1..r : Precedes(s, filter, q[j], p[i]) => B(j) < A(i)
       /\ \A i \in 1..l, j \in 1..r : ~Precedes(s, filter, q[j], p[i]) => A(i) < B(j)
  <2>1. \A i \in 1..l, j \in 1..r : j <= c[i] <=> Precedes(s, filter, q[j], p[i])
      BY <1>8, <1>12
  <2> QED
      BY <1>7, <1>15, <2>1 DEF Apart
<1>18. \A i \in 1..l : m[A(i)] = left[i] /\ P[A(i)] = p[i]
  <2> SUFFICES ASSUME NEW i \in 1..l PROVE m[A(i)] = left[i] /\ P[A(i)] = p[i]
      OBVIOUS
  <2>1. A(i) \in 1..l + r
      BY <1>17
  <2>2. \A k \in 1..l : A(k) = A(i) => k = i
    <3> SUFFICES ASSUME NEW k \in 1..l, A(k) = A(i), k # i PROVE FALSE
        OBVIOUS
    <3>1. k < i \/ i < k
        OBVIOUS
    <3>2. A(i) < A(i)
        BY <1>17, <3>1
    <3> QED
        BY <1>14, <2>1, <3>2
  <2>3. (CHOOSE k \in 1..l : A(k) = A(i)) = i
      BY <2>2
  <2> QED
      BY <1>6, <2>1, <2>3
<1>19. \A j \in 1..r : m[B(j)] = right[j] /\ P[B(j)] = q[j]
  <2> SUFFICES ASSUME NEW j \in 1..r PROVE m[B(j)] = right[j] /\ P[B(j)] = q[j]
      OBVIOUS
  <2>1. B(j) \in 1..l + r
      BY <1>17
  <2>2. \A k \in 1..r : B(k) = B(j) => k = j
    <3> SUFFICES ASSUME NEW k \in 1..r, B(k) = B(j), k # j PROVE FALSE
        OBVIOUS
    <3>1. k < j \/ j < k
        OBVIOUS
    <3>2. B(j) < B(j)
        BY <1>17, <3>1
    <3> QED
        BY <1>14, <2>1, <3>2
  <2>3. (CHOOSE k \in 1..r : B(k) = B(j)) = j
      BY <2>2
  <2>4. ~\E i \in 1..l : A(i) = B(j)
    <3> SUFFICES ASSUME NEW i \in 1..l, A(i) = B(j) PROVE FALSE
        OBVIOUS
    <3>1. B(j) < B(j)
        BY <1>17
    <3> QED
        BY <1>14, <2>1, <3>1
  <2> QED
      BY <1>6, <2>1, <2>3, <2>4
<1>20. ASSUME NEW k \in 1..l + r
       PROVE  m[k] \in Order /\ P[k] \in early \cup late /\ m[k] = s[P[k]]
  <2>1. CASE \E i \in 1..l : A(i) = k
    <3>1. PICK i \in 1..l : A(i) = k
        BY <2>1
    <3>2. m[k] = left[i] /\ P[k] = p[i]
        BY <1>18, <3>1
    <3>3. left[i] \in Order /\ left[i] = s[p[i]] /\ p[i] \in early
        BY <1>3
    <3> QED
        BY <3>2, <3>3
  <2>2. CASE \E j \in 1..r : B(j) = k
    <3>1. PICK j \in 1..r : B(j) = k
        BY <2>2
    <3>2. m[k] = right[j] /\ P[k] = q[j]
        BY <1>19, <3>1
    <3>3. right[j] \in Order /\ right[j] = s[q[j]] /\ q[j] \in late
        BY <1>4
    <3> QED
        BY <3>2, <3>3
  <2> QED
      BY <1>16, <2>1, <2>2
<1>21. m \in Seq(Order)
  <2>1. ASSUME NEW k \in 1..l + r PROVE m[k] \in Order
      BY <1>20
  <2>2. m = [k \in 1..l + r |-> m[k]]
      BY <1>5, <1>6 DEF m, l, r
  <2>3. l + r \in Nat
      BY <1>14
  <2> QED
      BY <2>1, <2>2, <2>3, IsASeq
<1>22. \A k \in 1..l + r : P[k] \in early \cup late /\ m[k] = s[P[k]]
    BY <1>20
<1>23. P \in [1..l + r -> early \cup late]
  <2>1. P = [k \in 1..l + r |-> P[k]]
      BY DEF P
  <2> QED
      BY <1>22, <2>1
<1>24. ASSUME NEW i \in early \cup late PROVE \E k \in 1..l + r : P[k] = i
  <2>1. CASE i \in early
    <3>1. PICK k \in 1..l : p[k] = i
        BY <1>3, <2>1
    <3>2. A(k) \in 1..l + r /\ P[A(k)] = i
        BY <1>17, <1>18, <3>1
    <3> QED
        BY <3>2
  <2>2. CASE i \in late
    <3>1. PICK k \in 1..r : q[k] = i
        BY <1>4, <2>2
    <3>2. B(k) \in 1..l + r /\ P[B(k)] = i
        BY <1>17, <1>19, <3>1
    <3> QED
        BY <3>2
  <2> QED
      BY <2>1, <2>2
<1>25. ASSUME NEW k \in 1..l + r, NEW n \in 1..l + r, k < n
       PROVE  Precedes(s, filter, P[k], P[n])
  <2>1. \A i \in 1..l, j \in 1..r :
            Precedes(s, filter, q[j], p[i]) \/ Precedes(s, filter, p[i], q[j])
    <3> SUFFICES ASSUME NEW i \in 1..l, NEW j \in 1..r
                 PROVE  Precedes(s, filter, q[j], p[i]) \/ Precedes(s, filter, p[i], q[j])
        OBVIOUS
    <3>1. p[i] \in DOMAIN s /\ q[j] \in DOMAIN s /\ p[i] # q[j]
        BY <1>9, PlacesOrdered
    <3> QED
        BY <3>1, PlacesOrdered
  <2>2. ~(n < k) /\ k # n /\ ~(n < n)
      BY <1>14, <1>25
  <2>3. CASE (\E i \in 1..l : A(i) = k) /\ (\E i \in 1..l : A(i) = n)
    <3>1. PICK i \in 1..l, j \in 1..l : A(i) = k /\ A(j) = n
        BY <2>3
    <3>2. i < j
      <4>1. ~(j < i) /\ i # j
          BY <1>17, <2>2, <3>1
      <4> QED
          BY <4>1
    <3> QED
        BY <1>3, <1>18, <3>1, <3>2
  <2>4. CASE (\E i \in 1..l : A(i) = k) /\ (\E j \in 1..r : B(j) = n)
    <3>1. PICK i \in 1..l, j \in 1..r : A(i) = k /\ B(j) = n
        BY <2>4
    <3>2. ~Precedes(s, filter, q[j], p[i])
        BY <1>17, <2>2, <3>1
    <3> QED
        BY <1>18, <1>19, <2>1, <3>1, <3>2
  <2>5. CASE (\E j \in 1..r : B(j) = k) /\ (\E i \in 1..l : A(i) = n)
    <3>1. PICK i \in 1..l, j \in 1..r : A(i) = n /\ B(j) = k
        BY <2>5
    <3>2. Precedes(s, filter, q[j], p[i])
        BY <1>17, <2>2, <3>1
    <3> QED
        BY <1>18, <1>19, <3>1, <3>2
  <2>6. CASE (\E j \in 1..r : B(j) = k) /\ (\E j \in 1..r : B(j) = n)
    <3>1. PICK i \in 1..r, j \in 1..r : B(i) = k /\ B(j) = n
        BY <2>6
    <3>2. i < j
      <4>1. ~(j < i) /\ i # j
          BY <1>17, <2>2, <3>1
      <4> QED
          BY <4>1
    <3> QED
        BY <1>4, <1>19, <3>1, <3>2
  <2> QED
      BY <1>16, <2>3, <2>4, <2>5, <2>6
<1>26. Enumerates(m, s, early \cup late, filter, P)
    BY <1>6, <1>21, <1>22, <1>23, <1>24, <1>25 DEF Enumerates
<1> QED
    BY <1>5, <1>26 DEF Sorted

-----------------------------------------------------------------------------
(* The blocks. *)

\* The quotient and what is left of a division.
LEMMA Division ==
    ASSUME NEW x \in Nat, NEW y \in Nat \ {0}
    PROVE  x \div y \in Nat /\ (x \div y) * y <= x /\ x < (x \div y) * y + y
    OBVIOUS

\* One block more.
LEMMA Monotone ==
    ASSUME NEW b \in Nat, NEW y \in Nat PROVE (b + 1) * y = b * y + y /\ b * y \in Nat
    OBVIOUS

\* The blocks of the sort cover the list, and the last one ends with it.
LEMMA BlockEnds ==
    ASSUME NEW s, Len(s) \in Nat,
           NEW blocks, blocks = (Len(s) + BlockSize - 1) \div BlockSize
    PROVE  /\ blocks \in Nat
           /\ End(0, s) = 0 /\ End(blocks, s) = Len(s)
           /\ \A b \in Nat : End(b, s) \in 0..Len(s) /\ End(b + 1, s) \in End(b, s)..Len(s)
<1>1. BlockSize \in Nat \ {0}
    BY BlockSizeAssumption
<1>2. Len(s) + BlockSize - 1 \in Nat
    BY <1>1
<1>3. blocks \in Nat /\ Len(s) + BlockSize - 1 < blocks * BlockSize + BlockSize
    BY <1>1, <1>2, Division
<1>4. ASSUME NEW b \in Nat
      PROVE  End(b, s) \in 0..Len(s) /\ End(b + 1, s) \in End(b, s)..Len(s)
  <2>1. (b + 1) * BlockSize = b * BlockSize + BlockSize /\ b * BlockSize \in Nat
      BY <1>1, Monotone
  <2> DEFINE x == b * BlockSize
             y == (b + 1) * BlockSize
  <2>2. y = x + BlockSize /\ x \in Nat
      BY <2>1
  <2>3. /\ End(b, s) = IF x < Len(s) THEN x ELSE Len(s)
        /\ End(b + 1, s) = IF y < Len(s) THEN y ELSE Len(s)
      BY DEF End
  <2> HIDE DEF x, y
  <2> QED
      BY <1>1, <2>2, <2>3
<1>5. End(0, s) = 0
  <2>1. 0 * BlockSize = 0
      BY <1>1
  <2> QED
      BY <2>1 DEF End
<1>6. End(blocks, s) = Len(s)
  <2> DEFINE x == blocks * BlockSize
  <2>1. x \in Nat
      BY <1>1, <1>3, Monotone
  <2>2. Len(s) + BlockSize - 1 < x + BlockSize
      BY <1>3
  <2>3. End(blocks, s) = IF x < Len(s) THEN x ELSE Len(s)
      BY DEF End
  <2> HIDE DEF x
  <2> QED
      BY <1>1, <2>1, <2>2, <2>3
<1> QED
    BY <1>3, <1>4, <1>5, <1>6

\* Sorting block by block and merging sorts the whole list.
LEMMA SliceStableSorts ==
    ASSUME NEW s, NEW filter, Sortable(s, filter)
    PROVE  Sorted(SliceStable(s, filter), s, DOMAIN s, filter)
<1> DEFINE blocks  == (Len(s) + BlockSize - 1) \div BlockSize
           Block(b) == InsertionSort(s, End(b - 1, s), End(b, s), filter)
           E(f, b) == IF b = 0 THEN <<>> ELSE Merged(f[b - 1], Block(b), filter)
           Is(f, n) == f = [b \in 0..n |-> E(f, b)]
           list    == CHOOSE f : Is(f, blocks)
<1>1. Len(s) \in Nat /\ DOMAIN s = 1..Len(s)
    BY DEF Sortable
<1>2. SliceStable(s, filter) = list[blocks]
    BY DEF SliceStable
<1>3. /\ blocks \in Nat
      /\ End(0, s) = 0 /\ End(blocks, s) = Len(s)
      /\ \A b \in Nat : End(b, s) \in 0..Len(s) /\ End(b + 1, s) \in End(b, s)..Len(s)
    BY <1>1, BlockEnds
<1> HIDE DEF blocks, Block
<1>4. 0 \in Int /\ blocks \in Int /\ 0 <= blocks /\ blocks \in 0..blocks
    BY <1>3
<1>5. \E f : Is(f, blocks)
  <2> DEFINE Good == {n \in 0..blocks : \E f : Is(f, n)}
  <2>1. 0 \in Good
    <3> DEFINE f == [b \in 0..0 |-> <<>>]
    <3>1. \A b \in 0..0 : E(f, b) = <<>>
        OBVIOUS
    <3> HIDE DEF E
    <3>2. Is(f, 0)
        BY <3>1
    <3> HIDE DEF f, Is
    <3>3. 0 \in 0..blocks /\ \E g : Is(g, 0)
        BY <1>3, <3>2
    <3> QED
        BY <3>3
  <2>2. ASSUME NEW n \in Good, n < blocks PROVE n + 1 \in Good
    <3>1. n \in 0..blocks /\ n + 1 \in 0..blocks /\ n \in Nat
        BY <1>3, <2>2
    <3>2. PICK f : Is(f, n)
        BY <2>2
    <3> DEFINE g == [b \in 0..n + 1 |-> E(f, b)]
    <3>3. \A b \in 0..n : g[b] = f[b]
      <4> HIDE DEF E
      <4>1. 0..n \subseteq 0..n + 1
          BY <3>1
      <4> QED
          BY <3>2, <4>1
    <3>4. \A b \in 0..n + 1 : E(f, b) = E(g, b)
      <4> HIDE DEF g
      <4>1. \A b \in 0..n + 1 : b # 0 => b - 1 \in 0..n
          BY <3>1
      <4> QED
          BY <3>3, <4>1
    <3> HIDE DEF E
    <3>5. Is(g, n + 1)
        BY <3>4
    <3> QED
        BY <3>1, <3>5
  <2> HIDE DEF Good
  <2>3. Good \in SUBSET (0..blocks)
      BY DEF Good
  <2>4. Good = 0..blocks
      BY <1>4, <2>1, <2>2, <2>3, StepByStep
  <2>5. blocks \in Good
      BY <1>4, <2>4
  <2> QED
      BY <2>5 DEF Good
<1>6. Is(list, blocks)
    BY <1>5
<1> HIDE DEF list
<1>7. list[0] = <<>> /\ \A b \in 1..blocks : list[b] = Merged(list[b - 1], Block(b), filter)
  <2>1. \A b \in 0..blocks : list[b] = E(list, b)
    <3> HIDE DEF E
    <3> QED
        BY <1>6
  <2>2. 0 \in 0..blocks /\ \A b \in 1..blocks : b \in 0..blocks /\ b # 0
      BY <1>4
  <2> QED
      BY <2>1, <2>2
<1> HIDE DEF Is
<1> DEFINE Good == {b \in 0..blocks : Sorted(list[b], s, 1..End(b, s), filter)}
<1>8. 0 \in Good
  <2>1. 1..End(0, s) = {}
      BY <1>3
  <2>2. Enumerates(<<>>, s, {}, filter, <<>>)
      BY DEF Enumerates
  <2>3. Sorted(<<>>, s, {}, filter)
      BY <2>2 DEF Sorted
  <2>4. Sorted(list[0], s, 1..End(0, s), filter)
      BY <1>7, <2>1, <2>3
  <2> QED
      BY <1>4, <2>4
<1>9. ASSUME NEW b \in Good, b < blocks PROVE b + 1 \in Good
  <2>1. b \in Nat /\ b \in 0..blocks /\ b + 1 \in 1..blocks /\ (b + 1) - 1 = b /\ b + 1 \in 0..blocks
      BY <1>3, <1>9
  <2> DEFINE e == End(b, s)
             f == End(b + 1, s)
  <2>2. e \in 0..Len(s) /\ f \in e..Len(s)
      BY <1>3, <2>1
  <2>3. Sorted(list[b], s, 1..e, filter)
      BY <1>9
  <2>4. Block(b + 1) = InsertionSort(s, e, f, filter)
      BY <2>1 DEF Block
  <2> HIDE DEF e, f, Good
  <2>5. Sorted(Block(b + 1), s, e + 1..f, filter)
      BY <2>2, <2>4, InsertionSorts
  <2>6. /\ 1..e \in SUBSET DOMAIN s /\ e + 1..f \in SUBSET DOMAIN s
        /\ \A i \in 1..e, j \in e + 1..f : i < j
        /\ (1..e) \cup (e + 1..f) = 1..f
      BY <1>1, <2>2
  <2>7. Sorted(Merged(list[b], Block(b + 1), filter), s, (1..e) \cup (e + 1..f), filter)
      BY <2>3, <2>5, <2>6, MergedSorted
  <2>8. list[b + 1] = Merged(list[b], Block(b + 1), filter)
      BY <1>7, <2>1
  <2>9. Sorted(list[b + 1], s, 1..f, filter)
      BY <2>6, <2>7, <2>8
  <2> QED
      BY <2>1, <2>9 DEF Good, f
<1> HIDE DEF Good
<1>10. Good \in SUBSET (0..blocks)
    BY DEF Good
<1>11. Good = 0..blocks
    BY <1>8, <1>9, <1>10, <1>4, StepByStep
<1>12. blocks \in Good
    BY <1>11, <1>4
<1> QED
    BY <1>1, <1>2, <1>3, <1>12 DEF Good

-----------------------------------------------------------------------------
(* The filter. *)

\* The places of the orders a filter admits.
Places(s, filter) == {i \in DOMAIN s : Admits(filter, s[i])}

\* The places p of the orders of t in s, as they come.
InPlace(t, s, places, p) ==
    /\ t \in Seq(Order)
    /\ p \in [DOMAIN t -> places]
    /\ \A k \in DOMAIN t : t[k] = s[p[k]]
    /\ \A i \in places : \E k \in DOMAIN t : p[k] = i
    /\ \A k, l \in DOMAIN t : k < l => p[k] < p[l]

\* One more order, from a later place, may be appended.
LEMMA InPlaceAppend ==
    ASSUME NEW s \in Seq(Order), NEW places \in SUBSET DOMAIN s,
           NEW i \in DOMAIN s, \A j \in places : j < i,
           NEW t, \E p : InPlace(t, s, places, p)
    PROVE  \E q : InPlace(Append(t, s[i]), s, places \cup {i}, q)
<1>1. PICK p : InPlace(t, s, places, p)
    OBVIOUS
<1> DEFINE n == Len(t)
           u == Append(t, s[i])
           q == [k \in 1..n + 1 |-> IF k <= n THEN p[k] ELSE i]
<1>2. /\ t \in Seq(Order) /\ n \in Nat /\ DOMAIN t = 1..n
      /\ p \in [1..n -> places]
      /\ \A k \in 1..n : t[k] = s[p[k]]
      /\ \A j \in places : \E k \in 1..n : p[k] = j
      /\ \A k, l \in 1..n : k < l => p[k] < p[l]
  <2>1. t \in Seq(Order) /\ n \in Nat /\ DOMAIN t = 1..n
      BY <1>1 DEF InPlace
  <2> QED
      BY <1>1, <2>1 DEF InPlace
<1>3. s[i] \in Order
    BY ElementOfSeq
<1>4. /\ u \in Seq(Order) /\ DOMAIN u = 1..n + 1 /\ u[n + 1] = s[i]
      /\ \A k \in 1..n : u[k] = t[k]
  <2>1. u \in Seq(Order) /\ Len(u) = n + 1 /\ u[n + 1] = s[i] /\ \A k \in 1..n : u[k] = t[k]
      BY <1>2, <1>3, AppendProperties
  <2>2. DOMAIN u = 1..Len(u)
      BY <2>1
  <2> QED
      BY <2>1, <2>2
<1> HIDE DEF u, n
<1>5. /\ DOMAIN q = 1..n + 1 /\ q[n + 1] = i
      /\ \A k \in 1..n : q[k] = p[k] /\ k \in 1..n + 1
      /\ n + 1 \in 1..n + 1 /\ \A k \in 1..n + 1 : k \in 1..n \/ k = n + 1
      /\ q = [k \in 1..n + 1 |-> q[k]]
    BY <1>2
<1> HIDE DEF q
<1>6. q \in [1..n + 1 -> places \cup {i}]
  <2>1. \A k \in 1..n + 1 : q[k] \in places \cup {i}
      BY <1>2, <1>5
  <2> QED
      BY <1>5, <2>1
<1>7. \A k \in 1..n + 1 : u[k] = s[q[k]]
    BY <1>2, <1>4, <1>5
<1>8. \A j \in places \cup {i} : \E k \in 1..n + 1 : q[k] = j
    BY <1>2, <1>5
<1>9. \A k, l \in 1..n + 1 : k < l => q[k] < q[l]
  <2> SUFFICES ASSUME NEW k \in 1..n + 1, NEW l \in 1..n + 1, k < l PROVE q[k] < q[l]
      OBVIOUS
  <2>1. k \in 1..n
      BY <1>2
  <2>2. CASE l \in 1..n
      BY <1>2, <1>5, <2>1, <2>2
  <2>3. CASE l = n + 1
    <3>1. p[k] \in places
        BY <1>2, <2>1
    <3> QED
        BY <1>5, <2>1, <2>3, <3>1
  <2> QED
      BY <1>5, <2>2, <2>3
<1>10. InPlace(u, s, places \cup {i}, q)
    BY <1>4, <1>6, <1>7, <1>8, <1>9 DEF InPlace
<1> QED
    BY <1>10 DEF u

\* The filter keeps the admitted orders, each once, in the order of the reply.
LEMMA FilterKeeps ==
    ASSUME NEW s \in Seq(Order), NEW filter
    PROVE  \E p : InPlace(ApplyFilter(s, filter), s, Places(s, filter), p)
<1> DEFINE n == Len(s)
           Kept(rest, k) == IF Admits(filter, s[k]) THEN Append(rest, s[k]) ELSE rest
           E(f, k) == IF k = 0 THEN <<>>
                      ELSE IF Admits(filter, s[k]) THEN Append(f[k - 1], s[k])
                      ELSE f[k - 1]
           Is(f, m) == f = [k \in 0..m |-> E(f, k)]
           list    == CHOOSE f : Is(f, Len(s))
<1>1. Len(s) \in Nat /\ DOMAIN s = 1..n
    OBVIOUS
<1>2. ApplyFilter(s, filter) = list[n]
    BY DEF ApplyFilter
<1>3. 0 \in Int /\ n \in Int /\ 0 <= n /\ n \in 0..n
    BY <1>1
<1>4. \E f : Is(f, n)
  <2> DEFINE Good == {m \in 0..n : \E f : Is(f, m)}
  <2>1. 0 \in Good
    <3> DEFINE f == [k \in 0..0 |-> <<>>]
    <3>1. \A k \in 0..0 : E(f, k) = <<>>
        OBVIOUS
    <3> HIDE DEF E
    <3>2. Is(f, 0)
        BY <3>1
    <3> HIDE DEF f, Is
    <3>3. 0 \in 0..n /\ \E g : Is(g, 0)
        BY <1>3, <3>2
    <3> QED
        BY <3>3
  <2>2. ASSUME NEW m \in Good, m < n PROVE m + 1 \in Good
    <3>1. m \in 0..n /\ m + 1 \in 0..n /\ m \in Nat
        BY <1>1, <2>2
    <3>2. PICK f : Is(f, m)
        BY <2>2
    <3> DEFINE g == [k \in 0..m + 1 |-> E(f, k)]
    <3>3. \A k \in 0..m : g[k] = f[k]
      <4> HIDE DEF E
      <4>1. 0..m \subseteq 0..m + 1
          BY <3>1
      <4> QED
          BY <3>2, <4>1
    <3>4. \A k \in 0..m + 1 : E(f, k) = E(g, k)
      <4> HIDE DEF g
      <4>1. \A k \in 0..m + 1 : k # 0 => k - 1 \in 0..m
          BY <3>1
      <4> QED
          BY <3>3, <4>1
    <3> HIDE DEF E
    <3>5. Is(g, m + 1)
        BY <3>4
    <3> QED
        BY <3>1, <3>5
  <2> HIDE DEF Good
  <2>3. Good \in SUBSET (0..n)
      BY DEF Good
  <2>4. Good = 0..n
      BY <1>3, <2>1, <2>2, <2>3, StepByStep
  <2>5. n \in Good
      BY <1>3, <2>4
  <2> QED
      BY <2>5 DEF Good
<1>5. Is(list, n)
    BY <1>4
<1> HIDE DEF list
<1>6. list[0] = <<>> /\ \A k \in 1..n : list[k] = Kept(list[k - 1], k)
  <2>1. \A k \in 0..n : list[k] = E(list, k)
    <3> HIDE DEF E
    <3> QED
        BY <1>5
  <2>2. 0 \in 0..n /\ \A k \in 1..n : k \in 0..n /\ k # 0
      BY <1>3
  <2> QED
      BY <2>1, <2>2
<1> HIDE DEF Is, Kept, n
<1> DEFINE Front(k) == {i \in 1..k : Admits(filter, s[i])}
           Good == {k \in 0..n : \E p : InPlace(list[k], s, Front(k), p)}
<1>7. 0 \in Good
  <2>1. Front(0) = {}
      OBVIOUS
  <2> HIDE DEF Front
  <2>2. InPlace(<<>>, s, {}, <<>>)
      BY DEF InPlace
  <2>3. InPlace(list[0], s, Front(0), <<>>)
      BY <1>6, <2>1, <2>2
  <2> QED
      BY <1>3, <2>3
<1>8. ASSUME NEW k \in Good, k < n PROVE k + 1 \in Good
  <2>1. k \in Nat /\ k \in 0..n /\ k + 1 \in 1..n /\ (k + 1) - 1 = k /\ k + 1 \in 0..n
      BY <1>3, <1>8
  <2>2. \E p : InPlace(list[k], s, Front(k), p)
      BY <1>8
  <2>3. list[k + 1] = Kept(list[k], k + 1)
      BY <1>6, <2>1
  <2>4. CASE Admits(filter, s[k + 1])
    <3>1. /\ Front(k) \in SUBSET DOMAIN s /\ k + 1 \in DOMAIN s
          /\ \A j \in Front(k) : j < k + 1
          /\ Front(k + 1) = Front(k) \cup {k + 1}
        BY <1>1, <1>3, <2>1, <2>4 DEF n
    <3> HIDE DEF Front, Good
    <3>2. \E q : InPlace(Append(list[k], s[k + 1]), s, Front(k) \cup {k + 1}, q)
        BY <2>2, <3>1, InPlaceAppend
    <3>3. \E q : InPlace(list[k + 1], s, Front(k + 1), q)
        BY <2>3, <2>4, <3>1, <3>2 DEF Kept
    <3> QED
        BY <2>1, <3>3 DEF Good
  <2>5. CASE ~Admits(filter, s[k + 1])
    <3>1. Front(k + 1) = Front(k)
        BY <1>3, <2>1, <2>5
    <3> HIDE DEF Front, Good
    <3>2. \E q : InPlace(list[k + 1], s, Front(k + 1), q)
        BY <2>2, <2>3, <2>5, <3>1 DEF Kept
    <3> QED
        BY <2>1, <3>2 DEF Good
  <2> QED
      BY <2>4, <2>5
<1> HIDE DEF Good
<1>9. Good \in SUBSET (0..n)
    BY DEF Good
<1>10. Good = 0..n
    BY <1>3, <1>7, <1>8, <1>9, StepByStep
<1>11. n \in Good
    BY <1>3, <1>10
<1>12. Front(n) = Places(s, filter)
    BY <1>1 DEF Places, n
<1> HIDE DEF Front
<1> QED
    BY <1>2, <1>11, <1>12 DEF Good

-----------------------------------------------------------------------------
(* Both. *)

\* What was sorted after the rest was taken out is sorted in the whole.
LEMMA SortedInWhole ==
    ASSUME NEW s, NEW filter, Sortable(s, filter), NEW places \in SUBSET DOMAIN s,
           NEW u, \E p : InPlace(u, s, places, p),
           NEW t, Sorted(t, u, DOMAIN u, filter)
    PROVE  Sorted(t, s, places, filter)
<1>1. PICK p : InPlace(u, s, places, p)
    OBVIOUS
<1>2. PICK q : Enumerates(t, u, DOMAIN u, filter, q)
    BY DEF Sorted
<1> DEFINE r == [k \in DOMAIN t |-> p[q[k]]]
<1>3. \A k \in DOMAIN t : q[k] \in DOMAIN u /\ r[k] = p[q[k]] /\ r[k] \in places
    BY <1>1, <1>2 DEF InPlace, Enumerates
<1>4. r \in [DOMAIN t -> places]
    BY <1>3
<1> HIDE DEF r
<1>5. ASSUME NEW k \in DOMAIN t PROVE t[k] = s[r[k]]
  <2>1. t[k] = u[q[k]]
      BY <1>2 DEF Enumerates
  <2>2. u[q[k]] = s[p[q[k]]]
      BY <1>1, <1>3 DEF InPlace
  <2> QED
      BY <1>3, <2>1, <2>2
<1>6. ASSUME NEW i \in places PROVE \E k \in DOMAIN t : r[k] = i
  <2>1. PICK j \in DOMAIN u : p[j] = i
      BY <1>1 DEF InPlace
  <2>2. PICK k \in DOMAIN t : q[k] = j
      BY <1>2 DEF Enumerates
  <2> QED
      BY <1>3, <2>1, <2>2
<1>7. ASSUME NEW k \in DOMAIN t, NEW l \in DOMAIN t, k < l
      PROVE  Precedes(s, filter, r[k], r[l])
  <2> DEFINE i == q[k]
             j == q[l]
  <2>1. i \in DOMAIN u /\ j \in DOMAIN u /\ Precedes(u, filter, i, j) /\ r[k] = p[i] /\ r[l] = p[j]
      BY <1>2, <1>3, <1>7 DEF Enumerates
  <2> HIDE DEF i, j
  <2>2. u[i] = s[p[i]] /\ u[j] = s[p[j]]
      BY <1>1, <2>1 DEF InPlace
  <2>3. /\ i < j => p[i] < p[j]
        /\ j < i => p[j] < p[i]
      BY <1>1, <2>1 DEF InPlace
  <2>4. ValueAt(u, filter, i) = ValueAt(s, filter, p[i])
        /\ ValueAt(u, filter, j) = ValueAt(s, filter, p[j])
      BY <2>2 DEF ValueAt
  <2>5. Precedes(s, filter, p[i], p[j])
      BY <2>1, <2>3, <2>4 DEF Precedes
  <2> QED
      BY <2>1, <2>5
<1>8. Enumerates(t, s, places, filter, r)
    BY <1>2, <1>4, <1>5, <1>6, <1>7 DEF Enumerates
<1> QED
    BY <1>8 DEF Sorted

\* Whatever the market lists, GetOrdersByItem returns the orders the filter admits,
\* each once, in the order of their values and, where these are equal, of their
\* places: as listed when it ascends, the other way round when it descends.
THEOREM ListSorted ==
    ASSUME NEW s, NEW filter, Sortable(s, filter), Sorts(filter)
    PROVE  Sorted(GetOrdersByItem(s, filter), s, Places(s, filter), filter)
<1> DEFINE u == ApplyFilter(s, filter)
<1>1. \E p : InPlace(u, s, Places(s, filter), p)
    BY FilterKeeps DEF Sortable
<1> HIDE DEF u
<1>2. Sortable(u, filter)
  <2>1. u \in Seq(Order)
      BY <1>1 DEF InPlace
  <2> QED
      BY <2>1 DEF Sortable
<1>3. Sorted(SliceStable(u, filter), u, DOMAIN u, filter)
    BY <1>2, SliceStableSorts
<1>4. Places(s, filter) \in SUBSET DOMAIN s
    BY DEF Places
<1>5. Sorted(SliceStable(u, filter), s, Places(s, filter), filter)
    BY <1>1, <1>3, <1>4, SortedInWhole
<1>6. GetOrdersByItem(s, filter) = SliceStable(u, filter)
    BY DEF GetOrdersByItem, Sorts, u
<1> QED
    BY <1>5, <1>6

-----------------------------------------------------------------------------
(* What is known of a list that is sorted. *)

OnceEach(t, p) == \A k, l \in DOMAIN t : p[k] = p[l] => k = l

\* A list has as many orders as it has places, and no place twice.
LEMMA AsMany ==
    ASSUME NEW s, NEW filter, Sortable(s, filter), NEW places \in SUBSET DOMAIN s,
           NEW t, NEW p, Enumerates(t, s, places, filter, p)
    PROVE  /\ Len(t) = Cardinality(places) /\ IsFiniteSet(places)
           /\ OnceEach(t, p)
<1>1. /\ t \in Seq(Order) /\ Len(t) \in Nat /\ DOMAIN t = 1..Len(t)
      /\ p \in [1..Len(t) -> places]
      /\ \A i \in places : \E k \in 1..Len(t) : p[k] = i
      /\ \A k, l \in 1..Len(t) : k < l => Precedes(s, filter, p[k], p[l])
  <2>1. t \in Seq(Order) /\ Len(t) \in Nat /\ DOMAIN t = 1..Len(t)
      BY DEF Enumerates
  <2> QED
      BY <2>1 DEF Enumerates
<1>2. ASSUME NEW k \in 1..Len(t), NEW l \in 1..Len(t), p[k] = p[l] PROVE k = l
  <2> SUFFICES ASSUME k # l PROVE FALSE
      OBVIOUS
  <2>1. k < l \/ l < k
      BY <1>1
  <2>2. Precedes(s, filter, p[k], p[k])
      BY <1>1, <1>2, <2>1
  <2>3. p[k] \in DOMAIN s
      BY <1>1
  <2> QED
      BY <2>2, <2>3, PlacesOrdered
<1>3. ExistsBijection(1..Len(t), places)
  <2>1. p \in Injection(1..Len(t), places)
    <3>1. p \in [1..Len(t) -> places]
        BY <1>1
    <3>2. \A k, l \in 1..Len(t) : p[k] = p[l] => k = l
        BY <1>2
    <3> QED
        BY <3>1, <3>2 DEF Injection, IsInjective
  <2>2. p \in Surjection(1..Len(t), places)
      BY <1>1 DEF Surjection
  <2> QED
      BY <2>1, <2>2 DEF ExistsBijection, Bijection
<1>4. IsFiniteSet(1..Len(t)) /\ Cardinality(1..Len(t)) = Len(t)
  <2>1. \A m \in Nat : IsFiniteSet(1..m) /\ Cardinality(1..m) = m
      BY FS_Interval
  <2> QED
      BY <1>1, <2>1
<1>5. IsFiniteSet(places) /\ Cardinality(places) = Len(t)
    BY <1>3, <1>4, FS_Bijection
<1> QED
    BY <1>1, <1>2, <1>5 DEF OnceEach

\* The first n orders of t have the order at place i less often than s has it.
Fewer(t, n, s, i) ==
    Cardinality({k \in 1..n : t[k] = s[i]}) < Cardinality({j \in DOMAIN s : s[j] = s[i]})

\* An order that the list shows less often than the reply does is one of those
\* beyond the limit.
LEMMA BeyondLimit ==
    ASSUME NEW s, NEW filter, Sortable(s, filter),
           NEW t, NEW p, Enumerates(t, s, Places(s, filter), filter, p),
           NEW n \in 0..Len(t), NEW i \in Places(s, filter),
           Fewer(t, n, s, i)
    PROVE  \E k \in n + 1..Len(t) : p[k] \in DOMAIN s /\ s[p[k]] = s[i]
<1> DEFINE shown == {k \in 1..n : t[k] = s[i]}
           found == {j \in DOMAIN s : s[j] = s[i]}
<1>1. /\ Len(t) \in Nat /\ DOMAIN t = 1..Len(t)
      /\ \A k \in 1..Len(t) : p[k] \in Places(s, filter) /\ t[k] = s[p[k]]
      /\ \A j \in Places(s, filter) : \E k \in 1..Len(t) : p[k] = j
      /\ Len(s) \in Nat /\ DOMAIN s = 1..Len(s)
  <2>1. t \in Seq(Order) /\ s \in Seq(Order)
      BY DEF Enumerates, Sortable
  <2>2. Len(t) \in Nat /\ DOMAIN t = 1..Len(t) /\ Len(s) \in Nat /\ DOMAIN s = 1..Len(s)
      BY <2>1
  <2> QED
      BY <2>2 DEF Enumerates
<1> SUFFICES ASSUME \A k \in n + 1..Len(t) : ~(p[k] \in DOMAIN s /\ s[p[k]] = s[i])
             PROVE  FALSE
    OBVIOUS
<1>2. \A j \in found : j \in Places(s, filter)
    BY DEF Places
<1> DEFINE f == [j \in found |-> CHOOSE k \in 1..Len(t) : p[k] = j]
<1>3. ASSUME NEW j \in found PROVE f[j] \in shown /\ p[f[j]] = j
  <2>1. f[j] \in 1..Len(t) /\ p[f[j]] = j
      BY <1>1, <1>2
  <2>2. j \in DOMAIN s /\ s[j] = s[i]
      OBVIOUS
  <2> HIDE DEF f
  <2>3. ~(f[j] \in n + 1..Len(t))
      BY <2>1, <2>2
  <2>4. f[j] \in 1..n
      BY <1>1, <2>1, <2>3
  <2>5. t[f[j]] = s[i]
      BY <1>1, <2>1, <2>2
  <2> QED
      BY <2>1, <2>4, <2>5
<1>4. f = [j \in found |-> f[j]]
    OBVIOUS
<1> HIDE DEF f
<1>5. f \in Injection(found, shown)
  <2> HIDE DEF found, shown
  <2>1. f \in [found -> shown]
      BY <1>3, <1>4
  <2>2. \A j, l \in found : f[j] = f[l] => j = l
    <3> SUFFICES ASSUME NEW j \in found, NEW l \in found, f[j] = f[l] PROVE j = l
        OBVIOUS
    <3>1. p[f[j]] = j /\ p[f[l]] = l
        BY <1>3
    <3> QED
        BY <3>1
  <2> QED
      BY <2>1, <2>2 DEF Injection, IsInjective
<1>6. IsFiniteSet(shown) /\ IsFiniteSet(found)
  <2>1. IsFiniteSet(1..n) /\ IsFiniteSet(1..Len(s))
      BY <1>1, FS_Interval
  <2> QED
      BY <1>1, <2>1, FS_Subset
<1> HIDE DEF shown, found
<1>7. Cardinality(found) <= Cardinality(shown)
    BY <1>5, <1>6, FS_Injection
<1>8. Cardinality(found) \in Nat /\ Cardinality(shown) \in Nat
    BY <1>6, FS_CardinalityType
<1> QED
    BY <1>7, <1>8 DEF Fewer, shown, found

\* There is one way to sort the orders.
LEMMA SortedOneWay ==
    ASSUME NEW s, NEW filter, Sortable(s, filter), NEW places \in SUBSET DOMAIN s,
           NEW t, NEW p, Enumerates(t, s, places, filter, p),
           NEW u, NEW q, Enumerates(u, s, places, filter, q)
    PROVE  t = u
<1> DEFINE n == Len(t)
<1>1. /\ n \in Nat /\ Len(u) = n /\ DOMAIN t = 1..n /\ DOMAIN u = 1..n
      /\ \A k, l \in 1..n : p[k] = p[l] => k = l
      /\ \A k, l \in 1..n : q[k] = q[l] => k = l
      /\ t \in Seq(Order) /\ u \in Seq(Order)
  <2>1. t \in Seq(Order) /\ u \in Seq(Order)
      BY DEF Enumerates
  <2>2. Len(t) \in Nat /\ DOMAIN t = 1..Len(t) /\ DOMAIN u = 1..Len(u)
      BY <2>1
  <2> HIDE DEF n
  <2>3. Len(t) = Cardinality(places) /\ OnceEach(t, p)
      BY AsMany
  <2>4. Len(u) = Cardinality(places) /\ OnceEach(u, q)
      BY AsMany
  <2> QED
      BY <2>1, <2>2, <2>3, <2>4 DEF n, OnceEach
<1> HIDE DEF n
<1>2. /\ \A k \in 1..n : p[k] \in places /\ t[k] = s[p[k]]
      /\ \A i \in places : \E k \in 1..n : p[k] = i
      /\ \A k, l \in 1..n : k < l => Precedes(s, filter, p[k], p[l])
    BY <1>1 DEF Enumerates
<1>3. /\ \A k \in 1..n : q[k] \in places /\ u[k] = s[q[k]]
      /\ \A i \in places : \E k \in 1..n : q[k] = i
      /\ \A k, l \in 1..n : k < l => Precedes(s, filter, q[k], q[l])
    BY <1>1 DEF Enumerates
<1> DEFINE Differ == {k \in 1..n : p[k] # q[k]}
<1>4. Differ = {}
  <2> SUFFICES ASSUME Differ # {} PROVE FALSE
      OBVIOUS
  <2>1. Differ \in SUBSET Nat
      BY <1>1
  <2>2. PICK k \in Differ : \A l \in Differ : k <= l
    <3> HIDE DEF Differ
    <3> QED
        BY <2>1, Least
  <2>3. k \in 1..n /\ p[k] # q[k]
      OBVIOUS
  <2>4. ASSUME NEW l \in 1..n, ~(k <= l) PROVE p[l] = q[l]
      BY <2>2, <2>4
  <2> HIDE DEF Differ
  <2>5. Precedes(s, filter, p[k], q[k])
    <3>1. PICK l \in 1..n : p[l] = q[k]
        BY <1>2, <1>3, <2>3
    <3>2. k <= l
      <4> SUFFICES ASSUME ~(k <= l) PROVE FALSE
          OBVIOUS
      <4>1. q[l] = q[k]
          BY <2>4, <3>1
      <4>2. l = k
          BY <1>1, <2>3, <4>1
      <4> QED
          BY <2>3, <3>1, <4>2
    <3>3. l # k
        BY <2>3, <3>1
    <3>4. k < l
        BY <1>1, <2>3, <3>2, <3>3
    <3> QED
        BY <1>2, <2>3, <3>1, <3>4
  <2>6. Precedes(s, filter, q[k], p[k])
    <3>1. PICK l \in 1..n : q[l] = p[k]
        BY <1>2, <1>3, <2>3
    <3>2. k <= l
      <4> SUFFICES ASSUME ~(k <= l) PROVE FALSE
          OBVIOUS
      <4>1. p[l] = p[k]
          BY <2>4, <3>1
      <4>2. l = k
          BY <1>1, <2>3, <4>1
      <4> QED
          BY <2>3, <3>1, <4>2
    <3>3. l # k
        BY <2>3, <3>1
    <3>4. k < l
        BY <1>1, <2>3, <3>2, <3>3
    <3> QED
        BY <1>3, <2>3, <3>1, <3>4
  <2>7. p[k] \in DOMAIN s /\ q[k] \in DOMAIN s
      BY <1>2, <1>3, <2>3
  <2>8. Precedes(s, filter, p[k], p[k])
      BY <2>5, <2>6, <2>7, PlacesOrdered
  <2> QED
      BY <2>7, <2>8, PlacesOrdered
<1>5. \A k \in 1..n : t[k] = u[k]
    BY <1>2, <1>3, <1>4
<1> QED
    BY <1>1, <1>5, SeqEqual

-----------------------------------------------------------------------------
(* What the client shows. *)

\* The list t is the front of g, of no more orders than the limit.
Cut(t, g, limit) ==
    \E n \in 0..Len(g) :
        /\ n = Len(g) \/ n = limit
        /\ t \in Seq(Order) /\ Len(t) = n
        /\ \A k \in 1..n : t[k] = g[k]

\* A list t shows the best of the orders s.
Best(t, s, filter, limit) ==
    LET Value(o) == SortValue(o, filter.sortBy)
        Shown(o) == Cardinality({i \in DOMAIN t : t[i] = o})
        Found(o) == Cardinality({i \in DOMAIN s : s[i] = o})
        leftOut  == {i \in Places(s, filter) : Shown(s[i]) < Found(s[i])}
    IN  /\ \A k \in DOMAIN t : \E i \in Places(s, filter) : s[i] = t[k]
        /\ Len(t) = Cardinality(Places(s, filter)) \/ Len(t) = limit
        /\ \A k \in DOMAIN t : \A i \in leftOut :
              IF filter.sortDir = "asc" THEN Value(t[k]) <= Value(s[i])
                                        ELSE Value(t[k]) >= Value(s[i])

\* Cutting the sorted list at the limit leaves the best orders.
LEMMA BestShown ==
    ASSUME NEW s, NEW filter, Sortable(s, filter), Sorts(filter), NEW limit \in Nat,
           NEW t, Cut(t, GetOrdersByItem(s, filter), limit)
    PROVE  Best(t, s, filter, limit)
<1> DEFINE g == GetOrdersByItem(s, filter)
           places == Places(s, filter)
<1>1. PICK p : Enumerates(g, s, places, filter, p)
    BY ListSorted DEF Sorted
<1> HIDE DEF g
<1>2. /\ places \in SUBSET DOMAIN s
      /\ \A i \in DOMAIN s : ValueAt(s, filter, i) \in Int
  <2>1. s \in Seq(Order)
      BY DEF Sortable
  <2>2. \A i \in DOMAIN s : s[i] \in Order
    <3>1. DOMAIN s = 1..Len(s)
        BY <2>1
    <3> QED
        BY <2>1, <3>1, ElementOfSeq
  <2> QED
      BY <2>2, Values DEF ValueAt, Places
<1>3. /\ g \in Seq(Order) /\ DOMAIN g = 1..Len(g)
      /\ \A k \in 1..Len(g) : p[k] \in places /\ g[k] = s[p[k]]
      /\ \A k, l \in 1..Len(g) : k < l => Precedes(s, filter, p[k], p[l])
  <2>1. g \in Seq(Order) /\ DOMAIN g = 1..Len(g)
      BY <1>1 DEF Enumerates
  <2> QED
      BY <1>1, <2>1 DEF Enumerates
<1>4. PICK n \in 0..Len(g) :
        /\ n = Len(g) \/ n = limit
        /\ t \in Seq(Order) /\ Len(t) = n
        /\ \A k \in 1..n : t[k] = g[k]
    BY DEF Cut, g
<1>5. Len(g) \in Nat /\ n \in Nat /\ n <= Len(g) /\ DOMAIN t = 1..n
  <2>1. \A x \in Seq(Order) : Len(x) \in Nat /\ DOMAIN x = 1..Len(x)
      OBVIOUS
  <2>2. Len(g) \in Nat
      BY <1>3, <2>1, Zenon
  <2>3. DOMAIN t = 1..Len(t)
      BY <1>4, <2>1, Zenon
  <2> QED
      BY <1>4, <2>2, <2>3
<1>6. \A k \in 1..n : k \in 1..Len(g)
    BY <1>5
<1>7. ASSUME NEW k \in DOMAIN t PROVE \E i \in places : s[i] = t[k]
    BY <1>3, <1>4, <1>5, <1>6
<1>8. Len(t) = Cardinality(places) \/ Len(t) = limit
  <2>1. Len(g) = Cardinality(places)
      BY <1>1, <1>2, AsMany
  <2> QED
      BY <1>4, <2>1
<1>9. ASSUME NEW k \in DOMAIN t, NEW i \in places,
             Cardinality({x \in DOMAIN t : t[x] = s[i]}) < Cardinality({x \in DOMAIN s : s[x] = s[i]})
      PROVE  IF filter.sortDir = "asc"
             THEN SortValue(t[k], filter.sortBy) <= SortValue(s[i], filter.sortBy)
             ELSE SortValue(t[k], filter.sortBy) >= SortValue(s[i], filter.sortBy)
  <2>1. {x \in DOMAIN t : t[x] = s[i]} = {x \in 1..n : g[x] = s[i]}
      BY <1>4, <1>5
  <2>2. Fewer(g, n, s, i)
      BY <1>9, <2>1 DEF Fewer
  <2> HIDE DEF places
  <2>3. PICK l \in n + 1..Len(g) : p[l] \in DOMAIN s /\ s[p[l]] = s[i]
    <3>1. Enumerates(g, s, Places(s, filter), filter, p) /\ i \in Places(s, filter)
        BY <1>1 DEF places
    <3> QED
        BY <2>2, <3>1, BeyondLimit
  <2>4. k \in 1..Len(g) /\ l \in 1..Len(g) /\ k < l
      BY <1>5
  <2>5. Precedes(s, filter, p[k], p[l])
      BY <1>3, <2>4
  <2>6. p[k] \in DOMAIN s /\ t[k] = s[p[k]]
      BY <1>2, <1>3, <1>4, <1>5, <2>4
  <2>7. /\ SortValue(t[k], filter.sortBy) = ValueAt(s, filter, p[k])
        /\ SortValue(s[i], filter.sortBy) = ValueAt(s, filter, p[l])
      BY <2>3, <2>6 DEF ValueAt
  <2>8. ValueAt(s, filter, p[k]) \in Int /\ ValueAt(s, filter, p[l]) \in Int
      BY <1>2, <2>3, <2>6
  <2>9. filter.sortDir \in {"asc", "desc"}
      BY DEF Sortable, OrdersFilter
  <2> QED
      BY <2>5, <2>7, <2>8, <2>9 DEF Precedes
<1> HIDE DEF places
<1> QED
    BY <1>7, <1>8, <1>9 DEF Best, places

\* An empty reply gives an empty list.
LEMMA ListsNothing ==
    ASSUME NEW filter \in OrdersFilter, Sorts(filter)
    PROVE  Sortable(<<>>, filter) /\ GetOrdersByItem(<<>>, filter) = <<>>
<1>1. Sortable(<<>>, filter)
    BY DEF Sortable
<1>2. Places(<<>>, filter) = {}
    BY DEF Places
<1>3. PICK p : Enumerates(GetOrdersByItem(<<>>, filter), <<>>, {}, filter, p)
    BY <1>1, <1>2, ListSorted DEF Sorted
<1>4. Enumerates(<<>>, <<>>, {}, filter, <<>>)
    BY DEF Enumerates
<1>5. {} \in SUBSET DOMAIN <<>>
    OBVIOUS
<1> QED
    BY <1>1, <1>3, <1>4, <1>5, SortedOneWay

=============================================================================
