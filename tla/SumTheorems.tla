----------------------------- MODULE SumTheorems ----------------------------
(***************************************************************************)
(* What the sum of a function with a finite domain is, whatever the order  *)
(* in which the fold takes the elements. The induction theorems of the     *)
(* library take an operator, so the induction here is over sets: a set of  *)
(* numbers that holds 0 and is closed under successor, a set of subsets    *)
(* that holds the empty one and is closed under adding an element.         *)
(***************************************************************************)
EXTENDS Sums, FiniteSetTheorems, WellFoundedInduction, TLAPS

\* A nonempty set of naturals has a least one.
LEMMA Least ==
    ASSUME NEW S \in SUBSET Nat, S # {}
    PROVE  \E n \in S : \A m \in S : n <= m
<1>1. PICK n \in S : \A m \in S : ~(<<m, n>> \in OpToRel(<, Nat))
    BY NatLessThanWellFounded, WFMin, Zenon
<1>2. \A m \in S : ~(m < n)
    BY <1>1 DEF OpToRel
<1>3. \A m \in S : n <= m
    BY <1>2
<1> QED
    BY <1>3

\* A set with 0 and with each successor of its numbers has all of them.
LEMMA NatSetInduction ==
    ASSUME NEW Good \in SUBSET Nat,
           0 \in Good,
           \A n \in Good : n + 1 \in Good
    PROVE  Good = Nat
<1> SUFFICES ASSUME Nat \ Good # {} PROVE FALSE
    OBVIOUS
<1>1. PICK n \in Nat \ Good : \A m \in Nat \ Good : n <= m
    BY Least, Nat \ Good \in SUBSET Nat
<1>2. \A m \in Nat \ Good : ~(m < n)
    BY <1>1
<1>3. n # 0
    OBVIOUS
<1>4. n - 1 \in Nat /\ n - 1 < n /\ (n - 1) + 1 = n
    BY <1>3
<1>5. n - 1 \in Good
    BY <1>2, <1>4
<1> QED
    BY <1>4, <1>5

\* Every subset is reached from the empty one by adding elements.
LEMMA SubsetInduction ==
    ASSUME NEW D, IsFiniteSet(D),
           NEW Good \in SUBSET SUBSET D,
           {} \in Good,
           \A T \in Good : \A x \in D \ T : T \cup {x} \in Good
    PROVE  SUBSET D \subseteq Good
<1> DEFINE Sizes == {n \in Nat : \A T \in SUBSET D : Cardinality(T) = n => T \in Good}
<1>1. 0 \in Sizes
  <2> SUFFICES ASSUME NEW T \in SUBSET D, Cardinality(T) = 0 PROVE T \in Good
      OBVIOUS
  <2> QED
      BY FS_Subset, FS_EmptySet
<1>2. \A n \in Sizes : n + 1 \in Sizes
  <2> SUFFICES ASSUME NEW n \in Sizes, NEW T \in SUBSET D, Cardinality(T) = n + 1
               PROVE  T \in Good
      OBVIOUS
  <2>1. IsFiniteSet(T) /\ T # {}
      BY FS_Subset, FS_EmptySet
  <2>2. PICK x \in T : TRUE
      BY <2>1
  <2>3. Cardinality(T \ {x}) = n
    <3>1. n \in Nat
        OBVIOUS
    <3>2. Cardinality(T \ {x}) = Cardinality(T) - 1
        BY <2>1, <2>2, FS_RemoveElement
    <3> QED
        BY <3>1, <3>2
  <2>4. T \ {x} \in Good
      BY <2>3
  <2> QED
      BY <2>4, T = (T \ {x}) \cup {x}
<1> HIDE DEF Sizes
<1>3. Sizes \in SUBSET Nat
    BY DEF Sizes
<1>4. Sizes = Nat
    BY <1>1, <1>2, <1>3, NatSetInduction
<1> QED
  <2> SUFFICES ASSUME NEW T \in SUBSET D PROVE T \in Good
      OBVIOUS
  <2>1. Cardinality(T) \in Nat
      BY FS_Subset, FS_CardinalityType
  <2> QED
      BY <1>4, <2>1 DEF Sizes

-----------------------------------------------------------------------------
(* The function the fold is defined by: it[s] is the sum over s. *)

First(s) == CHOOSE x \in s : TRUE

AddsUp(it, D, f) ==
    \A s \in SUBSET D : it[s] = IF s = {} THEN 0 ELSE f[First(s)] + it[s \ {First(s)}]

\* The element a sum takes first is one of the set.
LEMMA FirstIsIn == ASSUME NEW s, s # {} PROVE First(s) \in s
    BY DEF First

\* A subset without one of its elements is a smaller one.
LEMMA Smaller ==
    ASSUME NEW D, IsFiniteSet(D), NEW s \in SUBSET D, NEW x \in s
    PROVE  /\ s \ {x} \in SUBSET D
           /\ Cardinality(s) \in Nat
           /\ Cardinality(s \ {x}) = Cardinality(s) - 1
           /\ Cardinality(s \ {x}) \in Nat
<1>1. IsFiniteSet(s)
    BY FS_Subset
<1>2. IsFiniteSet(s \ {x})
    BY <1>1, FS_Subset
<1> QED
    BY <1>1, <1>2, FS_CardinalityType, FS_RemoveElement

\* There is a function that adds up every subset as the fold does.
LEMMA Exists ==
    ASSUME NEW D, IsFiniteSet(D), NEW f \in [D -> Int]
    PROVE  \E it \in [SUBSET D -> Int] : AddsUp(it, D, f)
<1> DEFINE Upto(it, n) ==
        \A s \in SUBSET D : Cardinality(s) <= n =>
            it[s] = IF s = {} THEN 0 ELSE f[First(s)] + it[s \ {First(s)}]
           Good == {n \in Nat : \E it \in [SUBSET D -> Int] : Upto(it, n)}
<1>1. 0 \in Good
  <2>1. [s \in SUBSET D |-> 0] \in [SUBSET D -> Int]
      OBVIOUS
  <2>2. \A s \in SUBSET D : Cardinality(s) <= 0 => s = {}
    <3> SUFFICES ASSUME NEW s \in SUBSET D, Cardinality(s) <= 0 PROVE s = {}
        OBVIOUS
    <3> QED
        BY FS_Subset, FS_CardinalityType, FS_EmptySet
  <2>3. Upto([s \in SUBSET D |-> 0], 0)
      BY <2>2
  <2> QED
      BY <2>1, <2>3
<1>2. \A n \in Good : n + 1 \in Good
  <2> SUFFICES ASSUME NEW n \in Good PROVE n + 1 \in Good
      OBVIOUS
  <2>1. PICK old \in [SUBSET D -> Int] : Upto(old, n)
      OBVIOUS
  <2> DEFINE new == [s \in SUBSET D |-> IF s = {} THEN 0
                                        ELSE f[First(s)] + old[s \ {First(s)}]]
  <2>2. new \in [SUBSET D -> Int]
    <3> SUFFICES ASSUME NEW s \in SUBSET D, s # {}
                 PROVE  f[First(s)] + old[s \ {First(s)}] \in Int
        OBVIOUS
    <3>1. First(s) \in D
        BY FirstIsIn
    <3> QED
        BY <3>1
  <2>3. \A s \in SUBSET D : Cardinality(s) <= n => new[s] = old[s]
      BY <2>1
  <2>4. ASSUME NEW s \in SUBSET D, Cardinality(s) <= n + 1, s # {}
        PROVE  new[s \ {First(s)}] = old[s \ {First(s)}]
    <3>1. First(s) \in s
        BY <2>4, FirstIsIn
    <3>2. s \ {First(s)} \in SUBSET D /\ Cardinality(s \ {First(s)}) <= n
        BY <3>1, <2>4, Smaller
    <3> HIDE DEF new
    <3> QED
        BY <3>2, <2>3
  <2>5. Upto(new, n + 1)
    <3> SUFFICES ASSUME NEW s \in SUBSET D, Cardinality(s) <= n + 1
                 PROVE  new[s] = IF s = {} THEN 0 ELSE f[First(s)] + new[s \ {First(s)}]
        OBVIOUS
    <3>1. new[s] = IF s = {} THEN 0 ELSE f[First(s)] + old[s \ {First(s)}]
        OBVIOUS
    <3> HIDE DEF new
    <3> QED
        BY <3>1, <2>4
  <2> HIDE DEF new, Upto
  <2> QED
      BY <2>2, <2>5
<1>3. Good = Nat
  <2> HIDE DEF Good
  <2>1. Good \in SUBSET Nat
      BY DEF Good
  <2> QED
      BY <1>1, <1>2, <2>1, NatSetInduction
<1>4. Cardinality(D) \in Good
    BY <1>3, FS_CardinalityType
<1>5. PICK it \in [SUBSET D -> Int] : Upto(it, Cardinality(D))
    BY <1>4
<1>6. AddsUp(it, D, f)
    BY <1>5, FS_Subset DEF AddsUp
<1> QED
    BY <1>6

\* There is only one.
LEMMA Unique ==
    ASSUME NEW D, IsFiniteSet(D), NEW f,
           NEW it, AddsUp(it, D, f),
           NEW jt, AddsUp(jt, D, f)
    PROVE  \A s \in SUBSET D : it[s] = jt[s]
<1> DEFINE Good == {n \in Nat : \A s \in SUBSET D : Cardinality(s) = n => it[s] = jt[s]}
<1>1. 0 \in Good
  <2> SUFFICES ASSUME NEW s \in SUBSET D, Cardinality(s) = 0 PROVE it[s] = jt[s]
      OBVIOUS
  <2>1. s = {}
      BY FS_Subset, FS_EmptySet
  <2> QED
      BY <2>1 DEF AddsUp
<1>2. \A n \in Good : n + 1 \in Good
  <2> SUFFICES ASSUME NEW n \in Good, NEW s \in SUBSET D, Cardinality(s) = n + 1
               PROVE  it[s] = jt[s]
      OBVIOUS
  <2>1. s # {}
      BY FS_EmptySet
  <2>2. First(s) \in s
      BY <2>1, FirstIsIn
  <2>3. s \ {First(s)} \in SUBSET D /\ Cardinality(s \ {First(s)}) = n
      BY <2>2, Smaller
  <2>4. it[s \ {First(s)}] = jt[s \ {First(s)}]
      BY <2>3
  <2> QED
      BY <2>1, <2>4 DEF AddsUp
<1>3. Good = Nat
  <2> HIDE DEF Good
  <2>1. Good \in SUBSET Nat
      BY DEF Good
  <2> QED
      BY <1>1, <1>2, <2>1, NatSetInduction
<1> QED
  <2> SUFFICES ASSUME NEW s \in SUBSET D PROVE it[s] = jt[s]
      OBVIOUS
  <2>1. Cardinality(s) \in Good
      BY <1>3, FS_Subset, FS_CardinalityType
  <2> QED
      BY <2>1

\* It is what Sum computes.
LEMMA SumIs ==
    ASSUME NEW D, IsFiniteSet(D), NEW f \in [D -> Int],
           NEW it, AddsUp(it, D, f)
    PROVE  Sum(f) = it[D]
<1> DEFINE Fold(g) == g = [s \in SUBSET D |-> IF s = {} THEN 0 ELSE f[First(s)] + g[s \ {First(s)}]]
<1>1. Sum(f) = (CHOOSE g : Fold(g))[D]
    BY DEF Sum, FoldFunction, FoldFunctionOnSet, MapThenFoldSet, First
<1>2. PICK jt \in [SUBSET D -> Int] : AddsUp(jt, D, f)
    BY Exists
<1>3. Fold(jt)
    BY <1>2 DEF AddsUp
<1>4. Fold(CHOOSE g : Fold(g))
    BY <1>3
<1>5. PICK g : g = (CHOOSE h : Fold(h))
    OBVIOUS
<1>6. AddsUp(g, D, f)
    BY <1>4, <1>5 DEF AddsUp
<1> QED
    BY <1>1, <1>5, <1>6, Unique

\* The sum over a part of the domain.
SumOver(f, T) == Sum([x \in T |-> f[x]])

\* The sums over the parts of a domain come from one function.
LEMMA SumsAre ==
    ASSUME NEW D, IsFiniteSet(D), NEW f \in [D -> Int],
           NEW it, AddsUp(it, D, f)
    PROVE  \A T \in SUBSET D : SumOver(f, T) = it[T]
<1> SUFFICES ASSUME NEW T \in SUBSET D PROVE SumOver(f, T) = it[T]
    OBVIOUS
<1>1. IsFiniteSet(T)
    BY FS_Subset
<1>2. [x \in T |-> f[x]] \in [T -> Int]
    OBVIOUS
<1>3. AddsUp(it, T, [x \in T |-> f[x]])
    BY FirstIsIn DEF AddsUp
<1> QED
    BY <1>1, <1>2, <1>3, SumIs DEF SumOver

AddsUpAnyway(it, D, f) == \A T \in SUBSET D : \A x \in T : it[T] = f[x] + it[T \ {x}]

\* It may take any element first.
LEMMA AnyFirst ==
    ASSUME NEW D, IsFiniteSet(D), NEW f \in [D -> Int],
           NEW it \in [SUBSET D -> Int], AddsUp(it, D, f)
    PROVE  AddsUpAnyway(it, D, f)
<1> DEFINE Good == {n \in Nat : \A T \in SUBSET D : \A x \in T :
                        Cardinality(T) = n => it[T] = f[x] + it[T \ {x}]}
<1>1. 0 \in Good
  <2> SUFFICES ASSUME NEW T \in SUBSET D, NEW x \in T, Cardinality(T) = 0 PROVE FALSE
      OBVIOUS
  <2> QED
      BY FS_Subset, FS_EmptySet
<1>2. \A n \in Good : n + 1 \in Good
  <2> SUFFICES ASSUME NEW n \in Good PROVE n + 1 \in Good
      OBVIOUS
  <2> SUFFICES ASSUME NEW T \in SUBSET D, NEW x \in T, Cardinality(T) = n + 1
               PROVE  it[T] = f[x] + it[T \ {x}]
      OBVIOUS
  <2> DEFINE y == First(T)
  <2>1. y \in T /\ it[T] = f[y] + it[T \ {y}]
    <3>1. T # {}
        OBVIOUS
    <3> QED
        BY <3>1, FirstIsIn DEF AddsUp
  <2>2. n \in Nat
      OBVIOUS
  <2> HIDE DEF y
  <2>3. CASE x = y
      BY <2>1, <2>3
  <2>4. CASE x # y
    <3>1. /\ T \ {x} \in SUBSET D /\ Cardinality(T \ {x}) = n
          /\ T \ {y} \in SUBSET D /\ Cardinality(T \ {y}) = n
        BY <2>1, <2>2, Smaller
    <3>2. it[T \ {y}] = f[x] + it[(T \ {y}) \ {x}]
        BY <3>1, <2>4
    <3>3. it[T \ {x}] = f[y] + it[(T \ {x}) \ {y}]
        BY <3>1, <2>1, <2>4
    <3>4. (T \ {y}) \ {x} = (T \ {x}) \ {y}
        OBVIOUS
    <3>5. f[x] \in Int /\ f[y] \in Int /\ it[(T \ {x}) \ {y}] \in Int
        BY <2>1
    <3>6. \A a, b, c \in Int : a + (b + c) = b + (a + c)
        OBVIOUS
    <3>7. f[y] + (f[x] + it[(T \ {x}) \ {y}]) = f[x] + (f[y] + it[(T \ {x}) \ {y}])
        BY <3>5, <3>6, Zenon
    <3> QED
        BY <2>1, <3>2, <3>3, <3>4, <3>7, Zenon
  <2> QED
      BY <2>3, <2>4
<1>3. Good = Nat
  <2> HIDE DEF Good
  <2>1. Good \in SUBSET Nat
      BY DEF Good
  <2> QED
      BY <1>1, <1>2, <2>1, NatSetInduction
<1> QED
  <2> SUFFICES ASSUME NEW T \in SUBSET D, NEW x \in T PROVE it[T] = f[x] + it[T \ {x}]
      BY DEF AddsUpAnyway
  <2>1. Cardinality(T) \in Good
      BY <1>3, FS_Subset, FS_CardinalityType
  <2> QED
      BY <2>1

-----------------------------------------------------------------------------
(* What the proofs about the program use. *)

\* A sum over the parts of a finite domain grows by each element that is added.
LEMMA SumParts ==
    ASSUME NEW D, IsFiniteSet(D), NEW f \in [D -> Int]
    PROVE  /\ SumOver(f, {}) = 0
           /\ \A T \in SUBSET D : SumOver(f, T) \in Int
           /\ \A T \in SUBSET D : \A x \in D \ T : SumOver(f, T \cup {x}) = f[x] + SumOver(f, T)
           /\ SumOver(f, D) = Sum(f)
<1>1. PICK it \in [SUBSET D -> Int] : AddsUp(it, D, f)
    BY Exists
<1>2. \A T \in SUBSET D : SumOver(f, T) = it[T]
    BY <1>1, SumsAre
<1>3. it[{}] = 0
    BY <1>1 DEF AddsUp
<1>4. ASSUME NEW T \in SUBSET D, NEW x \in D \ T
      PROVE  it[T \cup {x}] = f[x] + it[T]
  <2>1. T \cup {x} \in SUBSET D /\ x \in T \cup {x} /\ (T \cup {x}) \ {x} = T
      OBVIOUS
  <2>2. \A U \in SUBSET D : \A y \in U : it[U] = f[y] + it[U \ {y}]
    <3>1. AddsUpAnyway(it, D, f)
        BY <1>1, AnyFirst
    <3> QED
        BY <3>1 DEF AddsUpAnyway
  <2>3. it[T \cup {x}] = f[x] + it[(T \cup {x}) \ {x}]
      BY <2>1, <2>2, Zenon
  <2> QED
      BY <2>1, <2>3
<1>5. \A T \in SUBSET D : \A x \in D \ T : SumOver(f, T \cup {x}) = f[x] + SumOver(f, T)
  <2> SUFFICES ASSUME NEW T \in SUBSET D, NEW x \in D \ T
               PROVE  SumOver(f, T \cup {x}) = f[x] + SumOver(f, T)
      OBVIOUS
  <2>1. SumOver(f, T \cup {x}) = it[T \cup {x}] /\ SumOver(f, T) = it[T]
      BY <1>2
  <2> QED
      BY <1>4, <2>1
<1>6. [y \in D |-> f[y]] = f
    OBVIOUS
<1>7. SumOver(f, D) = Sum(f)
    BY <1>6 DEF SumOver
<1> QED
    BY <1>2, <1>3, <1>5, <1>7

\* A sum of integers is one.
LEMMA SumType ==
    ASSUME NEW D, IsFiniteSet(D), NEW f \in [D -> Int]
    PROVE  Sum(f) \in Int
    BY SumParts, D \in SUBSET D

\* The sum of nothing is 0.
LEMMA SumEmpty == ASSUME NEW f \in [{} -> Int] PROVE Sum(f) = 0
    BY SumParts, FS_EmptySet

\* The sum of one element is that element.
LEMMA SumOne == ASSUME NEW x, NEW f \in [{x} -> Int] PROVE Sum(f) = f[x]
<1>1. /\ IsFiniteSet({x}) /\ f[x] \in Int
      /\ {} \in SUBSET {x} /\ x \in {x} \ {} /\ {} \cup {x} = {x}
    BY FS_Singleton
<1>2. /\ SumOver(f, {}) = 0
      /\ \A T \in SUBSET {x} : \A y \in {x} \ T :
            SumOver(f, T \cup {y}) = f[y] + SumOver(f, T)
      /\ SumOver(f, {x}) = Sum(f)
    BY <1>1, SumParts, Zenon
<1>3. SumOver(f, {} \cup {x}) = f[x] + SumOver(f, {})
    BY <1>1, <1>2, Zenon
<1> QED
    BY <1>1, <1>2, <1>3

\* One element more adds its value.
LEMMA SumAdded ==
    ASSUME NEW D, IsFiniteSet(D), NEW f \in [D -> Int], NEW x, x \notin D, NEW v \in Int
    PROVE  Sum([y \in D \cup {x} |-> IF y = x THEN v ELSE f[y]]) = v + Sum(f)
<1> DEFINE E == D \cup {x}
           g == [y \in E |-> IF y = x THEN v ELSE f[y]]
<1>1. IsFiniteSet(E) /\ g \in [E -> Int]
    BY FS_AddElement
<1>2. g[x] = v /\ [y \in D |-> g[y]] = f
    OBVIOUS
<1>3. D \in SUBSET E /\ x \in E \ D /\ D \cup {x} = E
    OBVIOUS
<1> HIDE DEF E, g
<1>4. SumOver(g, D \cup {x}) = g[x] + SumOver(g, D) /\ SumOver(g, E) = Sum(g)
    BY <1>1, <1>3, SumParts
<1>5. SumOver(g, D) = Sum(f)
    BY <1>2 DEF SumOver
<1>6. Sum(g) = v + Sum(f)
    BY <1>2, <1>3, <1>4, <1>5
<1> QED
    BY <1>6 DEF g, E

\* Larger elements have a larger sum.
LEMMA SumMonotone ==
    ASSUME NEW D, IsFiniteSet(D), NEW f \in [D -> Int], NEW g \in [D -> Int],
           \A x \in D : f[x] <= g[x]
    PROVE  Sum(f) <= Sum(g)
<1> DEFINE F(T) == SumOver(f, T)
           G(T) == SumOver(g, T)
           Good == {T \in SUBSET D : F(T) <= G(T)}
<1>1. /\ F({}) = 0 /\ \A T \in SUBSET D : F(T) \in Int
      /\ \A T \in SUBSET D : \A x \in D \ T : F(T \cup {x}) = f[x] + F(T)
    BY SumParts
<1>2. /\ G({}) = 0 /\ \A T \in SUBSET D : G(T) \in Int
      /\ \A T \in SUBSET D : \A x \in D \ T : G(T \cup {x}) = g[x] + G(T)
    BY SumParts
<1> HIDE DEF F, G
<1>3. {} \in Good
    BY <1>1, <1>2
<1>4. ASSUME NEW T \in Good, NEW x \in D \ T PROVE T \cup {x} \in Good
  <2>1. F(T) <= G(T) /\ F(T) \in Int /\ G(T) \in Int
      BY <1>1, <1>2
  <2>2. f[x] <= g[x] /\ f[x] \in Int /\ g[x] \in Int
      OBVIOUS
  <2>3. F(T \cup {x}) = f[x] + F(T) /\ G(T \cup {x}) = g[x] + G(T)
      BY <1>1, <1>2
  <2> QED
      BY <2>1, <2>2, <2>3
<1>5. D \in Good
  <2> HIDE DEF Good
  <2>1. Good \in SUBSET SUBSET D
      BY DEF Good
  <2> QED
      BY <1>3, <1>4, <2>1, SubsetInduction
<1> QED
    BY <1>5, SumParts DEF F, G

\* Sums are added element by element.
LEMMA SumPlus ==
    ASSUME NEW D, IsFiniteSet(D), NEW f \in [D -> Int], NEW g \in [D -> Int]
    PROVE  Sum([x \in D |-> f[x] + g[x]]) = Sum(f) + Sum(g)
<1> DEFINE h    == [x \in D |-> f[x] + g[x]]
           F(T) == SumOver(f, T)
           G(T) == SumOver(g, T)
           H(T) == SumOver(h, T)
           Good == {T \in SUBSET D : H(T) = F(T) + G(T)}
<1>1. /\ F({}) = 0 /\ \A T \in SUBSET D : F(T) \in Int
      /\ \A T \in SUBSET D : \A x \in D \ T : F(T \cup {x}) = f[x] + F(T)
    BY SumParts
<1>2. /\ G({}) = 0 /\ \A T \in SUBSET D : G(T) \in Int
      /\ \A T \in SUBSET D : \A x \in D \ T : G(T \cup {x}) = g[x] + G(T)
    BY SumParts
<1>3. h \in [D -> Int] /\ \A x \in D : h[x] = f[x] + g[x]
    OBVIOUS
<1> HIDE DEF h
<1>4. /\ H({}) = 0
      /\ \A T \in SUBSET D : \A x \in D \ T : H(T \cup {x}) = h[x] + H(T)
    BY <1>3, SumParts
<1> HIDE DEF F, G, H
<1>5. {} \in Good
    BY <1>1, <1>2, <1>4
<1>6. ASSUME NEW T \in Good, NEW x \in D \ T PROVE T \cup {x} \in Good
  <2>1. H(T) = F(T) + G(T) /\ F(T) \in Int /\ G(T) \in Int
      BY <1>1, <1>2
  <2>2. h[x] = f[x] + g[x] /\ f[x] \in Int /\ g[x] \in Int
      BY <1>3
  <2>3. /\ F(T \cup {x}) = f[x] + F(T) /\ G(T \cup {x}) = g[x] + G(T)
        /\ H(T \cup {x}) = h[x] + H(T)
      BY <1>1, <1>2, <1>4
  <2> QED
      BY <2>1, <2>2, <2>3
<1>7. D \in Good
  <2> HIDE DEF Good
  <2>1. Good \in SUBSET SUBSET D
      BY DEF Good
  <2> QED
      BY <1>5, <1>6, <2>1, SubsetInduction
<1>8. SumOver(f, D) = Sum(f) /\ SumOver(g, D) = Sum(g) /\ SumOver(h, D) = Sum(h)
    BY <1>3, SumParts
<1> QED
    BY <1>7, <1>8 DEF F, G, H, h

\* A factor may be taken out of a sum.
LEMMA SumTimes ==
    ASSUME NEW D, IsFiniteSet(D), NEW f \in [D -> Int], NEW c \in Int
    PROVE  Sum([x \in D |-> c * f[x]]) = c * Sum(f)
<1> DEFINE h    == [x \in D |-> c * f[x]]
           F(T) == SumOver(f, T)
           H(T) == SumOver(h, T)
           Good == {T \in SUBSET D : H(T) = c * F(T)}
<1>1. /\ F({}) = 0 /\ \A T \in SUBSET D : F(T) \in Int
      /\ \A T \in SUBSET D : \A x \in D \ T : F(T \cup {x}) = f[x] + F(T)
    BY SumParts
<1>2. h \in [D -> Int] /\ \A x \in D : h[x] = c * f[x]
    OBVIOUS
<1> HIDE DEF h
<1>3. /\ H({}) = 0
      /\ \A T \in SUBSET D : \A x \in D \ T : H(T \cup {x}) = h[x] + H(T)
    BY <1>2, SumParts
<1> HIDE DEF F, H
<1>4. {} \in Good
    BY <1>1, <1>3
<1>5. ASSUME NEW T \in Good, NEW x \in D \ T PROVE T \cup {x} \in Good
  <2>1. H(T) = c * F(T) /\ F(T) \in Int
      BY <1>1
  <2>2. h[x] = c * f[x] /\ f[x] \in Int
      BY <1>2
  <2>3. F(T \cup {x}) = f[x] + F(T) /\ H(T \cup {x}) = h[x] + H(T)
      BY <1>1, <1>3
  <2>4. \A a, b \in Int : c * a + c * b = c * (a + b)
      OBVIOUS
  <2>5. H(T \cup {x}) = c * F(T \cup {x})
      BY <2>1, <2>2, <2>3, <2>4
  <2> QED
      BY <2>5
<1>6. D \in Good
  <2> HIDE DEF Good
  <2>1. Good \in SUBSET SUBSET D
      BY DEF Good
  <2> QED
      BY <1>4, <1>5, <2>1, SubsetInduction
<1>7. SumOver(f, D) = Sum(f) /\ SumOver(h, D) = Sum(h)
    BY <1>2, SumParts
<1> QED
    BY <1>6, <1>7 DEF F, H, h

\* A sum of naturals is one.
LEMMA SumNat ==
    ASSUME NEW D, IsFiniteSet(D), NEW f \in [D -> Nat]
    PROVE  Sum(f) \in Nat
<1> DEFINE zero == [x \in D |-> 0 * f[x]]
<1>1. f \in [D -> Int] /\ 0 \in Int
    OBVIOUS
<1>2. Sum(zero) = 0 * Sum(f) /\ Sum(f) \in Int
    BY <1>1, SumTimes, SumType
<1>3. zero \in [D -> Int] /\ \A x \in D : zero[x] <= f[x]
    OBVIOUS
<1> HIDE DEF zero
<1>4. Sum(zero) <= Sum(f)
    BY <1>1, <1>3, SumMonotone
<1> QED
    BY <1>2, <1>4

\* Elements with the value 0 do not count.
LEMMA SumPadded ==
    ASSUME NEW D, IsFiniteSet(D), NEW S \in SUBSET D, NEW f \in [S -> Int]
    PROVE  Sum([x \in D |-> IF x \in S THEN f[x] ELSE 0]) = Sum(f)
<1> DEFINE h    == [x \in D |-> IF x \in S THEN f[x] ELSE 0]
           H(T) == SumOver(h, T)
           Good == {T \in SUBSET D : H(T) = H(T \cap S)}
<1>1. /\ h \in [D -> Int]
      /\ \A x \in D : h[x] = IF x \in S THEN f[x] ELSE 0
      /\ [y \in S |-> h[y]] = f
    OBVIOUS
<1> HIDE DEF h
<1>2. /\ \A T \in SUBSET D : H(T) \in Int
      /\ H(D) = Sum(h)
      /\ \A T \in SUBSET D : \A x \in D \ T : H(T \cup {x}) = h[x] + H(T)
    BY <1>1, SumParts
<1> HIDE DEF H
<1>3. {} \in Good
    BY {} \cap S = {}
<1>4. ASSUME NEW T \in Good, NEW x \in D \ T PROVE T \cup {x} \in Good
  <2>1. H(T \cup {x}) = h[x] + H(T) /\ H(T) = H(T \cap S) /\ H(T \cap S) \in Int
      BY <1>2
  <2>2. CASE x \in S
    <3>1. (T \cup {x}) \cap S = (T \cap S) \cup {x}
        BY <2>2
    <3>2. H((T \cap S) \cup {x}) = h[x] + H(T \cap S)
        BY <1>2
    <3> QED
        BY <2>1, <3>1, <3>2
  <2>3. CASE x \notin S
    <3>1. (T \cup {x}) \cap S = T \cap S
        BY <2>3
    <3>2. h[x] = 0
        BY <1>1, <2>3
    <3> QED
        BY <2>1, <3>1, <3>2
  <2> QED
      BY <2>2, <2>3
<1>5. D \in Good
  <2> HIDE DEF Good
  <2>1. Good \in SUBSET SUBSET D
      BY DEF Good
  <2> QED
      BY <1>3, <1>4, <2>1, SubsetInduction
<1>6. D \cap S = S
    OBVIOUS
<1>7. H(D) = H(S)
    BY <1>5, <1>6
<1>8. H(S) = Sum(f)
    BY <1>1 DEF H, SumOver
<1>9. Sum(h) = Sum(f)
    BY <1>2, <1>7, <1>8
<1> QED
    BY <1>9 DEF h

=============================================================================
