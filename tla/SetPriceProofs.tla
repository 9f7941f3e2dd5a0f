--------------------------- MODULE SetPriceProofs ---------------------------
(***************************************************************************)
(* Proofs about SetPrice, for any books, parts lists and exports: the plan *)
(* of each part is the cheapest one, and the counts are those of the       *)
(* published recipe. Both are invariants of the commands of Wfmctl, too:   *)
(* WfmctlProofs takes the lemmas about the steps from here.                *)
(***************************************************************************)
EXTENDS SetPrice, SequenceTheorems, SumTheorems

-----------------------------------------------------------------------------
(* The inductive invariant. *)

PartBooks == {Admitted(orders) : orders \in Books}

Part == [part : Parts, count : Nat]

IsSequence(s) == Len(s) \in Nat /\ s = [k \in 1..Len(s) |-> s[k]]

TypeOK ==
    /\ published \in Exports
    /\ file \in Exports \cup {NoFile}
    /\ parts \in Seq(Part)
    /\ IsSequence(result)

\* The file of the index is read once, before the first part is found, and each
\* part has the count its recipe gives it.
FromOneExport ==
    /\ pc \in {"request", "item", "index"} => parts = <<>>
    /\ pc = "export" => parts = <<>> /\ file \in Exports
    /\ pc = "visit" => file \in Exports /\ recipe = GetRecipeByResultType(Self)
    /\ parts # <<>> => file \in Exports
    /\ \A k \in DOMAIN parts :
          parts[k].count = CountIn(GetRecipeByResultType(Self), parts[k].part)

\* The orders bought are no dearer than those left, and taken in full unless the
\* need is met: then the one that was cut is the dearest.
Greedy ==
    pc = "fill" =>
        /\ Len(result) < Len(parts)
        /\ book \in PartBooks
        /\ left \subseteq DOMAIN book
        /\ bought \in [DOMAIN book \ left -> Nat]
        /\ Sum(bought) <= Need
        /\ \A o \in DOMAIN bought : bought[o] <= book[o].quantity
        /\ \A o \in DOMAIN bought, p \in left : book[o].platinum <= book[p].platinum
        /\ \A o \in DOMAIN bought : bought[o] < book[o].quantity =>
              /\ Sum(bought) = Need
              /\ \A p \in DOMAIN bought : book[p].platinum <= book[o].platinum

IInv == TypeOK /\ FromOneExport /\ Greedy /\ PlansAreCheapest

-----------------------------------------------------------------------------
(* Data. *)

\* A function on a finite set takes a greatest value.
LEMMA Highest ==
    ASSUME NEW D, IsFiniteSet(D), NEW f \in [D -> Int], D # {}
    PROVE  \E x \in D : \A y \in D : f[y] <= f[x]
<1> DEFINE Good == {T \in SUBSET D : T # {} => \E x \in T : \A y \in T : f[y] <= f[x]}
<1>1. {} \in Good
    OBVIOUS
<1>2. ASSUME NEW T \in Good, NEW z \in D \ T PROVE T \cup {z} \in Good
  <2>1. CASE T = {}
      BY <2>1
  <2>2. CASE T # {}
    <3>1. PICK x \in T : \A y \in T : f[y] <= f[x]
        BY <2>2
    <3>2. f[x] \in Int /\ f[z] \in Int /\ \A y \in T : f[y] \in Int
        OBVIOUS
    <3>3. CASE f[z] <= f[x]
        BY <3>1, <3>3
    <3>4. CASE f[x] <= f[z]
      <4>1. \A y \in T : f[y] <= f[z]
          BY <3>1, <3>2, <3>4
      <4> QED
          BY <4>1, <3>2
    <3> QED
        BY <3>2, <3>3, <3>4
  <2> QED
      BY <2>1, <2>2
<1>3. D \in Good
  <2> HIDE DEF Good
  <2>1. Good \in SUBSET SUBSET D
      BY DEF Good
  <2> QED
      BY <1>1, <1>2, <2>1, SubsetInduction
<1> QED
    BY <1>3

\* A book is finite, with prices and quantities.
LEMMA BookType ==
    ASSUME NEW b \in PartBooks
    PROVE  /\ IsFiniteSet(DOMAIN b)
           /\ b \in [DOMAIN b -> Order]
<1>1. PICK orders \in Books : b = Admitted(orders)
    BY DEF PartBooks
<1>2. orders \in Seq(Order)
    BY SetPriceAssumption
<1>3. /\ DOMAIN b \subseteq 1..Len(orders)
      /\ b \in [DOMAIN b -> Order]
    BY <1>1, <1>2 DEF Admitted, RestrictValues, Restrict
<1>4. IsFiniteSet(1..Len(orders))
    BY <1>2, FS_Interval
<1> QED
    BY <1>3, <1>4, FS_Subset

\* An order has a price and a quantity.
LEMMA OrderType ==
    ASSUME NEW o \in Order PROVE o.platinum \in Nat /\ o.quantity \in Nat
    BY DEF Order

\* A recipe is a list of ingredients.
LEMMA RecipeType ==
    ASSUME NEW item, file \in Exports
    PROVE  GetRecipeByResultType(item) \in Seq(Ingredient)
<1> DEFINE I == {i \in 1..Len(file.recipes) : file.recipes[i].result = item}
           m == CHOOSE i \in I : \A j \in I : i <= j
<1>1. file.recipes \in Seq(Recipe)
    BY ExportAssumption
<1>2. GetRecipeByResultType(item) =
        LET i == IF I # {} THEN m ELSE 0
        IN  IF i = 0 THEN NoRecipe ELSE file.recipes[i].ingredients
    BY DEF GetRecipeByResultType, Seqs!SelectInSeq, Seqs!Min
<1>3. NoRecipe \in Seq(Ingredient)
    BY DEF NoRecipe
<1>4. ASSUME I # {} PROVE m \in I
  <2>1. I \in SUBSET Nat
      BY <1>1
  <2> HIDE DEF I
  <2>2. PICK i \in I : \A j \in I : i <= j
      BY <1>4, <2>1, Least
  <2> QED
      BY <2>2
<1>5. ASSUME I # {} PROVE file.recipes[m].ingredients \in Seq(Ingredient)
  <2>1. m \in 1..Len(file.recipes)
      BY <1>4, <1>5
  <2> HIDE DEF m
  <2>2. file.recipes[m] \in Recipe
      BY <1>1, <2>1
  <2> QED
      BY <2>2 DEF Recipe
<1> HIDE DEF I, m
<1> QED
    BY <1>2, <1>3, <1>5

\* Of the same file comes the same recipe.
LEMMA RecipeKept ==
    ASSUME NEW item, file' = file
    PROVE  GetRecipeByResultType(item)' = GetRecipeByResultType(item)
    BY DEF GetRecipeByResultType, Seqs!SelectInSeq, Seqs!Min

\* The count of a part is a number.
LEMMA CountType ==
    ASSUME NEW ingredients \in Seq(Ingredient), NEW part
    PROVE  CountIn(ingredients, part) \in Nat
<1> DEFINE listed == {k \in DOMAIN ingredients : ingredients[k].item = part}
           last   == CHOOSE k \in listed : \A j \in listed : j <= k
<1>1. CountIn(ingredients, part) =
        IF listed = {} \/ ingredients[last].count = 0 THEN 1 ELSE ingredients[last].count
    BY DEF CountIn
<1>2. ASSUME listed # {} PROVE ingredients[last].count \in Nat
  <2>1. listed \subseteq 1..Len(ingredients) /\ listed \subseteq Int
      OBVIOUS
  <2>2. IsFiniteSet(listed)
      BY <2>1, FS_Interval, FS_Subset
  <2> HIDE DEF listed
  <2>3. [k \in listed |-> k] \in [listed -> Int]
      BY <2>1
  <2>4. PICK k \in listed : \A j \in listed : [l \in listed |-> l][j] <= [l \in listed |-> l][k]
      BY <1>2, <2>2, <2>3, Highest
  <2>5. last \in listed
      BY <2>4
  <2> HIDE DEF last
  <2>6. ingredients[last] \in Ingredient
      BY <2>1, <2>5
  <2> QED
      BY <2>6 DEF Ingredient
<1> HIDE DEF listed, last
<1> QED
    BY <1>1, <1>2

\* A recipe that lists nothing twice has one count for each part.
LEMMA CountIsListed ==
    ASSUME NEW ingredients \in Seq(Ingredient), NoneTwice(ingredients), NEW part
    PROVE  LET n == Listed(ingredients, part)
           IN  CountIn(ingredients, part) = IF n = 0 THEN 1 ELSE n
<1> DEFINE listed == {k \in DOMAIN ingredients : ingredients[k].item = part}
           last   == CHOOSE k \in listed : \A j \in listed : j <= k
           counts == [k \in listed |-> ingredients[k].count]
<1>1. CountIn(ingredients, part) =
        IF listed = {} \/ ingredients[last].count = 0 THEN 1 ELSE ingredients[last].count
    BY DEF CountIn
<1>2. Listed(ingredients, part) = Sum(counts)
    BY DEF Listed
<1>3. CASE listed = {}
  <2>1. counts \in [{} -> Int]
      BY <1>3
  <2>2. Sum(counts) = 0
      BY <2>1, SumEmpty
  <2> QED
      BY <1>1, <1>2, <1>3, <2>2
<1>4. CASE listed # {}
  <2>1. PICK k \in listed : TRUE
      BY <1>4
  <2>2. listed = {k}
      BY <2>1 DEF NoneTwice
  <2>3. k \in Int /\ ingredients[k] \in Ingredient
      BY <2>1
  <2>4. ingredients[k].count \in Int
      BY <2>3 DEF Ingredient
  <2>5. last = k
    <3>1. \A j \in listed : j <= k
        BY <2>2, <2>3
    <3> QED
        BY <2>2, <3>1
  <2>6. counts \in [{k} -> Int] /\ counts[k] = ingredients[k].count
      BY <2>2, <2>4
  <2>7. Sum(counts) = ingredients[k].count
      BY <2>6, SumOne
  <2> HIDE DEF listed, last, counts
  <2> QED
      BY <1>1, <1>2, <1>4, <2>5, <2>7
<1> QED
    BY <1>3, <1>4

-----------------------------------------------------------------------------
(* A greedy plan is the cheapest. *)

\* A unit moved from a price to one that is no lower costs no less.
LEMMA Exchange ==
    ASSUME NEW a \in Nat, NEW b \in Nat, NEW p \in Nat, NEW c \in Nat,
           \/ a <= b /\ c <= p
           \/ b <= a /\ p <= c
    PROVE  a * p + c * b <= b * p + c * a
<1>1. ASSUME NEW d \in Nat, NEW e \in Nat PROVE d * e \in Nat
    BY <1>1
<1>2. CASE a <= b /\ c <= p
  <2> DEFINE d == b - a
             e == p - c
  <2>1. d \in Nat /\ e \in Nat /\ b = a + d /\ p = c + e
      BY <1>2
  <2>2. d * e \in Nat
      BY <1>1, <2>1
  <2> HIDE DEF d, e
  <2>3. (a + d) * (c + e) + c * a = (a * (c + e) + c * (a + d)) + d * e
      BY <2>1
  <2>4. a * (c + e) + c * (a + d) \in Int
      BY <2>1
  <2>5. a * (c + e) + c * (a + d) <= (a + d) * (c + e) + c * a
      BY <2>2, <2>3, <2>4
  <2> QED
      BY <2>1, <2>5
<1>3. CASE b <= a /\ p <= c
  <2> DEFINE d == a - b
             e == c - p
  <2>1. d \in Nat /\ e \in Nat /\ a = b + d /\ c = p + e
      BY <1>3
  <2>2. d * e \in Nat
      BY <1>1, <2>1
  <2> HIDE DEF d, e
  <2>3. b * p + (p + e) * (b + d) = ((b + d) * p + (p + e) * b) + d * e
      BY <2>1
  <2>4. (b + d) * p + (p + e) * b \in Int
      BY <2>1
  <2>5. (b + d) * p + (p + e) * b <= b * p + (p + e) * (b + d)
      BY <2>2, <2>3, <2>4
  <2> QED
      BY <2>1, <2>5
<1> QED
    BY <1>2, <1>3

\* Units of which none could be had for less from another order.
LEMMA Optimal ==
    ASSUME NEW D, IsFiniteSet(D), NEW orders,
           \A o \in D : orders[o].platinum \in Nat /\ orders[o].quantity \in Nat,
           NEW u \in [D -> Nat], NEW w \in [D -> Nat],
           \A o \in D : w[o] <= orders[o].quantity,
           \A o \in D : u[o] <= orders[o].quantity,
           \A o, p \in D : u[o] > 0 /\ u[p] < orders[p].quantity =>
              orders[o].platinum <= orders[p].platinum,
           Sum(u) = Sum(w)
    PROVE  Cost(u, orders) <= Cost(w, orders)
<1> DEFINE price    == [o \in D |-> orders[o].platinum]
           quantity == [o \in D |-> orders[o].quantity]
<1>a. price \in [D -> Nat] /\ quantity \in [D -> Nat]
    OBVIOUS
<1>b. \A o \in D : w[o] <= quantity[o] /\ u[o] <= quantity[o]
    OBVIOUS
<1>c. \A o, p \in D : u[o] > 0 /\ u[p] < quantity[p] => price[o] <= price[p]
    OBVIOUS
<1>d. /\ Cost(u, orders) = Sum([o \in D |-> u[o] * price[o]])
      /\ Cost(w, orders) = Sum([o \in D |-> w[o] * price[o]])
  <2>1. /\ [o \in DOMAIN u |-> u[o] * orders[o].platinum] = [o \in D |-> u[o] * price[o]]
        /\ [o \in DOMAIN w |-> w[o] * orders[o].platinum] = [o \in D |-> w[o] * price[o]]
      OBVIOUS
  <2> QED
      BY <2>1 DEF Cost
<1> HIDE DEF price, quantity
<1>1. PICK c \in Nat :
        \A o \in D : (u[o] > 0 => price[o] <= c) /\ (u[o] < quantity[o] => c <= price[o])
  <2> DEFINE used == {o \in D : u[o] > 0}
             dear == [o \in used |-> price[o]]
  <2>1. CASE used = {}
    <3>1. \A o \in D : ~(u[o] > 0) /\ 0 <= price[o]
        BY <2>1, <1>a
    <3> QED
        BY <3>1
  <2>2. CASE used # {}
    <3>1. IsFiniteSet(used) /\ dear \in [used -> Int]
        BY FS_Subset, <1>a
    <3>2. PICK x \in used : \A y \in used : dear[y] <= dear[x]
        BY <2>2, <3>1, Highest
    <3>3. price[x] \in Nat /\ \A o \in D : u[o] > 0 => price[o] <= price[x]
        BY <3>2, <1>a
    <3>4. \A o \in D : u[o] < quantity[o] => price[x] <= price[o]
        BY <3>2, <1>c
    <3> QED
        BY <3>3, <3>4
  <2> QED
      BY <2>1, <2>2
<1> DEFINE uPrice == [o \in D |-> u[o] * price[o]]
           wPrice == [o \in D |-> w[o] * price[o]]
           cu     == [o \in D |-> c * u[o]]
           cw     == [o \in D |-> c * w[o]]
           low    == [o \in D |-> uPrice[o] + cw[o]]
           high   == [o \in D |-> wPrice[o] + cu[o]]
<1>2. /\ uPrice \in [D -> Int] /\ wPrice \in [D -> Int]
      /\ cu \in [D -> Int] /\ cw \in [D -> Int]
      /\ u \in [D -> Int] /\ w \in [D -> Int]
    BY <1>a
<1> HIDE DEF uPrice, wPrice, cu, cw, low, high
<1>3. ASSUME NEW o \in D PROVE u[o] * price[o] + c * w[o] <= w[o] * price[o] + c * u[o]
  <2>1. u[o] \in Nat /\ w[o] \in Nat /\ price[o] \in Nat /\ quantity[o] \in Nat
      BY <1>a
  <2>2. \/ u[o] <= w[o] /\ c <= price[o]
        \/ w[o] <= u[o] /\ price[o] <= c
    <3>1. CASE u[o] < w[o]
      <4>1. w[o] <= quantity[o]
          BY <1>b
      <4>2. u[o] < quantity[o]
          BY <2>1, <3>1, <4>1
      <4>3. c <= price[o]
          BY <1>1, <4>2
      <4> QED
          BY <2>1, <3>1, <4>3
    <3>2. CASE w[o] < u[o]
      <4>1. u[o] > 0
          BY <2>1, <3>2
      <4>2. price[o] <= c
          BY <1>1, <4>1
      <4> QED
          BY <2>1, <3>2, <4>2
    <3>3. CASE u[o] = w[o]
        BY <2>1, <3>3
    <3> QED
        BY <2>1, <3>1, <3>2, <3>3
  <2> QED
      BY <2>1, <2>2, Exchange
<1>4. low \in [D -> Int] /\ high \in [D -> Int] /\ \A o \in D : low[o] <= high[o]
    BY <1>2, <1>3 DEF uPrice, wPrice, cu, cw, low, high
<1>5. Sum(low) = Sum(uPrice) + Sum(cw) /\ Sum(high) = Sum(wPrice) + Sum(cu)
    BY <1>2, SumPlus DEF low, high
<1>6. Sum(low) <= Sum(high)
    BY <1>4, SumMonotone
<1>7. Sum(cu) = c * Sum(u) /\ Sum(cw) = c * Sum(w)
    BY <1>2, SumTimes DEF cu, cw
<1>8. Sum(uPrice) \in Int /\ Sum(wPrice) \in Int /\ Sum(cu) \in Int
    BY <1>2, SumType
<1>9. Sum(uPrice) <= Sum(wPrice)
    BY <1>5, <1>6, <1>7, <1>8
<1> QED
    BY <1>d, <1>9 DEF uPrice, wPrice

CheapestLine(line) ==
    LET supply == Sum([o \in DOMAIN line.book |-> line.book[o].quantity])
        units  == Sum(line.bought)
    IN  /\ units = IF supply < line.part.count THEN supply ELSE line.part.count
        /\ \A way \in WaysToBuy(line.book, units) : line.total <= Cost(way, line.book)

\* A plan that leaves no cheaper unit and cuts only its dearest order is a cheapest one.
LEMMA PlanIsCheapest ==
    ASSUME NEW b \in PartBooks, NEW rem \in SUBSET DOMAIN b, NEW part, part.count \in Nat,
           NEW taken \in [DOMAIN b \ rem -> Nat],
           Sum(taken) <= part.count,
           Sum(taken) = part.count \/ rem = {},
           \A o \in DOMAIN b \ rem : taken[o] <= b[o].quantity,
           \A o \in DOMAIN b \ rem, p \in rem : b[o].platinum <= b[p].platinum,
           \A o \in DOMAIN b \ rem : taken[o] < b[o].quantity =>
              /\ Sum(taken) = part.count
              /\ \A p \in DOMAIN b \ rem : b[p].platinum <= b[o].platinum
    PROVE  CheapestLine([part |-> part, book |-> b, bought |-> taken, total |-> Cost(taken, b)])
<1> DEFINE D        == DOMAIN b
           S        == D \ rem
           quantity == [o \in D |-> b[o].quantity]
           u        == [o \in D |-> IF o \in S THEN taken[o] ELSE 0]
           paid     == [o \in S |-> taken[o] * b[o].platinum]
           supply   == Sum(quantity)
           units    == Sum(taken)
<1>1. IsFiniteSet(D) /\ S \in SUBSET D /\ IsFiniteSet(S)
    BY BookType, FS_Subset
<1>2. ASSUME NEW o \in D PROVE b[o].platinum \in Nat /\ b[o].quantity \in Nat
    BY BookType, OrderType
<1>3. taken \in [S -> Nat] /\ taken \in [S -> Int]
    OBVIOUS
<1>4. quantity \in [D -> Nat] /\ quantity \in [D -> Int]
    BY <1>2
<1>5. u \in [D -> Nat] /\ u \in [D -> Int]
    BY <1>3
<1>6. Sum(u) = units
    BY <1>1, <1>3, SumPadded
<1>7. \A o \in D : u[o] <= quantity[o]
    BY <1>2, <1>3
<1>8. units \in Int /\ supply \in Int /\ units <= supply
  <2>1. Sum(u) \in Int /\ Sum(quantity) \in Int
      BY <1>1, <1>4, <1>5, SumType
  <2>2. Sum(u) <= Sum(quantity)
    <3> HIDE DEF D, u, quantity
    <3> QED
        BY <1>1, <1>4, <1>5, <1>7, SumMonotone
  <2> HIDE DEF D, u, quantity
  <2> QED
      BY <2>1, <2>2, <1>6
<1>a. units <= part.count
    OBVIOUS
<1>9. units = IF supply < part.count THEN supply ELSE part.count
  <2>1. CASE units = part.count
    <3> HIDE DEF units, supply
    <3> QED
        BY <2>1, <1>8
  <2>2. CASE units # part.count
    <3>1. rem = {} /\ S = D
        BY <2>2
    <3>2. \A o \in D : ~(taken[o] < b[o].quantity)
        BY <2>2, <3>1
    <3>3. \A o \in D : taken[o] = b[o].quantity
        BY <3>1, <3>2, <1>2, <1>3
    <3>4. taken = quantity
        BY <3>1, <3>3, <1>3
    <3>5. units = supply
        BY <3>4
    <3> HIDE DEF units, supply
    <3> QED
        BY <2>2, <3>5, <1>8, <1>a
  <2> QED
      BY <2>1, <2>2
<1>10. \A o, p \in D : u[o] > 0 /\ u[p] < b[p].quantity => b[o].platinum <= b[p].platinum
  <2> SUFFICES ASSUME NEW o \in D, NEW p \in D, u[o] > 0, u[p] < b[p].quantity
               PROVE  b[o].platinum <= b[p].platinum
      OBVIOUS
  <2>1. o \in S
      OBVIOUS
  <2>2. CASE p \in rem
      BY <2>1, <2>2
  <2>3. CASE p \in S
    <3>1. taken[p] < b[p].quantity
        BY <2>3
    <3> QED
        BY <2>1, <2>3, <3>1
  <2> QED
      BY <2>2, <2>3
<1>11. Cost(taken, b) = Cost(u, b)
  <2>1. paid \in [S -> Int]
      BY <1>2, <1>3
  <2>2. [o \in D |-> IF o \in S THEN paid[o] ELSE 0] = [o \in D |-> u[o] * b[o].platinum]
    <3>1. ASSUME NEW o \in D PROVE (IF o \in S THEN paid[o] ELSE 0) = u[o] * b[o].platinum
      <4>1. CASE o \in S
          BY <4>1
      <4>2. CASE o \notin S
          BY <4>2, <1>2
      <4> QED
          BY <4>1, <4>2
    <3> QED
        BY <3>1
  <2>3. Cost(taken, b) = Sum(paid)
      BY <1>3 DEF Cost
  <2>4. Cost(u, b) = Sum([o \in D |-> u[o] * b[o].platinum])
      BY <1>5 DEF Cost
  <2>5. Sum([o \in D |-> IF o \in S THEN paid[o] ELSE 0]) = Sum(paid)
      BY <1>1, <2>1, SumPadded
  <2> QED
      BY <2>2, <2>3, <2>4, <2>5
<1>12. ASSUME NEW way \in WaysToBuy(b, units) PROVE Cost(taken, b) <= Cost(way, b)
  <2>1. /\ way \in [D -> 0..units] /\ Sum(way) = units
        /\ \A o \in D : way[o] <= b[o].quantity
      BY DEF WaysToBuy
  <2>2. way \in [D -> Nat] /\ Sum(u) = Sum(way)
      BY <1>6, <2>1
  <2>3. \A o \in D : u[o] <= b[o].quantity
      BY <1>7
  <2> HIDE DEF D, u, units
  <2>4. Cost(u, b) <= Cost(way, b)
      BY <1>1, <1>2, <1>5, <1>10, <2>1, <2>2, <2>3, Optimal
  <2> QED
      BY <1>11, <2>4
<1> QED
    BY <1>9, <1>12 DEF CheapestLine

\* The property, line by line.
LEMMA CheapestLines == PlansAreCheapest <=> \A k \in DOMAIN result : CheapestLine(result[k])
    BY DEF PlansAreCheapest, CheapestLine

-----------------------------------------------------------------------------
(* The invariant. *)

\* What appending makes of a sequence.
LEMMA SequenceAppend ==
    ASSUME NEW s, IsSequence(s), NEW e
    PROVE  /\ IsSequence(Append(s, e))
           /\ DOMAIN Append(s, e) = 1..Len(s) + 1
           /\ \A k \in DOMAIN s : Append(s, e)[k] = s[k]
           /\ Append(s, e)[Len(s) + 1] = e
           /\ Len(Append(s, e)) = Len(s) + 1
<1> DEFINE T == {s[k] : k \in 1..Len(s)} \cup {e}
<1>1. s \in Seq(T) /\ e \in T
    BY DEF IsSequence
<1> HIDE DEF T
<1>2. Append(s, e) \in Seq(T) /\ Len(Append(s, e)) = Len(s) + 1
    BY <1>1
<1>3. Len(s) \in Nat /\ DOMAIN s = 1..Len(s)
    BY <1>1
<1>4. DOMAIN Append(s, e) = 1..Len(s) + 1
    BY <1>2
<1>5. Append(s, e) = [k \in 1..Len(s) + 1 |-> Append(s, e)[k]]
  <2>1. Append(s, e) \in [1..Len(s) + 1 -> T]
      BY <1>2, <1>3, LenProperties
  <2> QED
      BY <2>1
<1>6. IsSequence(Append(s, e))
    BY <1>2, <1>3, <1>5 DEF IsSequence
<1>7. \A k \in DOMAIN s : Append(s, e)[k] = s[k]
    BY <1>1
<1>8. Append(s, e)[Len(s) + 1] = e
    BY <1>1
<1> QED
    BY <1>2, <1>4, <1>6, <1>7, <1>8

\* The parts are a list.
LEMMA PartsType ==
    ASSUME TypeOK
    PROVE  /\ Len(parts) \in Nat
           /\ \A k \in 1..Len(parts) : parts[k].count \in Nat
<1> SUFFICES ASSUME NEW k \in 1..Len(parts) PROVE parts[k].count \in Nat
    BY DEF TypeOK
<1>1. parts[k] \in Part
    BY DEF TypeOK
<1> QED
    BY <1>1 DEF Part

\* The invariant holds before the parts are known.
LEMMA InitInvariant == ASSUME PlanInit, ExportInit, parts = <<>>, pc \in {"item", "request"} PROVE IInv
<1>1. IsSequence(<<>>)
    BY DEF IsSequence
<1>2. TypeOK
    BY <1>1 DEF PlanInit, ExportInit, TypeOK
<1>3. FromOneExport
    BY DEF FromOneExport
<1>4. Greedy
    BY DEF Greedy
<1>5. PlansAreCheapest
    BY DEF PlanInit, PlansAreCheapest
<1> QED
    BY <1>2, <1>3, <1>4, <1>5 DEF IInv

\* What the plan is made of stays, and so does what is known about it.
LEMMA PlansStay ==
    ASSUME IInv, UNCHANGED <<parts, planVars>>, pc' = "fill" => pc = "fill"
    PROVE  Greedy' /\ PlansAreCheapest'
<1>1. Greedy'
    BY DEF IInv, Greedy, planVars, Need
<1>2. PlansAreCheapest'
    BY DEF IInv, planVars, PlansAreCheapest
<1> QED
    BY <1>1, <1>2

\* A step that does not touch what SetPrice does.
LEMMA Elsewhere ==
    ASSUME IInv, UNCHANGED <<recipe, rest, parts, planVars, exportVars>>,
           pc' \in {"done", "failed", "row"} \/ (pc = "request" /\ pc' = "index")
    PROVE  IInv'
<1>1. Greedy' /\ PlansAreCheapest'
    BY PlansStay
<1>2. TypeOK'
    BY DEF IInv, TypeOK, IsSequence, planVars, exportVars
<1>3. FromOneExport'
  <2>1. GetRecipeByResultType(Self)' = GetRecipeByResultType(Self)
      BY RecipeKept DEF exportVars
  <2> QED
      BY <2>1 DEF IInv, FromOneExport, exportVars
<1> QED
    BY <1>1, <1>2, <1>3 DEF IInv

\* The steps that find the parts.
LEMMA InfoStep ==
    ASSUME IInv,
           FetchItem \/ ReadIndex \/ NewVersion \/ FetchRecipe \/ SkipPart \/ InfoComplete
    PROVE  IInv'
<1> USE DEF IInv
<1>1. UNCHANGED <<parts, planVars>> /\ pc' # "fill"
    BY DEF FetchItem, ReadIndex, NewVersion, FetchRecipe, SkipPart, InfoComplete
<1>2. Greedy' /\ PlansAreCheapest'
    BY <1>1, PlansStay
<1>3. TypeOK'
  <2>1. published' \in Exports /\ file' \in Exports \cup {NoFile}
      BY DEF TypeOK, FetchItem, ReadIndex, NewVersion, FetchRecipe, SkipPart, InfoComplete,
             exportVars, ResolveFilename, Republish
  <2> QED
      BY <1>1, <2>1 DEF TypeOK, IsSequence, planVars
<1>4. FromOneExport'
  <2>1. CASE FetchItem
    <3>1. pc = "item" /\ pc' = "index" /\ UNCHANGED <<recipe, parts, file>>
        BY <2>1 DEF FetchItem, exportVars
    <3> QED
        BY <3>1 DEF FromOneExport
  <2>2. CASE ReadIndex
    <3>1. pc = "index" /\ pc' = "export" /\ file' = published /\ UNCHANGED parts
        BY <2>2 DEF ReadIndex, ResolveFilename
    <3>2. parts' = <<>>
        BY <3>1 DEF FromOneExport
    <3>3. file' \in Exports
        BY <3>1 DEF TypeOK
    <3> QED
        BY <3>1, <3>2, <3>3 DEF FromOneExport
  <2>3. CASE NewVersion \/ FetchRecipe \/ SkipPart \/ InfoComplete
    <3>1. UNCHANGED <<parts, file>>
        BY <2>3 DEF NewVersion, FetchRecipe, SkipPart, InfoComplete, Republish, exportVars
    <3>2. GetRecipeByResultType(Self)' = GetRecipeByResultType(Self)
        BY <3>1, RecipeKept
    <3>3. CASE NewVersion
      <4>1. pc = "export" /\ pc' = "export"
          BY <3>3 DEF NewVersion
      <4> QED
          BY <3>1, <3>2, <4>1 DEF FromOneExport
    <3>4. CASE FetchRecipe
      <4>1. pc = "export" /\ pc' = "visit" /\ recipe' = GetRecipeByResultType(Self)
          BY <3>4 DEF FetchRecipe
      <4> QED
          BY <3>1, <3>2, <4>1 DEF FromOneExport
    <3>5. CASE SkipPart
      <4>1. pc = "visit" /\ pc' = "visit" /\ recipe' = recipe
          BY <3>5 DEF SkipPart
      <4> QED
          BY <3>1, <3>2, <4>1 DEF FromOneExport
    <3>6. CASE InfoComplete
      <4>1. pc = "visit" /\ pc' = "price"
          BY <3>6 DEF InfoComplete
      <4> QED
          BY <3>1, <3>2, <4>1 DEF FromOneExport
    <3> QED
        BY <2>3, <3>3, <3>4, <3>5, <3>6
  <2> QED
      BY <2>1, <2>2, <2>3
<1> QED
    BY <1>2, <1>3, <1>4

\* The lookup of a part keeps the counts those of the recipe.
LEMMA AddPartStep == ASSUME IInv, AddPart PROVE IInv'
<1> USE DEF IInv
<1> DEFINE entry == [part |-> Head(rest), count |-> CountIn(recipe, Head(rest))]
<1>1. /\ pc = "visit" /\ pc' = "visit" /\ parts' = Append(parts, entry)
      /\ Head(rest) \in Parts
      /\ UNCHANGED <<recipe, planVars, exportVars>>
    BY DEF AddPart
<1>2. file \in Exports /\ recipe = GetRecipeByResultType(Self) /\ file' = file
    BY <1>1 DEF FromOneExport, exportVars
<1>3. CountIn(recipe, Head(rest)) \in Nat
    BY <1>2, RecipeType, CountType
<1>4. entry \in Part
    BY <1>1, <1>3 DEF Part
<1>5. TypeOK'
  <2> HIDE DEF entry
  <2>1. parts' \in Seq(Part)
      BY <1>1, <1>4 DEF TypeOK
  <2> QED
      BY <1>1, <2>1 DEF TypeOK, IsSequence, planVars, exportVars
<1>6. GetRecipeByResultType(Self)' = GetRecipeByResultType(Self)
    BY <1>2, RecipeKept
<1>7. \A k \in DOMAIN parts' :
        parts'[k].count = CountIn(GetRecipeByResultType(Self), parts'[k].part)
  <2> SUFFICES ASSUME NEW k \in DOMAIN parts'
               PROVE  parts'[k].count = CountIn(GetRecipeByResultType(Self), parts'[k].part)
      OBVIOUS
  <2>1. PICK e : e = entry
      OBVIOUS
  <2>2. e.count = CountIn(GetRecipeByResultType(Self), e.part)
      BY <1>2, <2>1
  <2> HIDE DEF entry
  <2>3. k \in 1..Len(parts) + 1 /\ parts' = Append(parts, e) /\ parts \in Seq(Part) /\ e \in Part
      BY <1>1, <1>4, <2>1 DEF TypeOK
  <2>4. CASE k \in DOMAIN parts
    <3>1. parts'[k] = parts[k]
        BY <2>3, <2>4
    <3> QED
        BY <2>4, <3>1 DEF FromOneExport
  <2>5. CASE k = Len(parts) + 1
    <3>1. parts'[k] = e
        BY <2>3, <2>5
    <3> QED
        BY <2>2, <3>1
  <2> QED
      BY <2>3, <2>4, <2>5
<1>8. FromOneExport'
    BY <1>1, <1>2, <1>6, <1>7 DEF FromOneExport
<1>9. Greedy'
    BY <1>1 DEF Greedy
<1>10. PlansAreCheapest'
    BY <1>1 DEF PlansAreCheapest, planVars
<1> QED
    BY <1>5, <1>8, <1>9, <1>10

-----------------------------------------------------------------------------
(* The steps that price a part. *)

\* They leave the parts and the export alone.
LEMMA PricingStays ==
    ASSUME IInv, UNCHANGED <<recipe, rest, parts, exportVars>>,
           pc \in {"fill", "price"}, pc' \in {"fill", "price"},
           IsSequence(result')
    PROVE  TypeOK' /\ FromOneExport'
<1>1. TypeOK'
    BY DEF IInv, TypeOK, exportVars
<1>2. GetRecipeByResultType(Self)' = GetRecipeByResultType(Self)
    BY RecipeKept DEF exportVars
<1>3. FromOneExport'
    BY <1>2 DEF IInv, FromOneExport, exportVars
<1> QED
    BY <1>1, <1>3

\* A fresh book starts an empty plan.
LEMMA FetchOrdersStep == ASSUME IInv, FetchOrders PROVE IInv'
<1>1. /\ pc = "price" /\ pc' = "fill" /\ Len(result) < Len(parts)
      /\ book' \in PartBooks /\ left' = DOMAIN book' /\ bought' = <<>>
      /\ UNCHANGED <<recipe, rest, parts, result, exportVars>>
    BY DEF FetchOrders, PartBooks
<1>2. TypeOK' /\ FromOneExport'
    BY <1>1, PricingStays DEF IInv, TypeOK, IsSequence
<1>3. bought' \in [{} -> Nat] /\ bought' \in [{} -> Int]
    BY <1>1
<1>4. Sum(bought') = 0
    BY <1>3, SumEmpty
<1>5. Need' \in Nat
    BY <1>1, PartsType DEF IInv, Need, TypeOK, IsSequence
<1>6. Greedy'
  <2>1. DOMAIN book' \ left' = {} /\ DOMAIN bought' = {}
      BY <1>1, <1>3
  <2>2. Sum(bought') <= Need'
      BY <1>4, <1>5
  <2> QED
      BY <1>1, <1>3, <2>1, <2>2 DEF Greedy
<1>7. PlansAreCheapest'
    BY <1>1 DEF IInv, PlansAreCheapest
<1> QED
    BY <1>2, <1>6, <1>7 DEF IInv

\* Taking the cheapest order that is left keeps the plan greedy.
LEMMA FillNeedStep == ASSUME IInv, FillNeed PROVE IInv'
<1>1. /\ pc = "fill" /\ pc' = "fill" /\ StillNeeded > 0
      /\ UNCHANGED <<recipe, rest, parts, book, result, exportVars>>
    BY DEF FillNeed
<1>2. PICK o \in CheapestLeft :
        /\ bought' = [p \in DOMAIN bought \cup {o} |-> IF p = o THEN Take(o) ELSE bought[p]]
        /\ left' = left \ {o}
    BY DEF FillNeed
<1>3. TypeOK' /\ FromOneExport'
    BY <1>1, PricingStays DEF IInv, TypeOK
<1>4. /\ Len(result) < Len(parts) /\ book \in PartBooks /\ left \subseteq DOMAIN book
      /\ bought \in [DOMAIN book \ left -> Nat] /\ Sum(bought) <= Need
      /\ \A q \in DOMAIN bought : bought[q] <= book[q].quantity
      /\ \A q \in DOMAIN bought, p \in left : book[q].platinum <= book[p].platinum
      /\ \A q \in DOMAIN bought : bought[q] < book[q].quantity =>
            /\ Sum(bought) = Need
            /\ \A p \in DOMAIN bought : book[p].platinum <= book[q].platinum
    BY <1>1 DEF IInv, Greedy
<1>5. o \in left /\ o \notin DOMAIN bought /\ \A p \in left : book[o].platinum <= book[p].platinum
    BY <1>4 DEF CheapestLeft
<1>6. Need \in Nat /\ Need' = Need
    BY <1>1, <1>4, PartsType DEF IInv, Need, TypeOK, IsSequence
<1>7. /\ IsFiniteSet(DOMAIN bought) /\ bought \in [DOMAIN bought -> Int]
      /\ DOMAIN bought = DOMAIN book \ left
  <2>1. IsFiniteSet(DOMAIN book)
      BY <1>4, BookType
  <2> QED
      BY <1>4, <2>1, FS_Subset
<1>8. Sum(bought) \in Int
    BY <1>7, SumType
<1>9. \A p \in DOMAIN book : book[p].platinum \in Nat /\ book[p].quantity \in Nat
    BY <1>4, BookType, OrderType
<1>10. /\ Take(o) \in Nat /\ Take(o) <= book[o].quantity
       /\ Take(o) <= Need - Sum(bought)
       /\ Take(o) < book[o].quantity => Take(o) = Need - Sum(bought)
  <2>1. book[o].quantity \in Nat
      BY <1>4, <1>5, <1>9
  <2> QED
      BY <1>1, <1>6, <1>8, <2>1 DEF Take, StillNeeded
<1>11. PICK t \in Nat : t = Take(o)
    BY <1>10
<1>12. Sum(bought') = t + Sum(bought)
    BY <1>2, <1>5, <1>7, <1>11, SumAdded
<1>13. /\ DOMAIN bought' = DOMAIN bought \cup {o}
       /\ bought'[o] = t
       /\ \A q \in DOMAIN bought : bought'[q] = bought[q]
    BY <1>2, <1>5, <1>11
<1>14. Sum(bought') <= Need /\ Sum(bought) < Need
    BY <1>1, <1>6, <1>8, <1>10, <1>11, <1>12 DEF StillNeeded
<1>15. bought' \in [DOMAIN book' \ left' -> Nat] /\ left' \subseteq DOMAIN book'
  <2>1. DOMAIN bought' = DOMAIN book' \ left'
      BY <1>1, <1>2, <1>4, <1>5, <1>7, <1>13
  <2>2. \A q \in DOMAIN bought' : bought'[q] \in Nat
      BY <1>4, <1>7, <1>11, <1>13
  <2> QED
      BY <1>1, <1>2, <1>4, <2>1, <2>2
<1>16. \A q \in DOMAIN bought' : bought'[q] <= book'[q].quantity
    BY <1>1, <1>4, <1>10, <1>11, <1>13
<1>17. \A q \in DOMAIN bought', p \in left' : book'[q].platinum <= book'[p].platinum
    BY <1>1, <1>2, <1>4, <1>5, <1>13
<1>18. ASSUME NEW q \in DOMAIN bought', bought'[q] < book'[q].quantity
       PROVE  /\ Sum(bought') = Need'
              /\ \A p \in DOMAIN bought' : book'[p].platinum <= book'[q].platinum
  <2>1. q = o
    <3> SUFFICES ASSUME q \in DOMAIN bought PROVE FALSE
        BY <1>13
    <3>1. bought[q] < book[q].quantity
        BY <1>1, <1>13, <1>18
    <3>2. Sum(bought) = Need
        BY <1>4, <3>1
    <3> QED
        BY <1>6, <1>14, <3>2
  <2>2. t = Need - Sum(bought)
      BY <1>1, <1>10, <1>11, <1>13, <1>18, <2>1
  <2>3. Sum(bought') = Need'
      BY <1>6, <1>8, <1>12, <2>2
  <2>4. ASSUME NEW p \in DOMAIN bought' PROVE book'[p].platinum <= book'[q].platinum
    <3>1. CASE p \in DOMAIN bought
        BY <1>1, <1>4, <1>5, <2>1, <3>1
    <3>2. CASE p = o
        BY <1>1, <1>4, <1>5, <1>9, <2>1, <3>2
    <3> QED
        BY <1>13, <3>1, <3>2
  <2> QED
      BY <2>3, <2>4
<1>19. Greedy'
    BY <1>1, <1>4, <1>6, <1>14, <1>15, <1>16, <1>17, <1>18 DEF Greedy
<1>20. PlansAreCheapest'
    BY <1>1 DEF IInv, PlansAreCheapest
<1> QED
    BY <1>3, <1>19, <1>20 DEF IInv

\* A finished plan is a cheapest line of the result.
LEMMA PartPricedStep == ASSUME IInv, PartPriced PROVE IInv'
<1> DEFINE part == parts[Len(result) + 1]
           line == [part |-> part, book |-> book, bought |-> bought, total |-> Cost(bought, book)]
<1>1. /\ pc = "fill" /\ pc' = "price" /\ (StillNeeded <= 0 \/ left = {})
      /\ result' = Append(result, line)
      /\ UNCHANGED <<recipe, rest, parts, exportVars>>
    BY DEF PartPriced
<1>2. /\ Len(result) < Len(parts) /\ book \in PartBooks /\ left \subseteq DOMAIN book
      /\ bought \in [DOMAIN book \ left -> Nat] /\ Sum(bought) <= Need
      /\ \A q \in DOMAIN bought : bought[q] <= book[q].quantity
      /\ \A q \in DOMAIN bought, p \in left : book[q].platinum <= book[p].platinum
      /\ \A q \in DOMAIN bought : bought[q] < book[q].quantity =>
            /\ Sum(bought) = Need
            /\ \A p \in DOMAIN bought : book[p].platinum <= book[q].platinum
    BY <1>1 DEF IInv, Greedy
<1>3. Need = part.count /\ part.count \in Nat
    BY <1>2, PartsType DEF IInv, Need, TypeOK, IsSequence
<1>4. DOMAIN bought = DOMAIN book \ left
    BY <1>2
<1>5. Sum(bought) \in Int
  <2>1. IsFiniteSet(DOMAIN book)
      BY <1>2, BookType
  <2>2. IsFiniteSet(DOMAIN bought) /\ bought \in [DOMAIN bought -> Int]
      BY <1>2, <1>4, <2>1, FS_Subset
  <2> QED
      BY <2>2, SumType
<1>6. Sum(bought) = part.count \/ left = {}
    BY <1>1, <1>2, <1>3, <1>5 DEF StillNeeded
<1>7. CheapestLine(line)
  <2> HIDE DEF part
  <2> QED
      BY <1>2, <1>3, <1>4, <1>6, PlanIsCheapest
<1> HIDE DEF line
<1>8. /\ IsSequence(result')
      /\ DOMAIN result' = 1..Len(result) + 1
      /\ \A k \in DOMAIN result : result'[k] = result[k]
      /\ result'[Len(result) + 1] = line
      /\ Len(result) \in Nat /\ DOMAIN result = 1..Len(result)
    BY <1>1, SequenceAppend DEF IInv, TypeOK, IsSequence
<1>9. TypeOK' /\ FromOneExport'
    BY <1>1, <1>8, PricingStays
<1>10. Greedy'
    BY <1>1 DEF Greedy
<1>11. \A k \in DOMAIN result' : CheapestLine(result'[k])
  <2> SUFFICES ASSUME NEW k \in DOMAIN result' PROVE CheapestLine(result'[k])
      OBVIOUS
  <2>1. k \in DOMAIN result \/ k = Len(result) + 1
      BY <1>8
  <2> QED
      BY <1>7, <1>8, <2>1, CheapestLines DEF IInv
<1>12. PlansAreCheapest'
    BY <1>11 DEF PlansAreCheapest, CheapestLine
<1> QED
    BY <1>9, <1>10, <1>12 DEF IInv

-----------------------------------------------------------------------------
(* The theorems. *)

\* Every step keeps the invariant.
LEMMA NextInvariant == ASSUME IInv, [Next]_vars PROVE IInv'
<1>1. CASE FetchItem \/ ReadIndex \/ NewVersion \/ FetchRecipe \/ SkipPart \/ InfoComplete
    BY <1>1, InfoStep
<1>2. CASE AddPart
    BY <1>2, AddPartStep
<1>3. CASE FetchOrders
    BY <1>3, FetchOrdersStep
<1>4. CASE FillNeed
    BY <1>4, FillNeedStep
<1>5. CASE PartPriced
    BY <1>5, PartPricedStep
<1>6. CASE AllPriced \/ RequestFails
  <2>1. /\ UNCHANGED <<recipe, rest, parts, planVars, exportVars>>
        /\ pc' \in {"done", "failed"}
      BY <1>6 DEF AllPriced, RequestFails
  <2> QED
      BY <2>1, Elsewhere
<1>7. CASE UNCHANGED vars
  <2>1. /\ UNCHANGED <<parts, planVars>> /\ pc' = pc
        /\ UNCHANGED <<recipe, file, published, result>>
      BY <1>7 DEF vars, planVars, exportVars
  <2>2. Greedy' /\ PlansAreCheapest'
      BY <2>1, PlansStay
  <2>3. TypeOK'
      BY <2>1 DEF IInv, TypeOK, IsSequence
  <2>4. GetRecipeByResultType(Self)' = GetRecipeByResultType(Self)
      BY <2>1, RecipeKept
  <2>5. FromOneExport'
      BY <2>1, <2>4 DEF IInv, FromOneExport
  <2> QED
      BY <2>2, <2>3, <2>5 DEF IInv
<1> QED
    BY <1>1, <1>2, <1>3, <1>4, <1>5, <1>6, <1>7 DEF Next

\* Counts that follow the recipe of the file that was read are published ones.
LEMMA CountsFollow == ASSUME IInv PROVE CountsArePublished
<1> SUFFICES ASSUME parts # <<>>, NoneTwice(GetRecipeByResultType(Self)), NEW k \in DOMAIN parts
             PROVE  LET n == Listed(GetRecipeByResultType(Self), parts[k].part)
                    IN  parts[k].count = IF n = 0 THEN 1 ELSE n
    BY DEF CountsArePublished
<1>1. GetRecipeByResultType(Self) \in Seq(Ingredient)
    BY RecipeType DEF IInv, FromOneExport
<1>2. parts[k].count = CountIn(GetRecipeByResultType(Self), parts[k].part)
    BY DEF IInv, FromOneExport
<1> QED
    BY <1>1, <1>2, CountIsListed

\* Whatever the books, the parts lists and the exports are, the invariant behind
\* the two properties holds: the orders bought so far are no dearer than those
\* left, and a plan that is complete is the cheapest.
THEOREM InductiveInvariant == Spec => []IInv
<1>1. Init => IInv
    BY InitInvariant DEF Init
<1>2. IInv /\ [Next]_vars => IInv'
    BY NextInvariant
<1> QED
    BY <1>1, <1>2, PTL DEF Spec

=============================================================================
