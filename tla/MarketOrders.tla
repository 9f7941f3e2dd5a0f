---------------------------- MODULE MarketOrders ----------------------------
(***************************************************************************)
(* What GetOrdersByItem makes of the orders the market returns             *)
(* (internal/adapter/http_warframe_market_service.go): the client filters  *)
(* by type and status and sorts, the market does neither. A list of orders *)
(* is a sequence, since the order of equal ones matters.                   *)
(*                                                                         *)
(* The descending order is the negation of "less", so of two equal orders  *)
(* each goes before the other. What comes out depends on how               *)
(* sort.SliceStable works: it sorts blocks by insertion and merges them.   *)
(* The blocks are merged here one after the other, where Go merges         *)
(* neighbours in rounds: either way a merge joins two neighbouring runs,   *)
(* which is all that the result depends on (MarketOrdersProofs).           *)
(***************************************************************************)
EXTENDS Integers, Sequences, FiniteSets
Lists == INSTANCE SequencesExt

CONSTANT BlockSize      \* the length of the blocks sort.SliceStable starts with

ASSUME BlockSizeAssumption == BlockSize \in Nat \ {0}

OrderTypes   == {"sell", "buy"}
UserStatuses == {"ingame", "online", "offline"}

Order ==
    [platinum : Nat, quantity : Nat \ {0}, reputation : Int,
     type : OrderTypes, status : UserStatuses]

\* A filter without a type or without a status admits them all, and without a
\* field to sort by it keeps the order of the market.
OrdersFilter ==
    [type : OrderTypes \cup {""}, status : SUBSET UserStatuses,
     sortBy : {"", "platinum", "quantity", "reputation"}, sortDir : {"asc", "desc"}]

Admits(filter, o) ==
    /\ filter.type \in {"", o.type}
    /\ filter.status = {} \/ o.status \in filter.status

ApplyFilter(orders, filter) ==
    LET kept[k \in 0..Len(orders)] ==
            IF k = 0 THEN <<>>
            ELSE IF Admits(filter, orders[k]) THEN Append(kept[k - 1], orders[k])
            ELSE kept[k - 1]
    IN  kept[Len(orders)]

\* What the orders are compared by.
SortValue(o, by) ==
    CASE by = "quantity"   -> o.quantity
      [] by = "reputation" -> o.reputation
      [] OTHER             -> o.platinum

Before(o, p, filter) ==
    LET less == SortValue(o, filter.sortBy) < SortValue(p, filter.sortBy)
    IN  IF filter.sortDir = "desc" THEN ~less ELSE less

\* An order moves to the left until one is met that it does not go before.
Inserted(sorted, o, filter) ==
    LET place == Lists!SelectLastInSeq(sorted, LAMBDA p : ~Before(o, p, filter))
    IN  Lists!InsertAt(sorted, place + 1, o)

\* The orders after the first ones, up to the last, sorted.
InsertionSort(orders, first, last, filter) ==
    LET sorted[k \in first..last] ==
            IF k = first THEN <<>> ELSE Inserted(sorted[k - 1], orders[k], filter)
    IN  sorted[last]

\* Merging only asks whether an order of the right block goes before one of the
\* left block.
Merged(left, right, filter) ==
    LET AtLeft(i)  == i + Cardinality({j \in DOMAIN right : Before(right[j], left[i], filter)})
        AtRight(j) == j + Cardinality({i \in DOMAIN left : ~Before(right[j], left[i], filter)})
    IN  [k \in 1..(Len(left) + Len(right)) |->
            IF \E i \in DOMAIN left : AtLeft(i) = k
            THEN left[CHOOSE i \in DOMAIN left : AtLeft(i) = k]
            ELSE right[CHOOSE j \in DOMAIN right : AtRight(j) = k]]

\* Where a block ends.
End(b, orders) == IF b * BlockSize < Len(orders) THEN b * BlockSize ELSE Len(orders)

SliceStable(orders, filter) ==
    LET blocks == (Len(orders) + BlockSize - 1) \div BlockSize
        merged[b \in 0..blocks] ==
            IF b = 0 THEN <<>>
            ELSE Merged(merged[b - 1],
                        InsertionSort(orders, End(b - 1, orders), End(b, orders), filter), filter)
    IN  merged[blocks]

GetOrdersByItem(orders, filter) ==
    LET admitted == ApplyFilter(orders, filter)
    IN  IF filter.sortBy = "" THEN admitted ELSE SliceStable(admitted, filter)

=============================================================================
