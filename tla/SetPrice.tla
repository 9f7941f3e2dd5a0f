------------------------------ MODULE SetPrice ------------------------------
(***************************************************************************)
(* Pricing a set by its parts: GetSetInfoUseCase.Execute                   *)
(* (internal/domain/usecase/get_set_info_use_case.go) finds the parts of   *)
(* the set and how many of each it takes, and                              *)
(* GetSetComponentPriceUseCase.Execute                                     *)
(* (internal/domain/usecase/get_set_component_price_use_case.go) fetches   *)
(* the sell orders of each part and fills the need from the cheapest ones. *)
(* Every request may fail, and then there is no result.                    *)
(***************************************************************************)
EXTENDS MarketOrders, ExportClient, Sums

CONSTANTS
    Parts,      \* the items the catalogue lists, other than the set
    Self,       \* the id of the set, which its own parts list may contain
    SetParts,   \* the parts lists a set may have: sequences of ids
    Books       \* the orders a part may have: sequences of orders

VARIABLES
    pc,         \* fetch the "item", read the "index" and a file of the "export",
                \* "visit" the parts list, "price" a part, "fill" its need,
                \* "done" or "failed"
    recipe,     \* the ingredients of the recipe found, <<>> if there is none
    rest,       \* the ids of the parts list that were not visited yet
    parts,      \* the parts found, with the count of each
    book,       \* the orders of the part being priced, by their places in the reply
    left,       \* the orders the plan has not used
    bought,     \* the units the plan takes of the others
    result,     \* the parts priced so far
    total       \* TotalPlatinum

planVars == <<book, left, bought, result, total>>
vars     == <<pc, recipe, rest, parts, planVars, exportVars>>

ASSUME SetPriceAssumption ==
    /\ Self \notin Parts
    /\ \A b \in Books : b \in Seq(Order)

Cost(units, orders) == Sum([o \in DOMAIN units |-> units[o] * orders[o].platinum])

-----------------------------------------------------------------------------
PlanInit ==
    /\ book = <<>>
    /\ left = {}
    /\ bought = <<>>
    /\ result = <<>>
    /\ total = 0

Init ==
    /\ pc = "item"
    /\ recipe = NoRecipe
    /\ rest = <<>>
    /\ parts = <<>>
    /\ PlanInit
    /\ ExportInit

\* The item, which must be a set, and the catalogue.
FetchItem ==
    /\ pc = "item"
    /\ rest' \in SetParts
    /\ pc' = "index"
    /\ UNCHANGED <<recipe, parts, planVars, exportVars>>

ReadIndex ==
    /\ pc = "index"
    /\ ResolveFilename
    /\ pc' = "export"
    /\ UNCHANGED <<recipe, rest, parts, planVars>>

NewVersion ==
    /\ pc = "export"
    /\ Republish
    /\ UNCHANGED <<pc, recipe, rest, parts, planVars>>

\* Wrong on purpose: a file that cannot be fetched is taken for one without the
\* recipe.
FetchRecipeOrNone ==
    /\ pc = "export"
    /\ recipe' \in {GetRecipeByResultType(Self), NoRecipe}
    /\ pc' = "visit"
    /\ UNCHANGED <<rest, parts, planVars, exportVars>>

\* The file of a superseded version is still there, or the request fails.
FetchRecipe ==
    /\ pc = "export"
    /\ recipe' = GetRecipeByResultType(Self)
    /\ pc' = "visit"
    /\ UNCHANGED <<rest, parts, planVars, exportVars>>

\* The count a list of ingredients gives one: the last it has, and one if it has
\* none or zero.
CountIn(ingredients, part) ==
    LET listed == {k \in DOMAIN ingredients : ingredients[k].item = part}
        last   == CHOOSE k \in listed : \A j \in listed : j <= k
    IN  IF listed = {} \/ ingredients[last].count = 0 THEN 1 ELSE ingredients[last].count

\* The set itself and ids the catalogue does not list are no parts.
SkipPart ==
    /\ pc = "visit"
    /\ rest # <<>>
    /\ Head(rest) \notin Parts
    /\ rest' = Tail(rest)
    /\ UNCHANGED <<pc, recipe, parts, planVars, exportVars>>

AddPart ==
    /\ pc = "visit"
    /\ rest # <<>>
    /\ Head(rest) \in Parts
    /\ parts' = Append(parts, [part |-> Head(rest), count |-> CountIn(recipe, Head(rest))])
    /\ rest' = Tail(rest)
    /\ UNCHANGED <<pc, recipe, planVars, exportVars>>

InfoComplete ==
    /\ pc = "visit"
    /\ rest = <<>>
    /\ pc' = "price"
    /\ UNCHANGED <<recipe, rest, parts, planVars, exportVars>>

\* Cheap sell orders first, of sellers who are not offline.
PartFilter == [type |-> "sell", status |-> {"ingame", "online"},
               sortBy |-> "platinum", sortDir |-> "asc"]

\* Of the reply the orders that pass the filter. The plan sorts them itself, so it
\* does not matter how GetOrdersByItem sorted them.
Admitted(orders) == RestrictValues(orders, LAMBDA o : Admits(PartFilter, o))

FetchOrders ==
    /\ pc = "price"
    /\ Len(result) < Len(parts)
    /\ \E orders \in Books : book' = Admitted(orders)
    /\ left' = DOMAIN book'
    /\ bought' = <<>>
    /\ pc' = "fill"
    /\ UNCHANGED <<recipe, rest, parts, result, total, exportVars>>

Need == parts[Len(result) + 1].count

StillNeeded == Need - Sum(bought)

\* Wrong on purpose: the next order is any that is left.
AnyLeft == left

\* The next order of the plan: a cheapest of those left, ties in any order.
CheapestLeft == {o \in left : \A p \in left : book[o].platinum <= book[p].platinum}

Take(o) == IF book[o].quantity > StillNeeded THEN StillNeeded ELSE book[o].quantity

FillNeed ==
    /\ pc = "fill"
    /\ StillNeeded > 0
    /\ \E o \in CheapestLeft :
          /\ bought' = [p \in DOMAIN bought \cup {o} |-> IF p = o THEN Take(o) ELSE bought[p]]
          /\ left' = left \ {o}
    /\ UNCHANGED <<pc, recipe, rest, parts, book, result, total, exportVars>>

\* The need is met, or no order is left: either way the part is priced.
PartPriced ==
    /\ pc = "fill"
    /\ StillNeeded <= 0 \/ left = {}
    /\ LET cost == Cost(bought, book) IN
          /\ result' = Append(result, [part |-> parts[Len(result) + 1], book |-> book,
                                       bought |-> bought, total |-> cost])
          /\ total' = total + cost
    /\ pc' = "price"
    /\ UNCHANGED <<recipe, rest, parts, book, left, bought, exportVars>>

AllPriced ==
    /\ pc = "price"
    /\ Len(result) = Len(parts)
    /\ pc' = "done"
    /\ UNCHANGED <<recipe, rest, parts, planVars, exportVars>>

\* A request fails, or the item is not a set.
RequestFails ==
    /\ pc \in {"item", "index", "export", "visit", "price"}
    /\ pc' = "failed"
    /\ UNCHANGED <<recipe, rest, parts, planVars, exportVars>>

Next ==
    \/ FetchItem \/ ReadIndex \/ NewVersion \/ FetchRecipe
    \/ SkipPart \/ AddPart \/ InfoComplete
    \/ FetchOrders \/ FillNeed \/ PartPriced \/ AllPriced
    \/ RequestFails

Spec == Init /\ [][Next]_vars

-----------------------------------------------------------------------------
Listed(ingredients, part) ==
    Sum([k \in {j \in DOMAIN ingredients : ingredients[j].item = part} |-> ingredients[k].count])

NoneTwice(ingredients) ==
    \A j, k \in DOMAIN ingredients : ingredients[j].item = ingredients[k].item => j = k

\* The recipe a set is priced with is the first one of the export that was the
\* current one when the command asked: of each part the set takes what that recipe
\* lists, and one of a part that is in no recipe. A request that failed on the way
\* is never taken for "no recipe" (get_set_info_use_case.go:58-85).
CountsArePublished ==
    (parts # <<>> /\ NoneTwice(GetRecipeByResultType(Self))) =>
        \A k \in DOMAIN parts :
            LET n == Listed(GetRecipeByResultType(Self), parts[k].part)
            IN  parts[k].count = IF n = 0 THEN 1 ELSE n

\* The ways to buy n units of a book.
WaysToBuy(orders, n) ==
    {units \in [DOMAIN orders -> 0..n] :
        Sum(units) = n /\ \A o \in DOMAIN orders : units[o] <= orders[o].quantity}

\* A plan takes as many units as the part needs, or all there are, and no other
\* way to buy as many costs less: buying greedily, one cheapest order after the
\* other and cutting the last one, is optimal (buildBuyPlan).
PlansAreCheapest ==
    \A k \in DOMAIN result :
        LET line   == result[k]
            supply == Sum([o \in DOMAIN line.book |-> line.book[o].quantity])
            units  == Sum(line.bought)
        IN  /\ units = IF supply < line.part.count THEN supply ELSE line.part.count
            /\ \A way \in WaysToBuy(line.book, units) : line.total <= Cost(way, line.book)

=============================================================================
