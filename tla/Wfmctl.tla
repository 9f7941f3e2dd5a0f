------------------------------- MODULE Wfmctl -------------------------------
(***************************************************************************)
(* The commands of wfmctl (cmd/wfmctl). A run of the tool executes one of  *)
(* them and ends: `sets price` runs the use cases of SetPrice, `sets info` *)
(* the first of the two, `items info` shows an item and its recipe,        *)
(* `items search` and `orders` list what the market returns, and `rivens   *)
(* search` looks the weapon up in the export and rates the auctions it     *)
(* found with RivenScore.                                                  *)
(*                                                                         *)
(* Rows of the table of auctions do not depend on each other: one stands   *)
(* for all.                                                                *)
(***************************************************************************)
EXTENDS SetPrice, RivenScore

CONSTANTS
    Catalogues, \* the items the market may list: sequences of an id and whether
                \* name or slug contain what the user searches for
    Replies,    \* the orders it may list: sequences of orders
    Filters,    \* the filters a user may give
    Limits,     \* the limits: 0 is none
    Weapons,    \* the weapons: name, category and disposition
    Slugs,      \* the name of each in an address of the market, a function
    Ranks,      \* the ranks of a riven
    Rolls,      \* the rolls of its buffs, in tenths of a percent of the way from
                \* the worst to the best, a sequence
    Stats,      \* the stat of each buff, a sequence: no two of a riven are the same
    CurseStat   \* that of a curse

VARIABLES
    cmd,        \* the command
    query,      \* its filter and limit
    reply,      \* what the market listed
    table,      \* the rows shown
    auction,    \* the auction the row is about, with what it was rolled from
    weapon,     \* what the export says of the weapon
    row         \* the roll quality in the row

listVars    == <<query, reply, table>>
searchVars  == <<auction, weapon, row>>
commandVars == <<cmd, listVars, searchVars>>

NoAuction == [rolls |-> <<>>]
NoQuery   == [filter |-> PartFilter, limit |-> 0]

\* No row yet, and a row whose quality reads N/A.
Blank == -2
NA    == -1

\* The export writes the names of weapons with spaces.
ASSUME WeaponNames ==
    \A e \in Exports : \A i \in DOMAIN e.weapons : e.weapons[i].name.between # "_"

ASSUME WfmctlAssumption ==
    /\ \A orders \in Replies : orders \in Seq(Order)
    /\ Limits \subseteq Nat
    /\ Filters \subseteq OrdersFilter
    /\ \A w \in Weapons : w.disposition \in Nat \ {0}
    /\ Ranks \subseteq 0..8
    /\ Stats \in Seq(STRING) /\ Len(Stats) <= 5
    /\ \A i, j \in DOMAIN Stats : Stats[i] = Stats[j] => i = j
    /\ \A i \in DOMAIN Stats : Stats[i] # CurseStat
    /\ \A rolls \in Rolls : rolls \in Seq(0..1000) /\ Len(rolls) <= Len(Stats)

-----------------------------------------------------------------------------
(* The market: rivens with the values the game shows. *)

\* The value of a buff: base x 1.5 x 10 x disposition x curse attenuation
\* x lerp(0.9, 1.1, roll) x buff attenuation x (rank + 1) x 100.
ShownValue(base, roll, buffs, cursed, rank, w) ==
    LET plain == base * w.disposition * NumBuffsAtten[buffs] * (rank + 1)
        full  == IF cursed THEN plain + plain \div 4 ELSE plain
    IN  (((full * 3) \div 400) * (4500 + roll)) \div 5000

\* The buffs of an auction that the tables know. Of the others the value does
\* not matter.
Rated(w, rolls) == {i \in DOMAIN rolls : Stats[i] \in DOMAIN BaseValues[RivenType(w.category)]}

Riven(w, rank, rolls, cursed) ==
    LET base  == BaseValues[RivenType(w.category)]
        buffs == [i \in DOMAIN rolls |->
                    [stat |-> Stats[i], positive |-> TRUE,
                     value |-> IF i \in Rated(w, rolls)
                               THEN ShownValue(base[Stats[i]], rolls[i], Len(rolls), cursed, rank, w)
                               ELSE 1000]]
        curse == [stat |-> CurseStat, positive |-> FALSE, value |-> -1000]
    IN  [rank |-> rank, attributes |-> IF cursed THEN Append(buffs, curse) ELSE buffs]

-----------------------------------------------------------------------------
(* The commands that list what the market returns. *)

\* No limit if it is zero.
Limited(rows, limit) ==
    IF limit > 0 /\ Len(rows) > limit THEN SubSeq(rows, 1, limit) ELSE rows

Ends ==
    /\ pc' = "done"
    /\ UNCHANGED <<recipe, rest, parts, planVars, exportVars, cmd, searchVars>>

\* Wrong on purpose: the list is cut before it is sorted.
ListOrdersCut ==
    /\ cmd = "orders list"
    /\ pc = "request"
    /\ \E orders \in Replies, filter \in Filters, limit \in Limits :
          /\ query' = [filter |-> filter, limit |-> limit]
          /\ reply' = orders
          /\ table' = GetOrdersByItem(Limited(ApplyFilter(orders, filter), limit), filter)
    /\ Ends

ListOrders ==
    /\ cmd = "orders list"
    /\ pc = "request"
    /\ \E orders \in Replies, filter \in Filters, limit \in Limits :
          /\ query' = [filter |-> filter, limit |-> limit]
          /\ reply' = orders
          /\ table' = Limited(GetOrdersByItem(orders, filter), limit)
    /\ Ends

\* The sell orders the market calls the top ones, as they come.
ShowTopOrders ==
    /\ cmd = "orders top"
    /\ pc = "request"
    /\ reply' \in Replies
    /\ table' = SelectSeq(reply', LAMBDA o : o.type = "sell")
    /\ UNCHANGED query
    /\ Ends

SearchItems ==
    /\ cmd = "items search"
    /\ pc = "request"
    /\ \E items \in Catalogues, limit \in Limits :
          /\ query' = [NoQuery EXCEPT !.limit = limit]
          /\ reply' = items
          /\ table' = Limited(SelectSeq(items, LAMBDA item : item.matches), limit)
    /\ Ends

\* The request of a command failed, or a search found nothing.
RequestEnds ==
    /\ pc = "request"
    /\ Ends
    /\ UNCHANGED listVars

-----------------------------------------------------------------------------
(* The commands that show an item or a set. *)

\* A part the catalogue does not list is shown by its id; with it go the fields
\* of the item itself.
ShowItem ==
    /\ cmd = "items info"
    /\ FetchItem
    /\ table' = rest'
    /\ UNCHANGED <<cmd, query, reply, searchVars>>

ShowRecipe ==
    /\ cmd = "items info"
    /\ pc = "export"
    /\ table' = table \o GetRecipeByResultType(Self)
    /\ pc' = "done"
    /\ UNCHANGED <<recipe, rest, parts, planVars, exportVars, cmd, query, reply, searchVars>>

ShowSetInfo ==
    /\ cmd = "sets info"
    /\ pc = "visit"
    /\ rest = <<>>
    /\ table' = parts
    /\ UNCHANGED <<query, reply>>
    /\ Ends

SetStep ==
    /\ \/ cmd = "sets price" /\ Next
       \/ /\ cmd = "sets info"
          /\ FetchItem \/ ReadIndex \/ NewVersion \/ FetchRecipe \/ SkipPart \/ AddPart \/ RequestFails
       \/ cmd = "items info" /\ (ReadIndex \/ NewVersion \/ RequestFails)
       \/ cmd = "rivens search" /\ (ReadIndex \/ NewVersion)
    /\ UNCHANGED commandVars

-----------------------------------------------------------------------------
(* The command `rivens search`. *)

SearchReplies ==
    /\ cmd = "rivens search"
    /\ pc = "request"
    /\ \E w \in Weapons, rank \in Ranks, rolls \in Rolls, cursed \in BOOLEAN :
          auction' = [weapon |-> w, slug |-> Slugs[w], rolls |-> rolls,
                      riven |-> Riven(w, rank, rolls, cursed)]
    /\ pc' = "index"
    /\ UNCHANGED <<recipe, rest, parts, planVars, exportVars, cmd, listVars, weapon, row>>

\* The words of the slug, with spaces between them.
SlugToName(slug) == IF slug.between = "_" THEN [slug EXCEPT !.between = " "] ELSE slug

FindWeapon ==
    /\ cmd = "rivens search"
    /\ pc = "export"
    /\ weapon' = GetWeaponByName(SlugToName(auction.slug))
    /\ pc' = "row"
    /\ UNCHANGED <<recipe, rest, parts, planVars, exportVars, cmd, listVars, auction, row>>

\* The error of the lookup is dropped. Without a weapon nothing is rated.
LookupFails ==
    /\ cmd = "rivens search"
    /\ pc \in {"index", "export"}
    /\ pc' = "row"
    /\ UNCHANGED <<recipe, rest, parts, planVars, exportVars, commandVars>>

ScoresFor(w) == IF w = NoWeapon THEN <<>> ELSE ScoreAuction(auction.riven, w)

Scores == ScoresFor(weapon)

\* Scores are found again by the name of the stat: the last of that name.
ScoreOf(i) ==
    LET attributes == auction.riven.attributes
        same       == {j \in DOMAIN Scores : attributes[j].stat = attributes[i].stat}
    IN  Scores[CHOOSE j \in same : \A k \in same : k <= j]

\* Wrong on purpose: the curse is part of the average.
AveragedWithCurse == {i \in DOMAIN Scores : ScoreOf(i).known}

\* The attributes the average is taken over.
Averaged == {i \in DOMAIN Scores : auction.riven.attributes[i].positive /\ ScoreOf(i).known}

\* The average in whole percent, rounded to nearest.
RollText ==
    LET n   == Cardinality(Averaged)
        sum == Sum([i \in Averaged |-> ScoreOf(i).quality])
    IN  IF n = 0 THEN NA ELSE (sum + 5 * n) \div (10 * n)

ShowRow ==
    /\ pc = "row"
    /\ row' = RollText
    /\ pc' = "done"
    /\ UNCHANGED <<recipe, rest, parts, planVars, exportVars, cmd, listVars, auction, weapon>>

-----------------------------------------------------------------------------
\* The command line names the command.
CommandInit ==
    /\ Init \/ (pc = "request" /\ recipe = NoRecipe /\ rest = <<>> /\ parts = <<>>
                /\ PlanInit /\ ExportInit)
    /\ cmd \in IF pc = "item" THEN {"sets price", "sets info", "items info"}
               ELSE {"orders list", "orders top", "items search", "rivens search"}
    /\ query = NoQuery
    /\ reply = <<>>
    /\ table = <<>>
    /\ auction = NoAuction
    /\ weapon = NoWeapon
    /\ row = Blank

CommandNext ==
    \/ ListOrders \/ ShowTopOrders \/ SearchItems \/ RequestEnds
    \/ ShowItem \/ ShowRecipe \/ ShowSetInfo \/ SetStep
    \/ SearchReplies \/ FindWeapon \/ LookupFails \/ ShowRow

CommandSpec == CommandInit /\ [][CommandNext]_<<vars, commandVars>>

-----------------------------------------------------------------------------
\* No better order is missing: the orders shown are as many as the limit allows,
\* all pass the filter, and none that was left out goes strictly before one that
\* is shown. The market neither filters nor sorts for the client.
ListedAreBest ==
    (cmd = "orders list" /\ query.filter.sortBy # "") =>
        LET Value(o) == SortValue(o, query.filter.sortBy)
            Shown(o) == Cardinality({i \in DOMAIN table : table[i] = o})
            Found(o) == Cardinality({i \in DOMAIN reply : reply[i] = o})
            admitted == {i \in DOMAIN reply :
                            /\ query.filter.type \in {"", reply[i].type}
                            /\ query.filter.status = {} \/ reply[i].status \in query.filter.status}
            leftOut  == {i \in admitted : Shown(reply[i]) < Found(reply[i])}
        IN  /\ \A k \in DOMAIN table : \E i \in admitted : reply[i] = table[k]
            /\ Len(table) = Cardinality(admitted) \/ Len(table) = query.limit
            /\ \A k \in DOMAIN table : \A i \in leftOut :
                  IF query.filter.sortDir = "asc" THEN Value(table[k]) <= Value(reply[i])
                                                  ELSE Value(table[k]) >= Value(reply[i])

\* Scoring inverts the formula in the head of riven_calculator_use_case.go (lines
\* 12-19): from the values of a riven it finds the average of the rolls they were
\* made of again, for any weapon, rank, number of buffs, with a curse and without,
\* if the export that was read lists the weapon as the riven was made for. Only
\* rounding is lost: half a percent in the row, and for each buff a tenth, where the
\* quality is rounded down, and what 2.1 units of its value are worth. One unit is
\* what the value was rounded by; the other 1.1 come of the curse, where the game
\* rounds the mean value once more than the score does. A roll of 1000 tenths moves a
\* value by a fifth of the mean one, and the best roll makes 1.1 of it: so a unit of a
\* value v is worth at most 5500 \div v tenths.
RollsRecovered ==
    (/\ pc = "done" /\ row \notin {Blank, NA}
     /\ \A i \in DOMAIN file.weapons :
            file.weapons[i].name = SlugToName(auction.slug) => file.weapons[i] = auction.weapon) =>
        LET rated == Rated(auction.weapon, auction.rolls)
            half  == 5 * Cardinality(rated)
            lost  == [i \in rated |-> 1 + 11550 \div auction.riven.attributes[i].value]
            error == 10 * row * Cardinality(rated) - Sum([i \in rated |-> auction.rolls[i]])
        IN  error \in -(half + Sum(lost))..half

\* The weapon a watch of the same slug would find: it asks for the slug itself.
WatchWeapon == GetWeaponByName(auction.slug)

\* A user reads the least quality of a watch off the table of wfmctl. When the
\* lookup went through, the quality a watch compares (avgRollQuality) is the one in
\* the row or, being rounded down, one less, so that a least quality one below the
\* row's admits the auction. It is 0 where the row shows none, and for a slug of
\* several words, whatever the row shows: wfmctl writes such a slug as a name before
\* it asks for the weapon (slugToName), the operator does not.
WatchAgrees ==
    (pc = "done" /\ row # Blank /\ file # NoFile /\ weapon = GetWeaponByName(SlugToName(auction.slug))) =>
        LET quality == AvgRollQuality(ScoresFor(WatchWeapon))
        IN  IF row = NA \/ auction.slug.between = "_" THEN quality = 0
            ELSE row - quality \in {0, 1}

=============================================================================
