------------------------------ MODULE MCWfmctl ------------------------------
(* Small instances of Wfmctl, and with it of SetPrice, for TLC. *)
EXTENDS Wfmctl

CONSTANTS blade, hilt, gone

AllItems == {blade, hilt, gone, Self}

\* The set lists itself and an item the catalogue does not have.
TwoParts == {<<blade, Self, hilt>>, <<gone, blade>>, <<>>}

Line(item, count) == [item |-> item, count |-> count]

RecipeFor(item, lines) == [result |-> item, ingredients |-> lines]

\* Every kind of table, the lowest disposition and the highest, which those have
\* whose name is of two words. The export lists some of the weapons.
AName(words) == [words |-> words, between |-> IF Len(words) = 1 THEN "" ELSE " "]

AWeapon(c, d) ==
    [name |-> AName(IF d = 10 THEN <<c>> ELSE <<c, "Prime">>), category |-> c, disposition |-> d]

Categories    == {"Melee", "Primary", "Archguns", "Zaw", "Kitgun"}
AllWeapons    == {AWeapon(c, d) : c \in Categories, d \in {10, 31}}
SomeWeapons   == <<AWeapon("Melee", 31), AWeapon("Primary", 10), AWeapon("Archguns", 31),
                   AWeapon("Zaw", 10), AWeapon("Kitgun", 10), AWeapon("Melee", 10)>>

WeaponSlugs ==
    [w \in AllWeapons |-> [w.name EXCEPT !.between = IF @ = " " THEN "_" ELSE @]]

\* The blade is needed three times, the hilt once; the recipe of another item
\* comes first. A recipe may list an item twice, list none of it, or be missing.
\* The new version has another recipe, before the old one, and lacks some weapons.
AnExport(recipes, weapons) == [recipes |-> recipes, weapons |-> weapons]

SomeExports ==
    {AnExport(<<RecipeFor(blade, <<Line(hilt, 7)>>),
                RecipeFor(Self, <<Line(blade, 3), Line(hilt, 1)>>)>>, SomeWeapons),
     AnExport(<<RecipeFor(Self, <<Line(blade, 1), Line(blade, 2), Line(hilt, 0)>>),
                RecipeFor(Self, <<Line(blade, 3), Line(hilt, 1)>>)>>, SubSeq(SomeWeapons, 2, 6)),
     AnExport(<<>>, <<>>)}

Offer(platinum, quantity, type, status) ==
    [platinum |-> platinum, quantity |-> quantity, reputation |-> 0,
     type |-> type, status |-> status]

Offers == {Offer(1, 1, "sell", "ingame"), Offer(2, 2, "sell", "online"),
           Offer(2, 1, "sell", "ingame"), Offer(3, 5, "sell", "ingame"),
           Offer(1, 5, "sell", "offline"), Offer(1, 5, "buy", "ingame")}

\* Up to three of these orders in a book.
SmallBooks == UNION {[1..n -> Offers] : n \in 0..2} \cup
              {f \in [1..3 -> Offers] : f[1] = Offer(2, 1, "sell", "ingame")}

\* Up to four orders, more than a block, with equal prices and quantities.
FiveOrders == {[Offer(1, 2, "sell", "ingame") EXCEPT !.reputation = 5], Offer(1, 3, "sell", "online"),
               Offer(2, 2, "sell", "ingame"), Offer(3, 1, "sell", "offline"), Offer(2, 4, "buy", "ingame")}
SomeReplies == UNION {[1..n -> FiveOrders] : n \in 0..4}

AFilter(type, status, by, dir) == [type |-> type, status |-> status, sortBy |-> by, sortDir |-> dir]
SomeFilters ==
    {AFilter(type, status, by, dir) :
        type \in {"sell", ""}, status \in {{}, {"ingame", "online"}},
        by \in {"platinum", "quantity", "reputation"}, dir \in {"asc", "desc"}}
    \cup {AFilter("buy", {}, "", "asc")}

SomeCatalogues == UNION {[1..n -> [id : {blade, hilt}, matches : BOOLEAN]] : n \in 0..3}

\* One to four buffs at the worst, a middle and the best roll.
SomeRolls == UNION {[1..n -> {0, 503, 1000}] : n \in 1..4}

BuffStats == <<"critical_chance", "toxin_damage", "multishot", "punch_through">>

=============================================================================
