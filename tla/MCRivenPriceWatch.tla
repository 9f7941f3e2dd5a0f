-------------------------- MODULE MCRivenPriceWatch --------------------------
(* Small instances of RivenPriceWatch for TLC, with rivens that are scored. *)
EXTENDS RivenPriceWatch, RivenScore, TLC

Watch(min, window, named) ==
    [threshold |-> 2, buyoutOnly |-> FALSE, playerStatus |-> {}, minQuality |-> min,
     window |-> window, named |-> named]

\* One watch that takes everything, or that and one with a least quality and a
\* window of the first of two times of day.
AnyQuality == {Watch(0, <<>>, TRUE)}
Named      == {Watch(0, <<>>, TRUE), Watch(50, <<0, 0>>, TRUE)}

\* A slug of two words is not the name of its weapon in the export.
AnySlug    == {Watch(50, <<>>, TRUE), Watch(0, <<>>, FALSE)}

Falcor == [category |-> "Melee", disposition |-> 20]

\* Two buffs of the best or of the worst roll.
Attribute(stat, value) == [stat |-> stat, value |-> value, positive |-> TRUE]
Strong == [rank |-> 8, attributes |-> <<Attribute("critical_chance", 19602),
                                        Attribute("toxin_damage", 9801)>>]
Weak   == [rank |-> 8, attributes |-> <<Attribute("critical_chance", 16038),
                                        Attribute("toxin_damage", 8019)>>]

Rated(price, quality) ==
    [price |-> price, direct |-> TRUE, status |-> "online", quality |-> quality]

Listing(price, riven) == Rated(price, AvgRollQuality(ScoreAuction(riven, Falcor)))

OneListing == {Rated(1, 100)}

\* Of the four the search leaves two: one is too dear, one seller is offline.
FourListings == {Listing(1, Weak), Listing(2, Strong), Listing(3, Strong),
                 [Listing(1, Strong) EXCEPT !.status = "offline"]}

\* A bidding auction has no buyout price, which decodes to 0.
Bidding == {[Listing(0, Strong) EXCEPT !.direct = FALSE]}

AuctionSymmetry == Permutations(Auctions)

=============================================================================
