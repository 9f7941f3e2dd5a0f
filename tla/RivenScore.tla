----------------------------- MODULE RivenScore -----------------------------
(***************************************************************************)
(* The roll quality of a riven: RivenCalculator.ScoreAuction               *)
(* (internal/domain/usecase/riven_calculator_use_case.go) finds for each   *)
(* attribute where its value lies between the worst and the best roll, and *)
(* avgRollQuality (riven_price_watch_use_case.go) averages the buffs.      *)
(*                                                                         *)
(* Floats are integers here. Values and denominators count hundredths of a *)
(* percent, a disposition twentieths, an attenuation hundredths, a base    *)
(* value ten thousandths, a quality tenths of a percent. Each is rounded   *)
(* down, except for the table of base values, which is rounded to nearest. *)
(***************************************************************************)
EXTENDS Integers, FiniteSets, Sums

\* How much the number of buffs weakens each of them.
NumBuffsAtten == [buffs \in 0..5 |-> <<0, 100, 66, 50, 40, 35>>[buffs + 1]]

\* The table of a weapon's category. Rifles, pistols and shotguns have tables of
\* their own with the same values.
RivenType(category) ==
    CASE category \in {"Pistols", "Primary", "Shotguns"} -> "gun"
      [] category = "Kitgun" -> "kitgun"
      [] category = "Archguns" -> "archgun"
      [] category = "Zaw" -> "zaw"
      [] OTHER -> "melee"

\* Of each table a stat every table knows, those only some know, and the largest.
\* The type of a kitgun has no table: the code reads an empty one.
BaseValues ==
    [melee   |-> [critical_chance |-> 200, toxin_damage |-> 100, damage_vs_corpus |-> 50,
                  extra_combo_count |-> 2722, punch_through |-> 150],
     zaw     |-> [critical_chance |-> 200, toxin_damage |-> 100, damage_vs_corpus |-> 50,
                  extra_combo_count |-> 2722],
     gun     |-> [critical_chance |-> 167, toxin_damage |-> 133, damage_vs_corpus |-> 133,
                  multishot |-> 133, punch_through |-> 150],
     archgun |-> [critical_chance |-> 111, toxin_damage |-> 133, damage_vs_corpus |-> 100,
                  multishot |-> 67, punch_through |-> 150],
     kitgun  |-> <<>>]

Buffs(riven)  == {i \in DOMAIN riven.attributes : riven.attributes[i].positive}
Curses(riven) == DOMAIN riven.attributes \ Buffs(riven)

AttenOf(buffs) == NumBuffsAtten[IF buffs > 5 THEN 5 ELSE buffs]

\* Wrong on purpose: the curses strengthen no buff.
DenominatorUncursed(riven, weapon, base, positive) ==
    (base * weapon.disposition * AttenOf(Cardinality(Buffs(riven))) * (riven.rank + 1) * 3)
        \div 400

\* 1.5 * 10 * 100 times the base value and the factors of weapon and riven: the
\* value of a roll in the middle. Each curse strengthens the buffs by a quarter.
Denominator(riven, weapon, base, positive) ==
    LET curses == IF positive THEN Cardinality(Curses(riven)) ELSE 0
    IN  (base * weapon.disposition * AttenOf(Cardinality(Buffs(riven)))
            * (riven.rank + 1) * 3 * 5^curses) \div (400 * 4^curses)

Abs(v) == IF v < 0 THEN -v ELSE v

Clamp(quality) == IF quality < 0 THEN 0 ELSE IF quality > 1000 THEN 1000 ELSE quality

\* A factor of 0.9 is the worst roll and one of 1.1 the best. A roll that nothing
\* is expected of has quality 0.
RollQuality(value, denominator) ==
    IF denominator = 0 THEN 0
    ELSE Clamp((5000 * Abs(value)) \div denominator - 4500)

\* The score of each attribute. One the table does not know has quality 0.
ScoreAuction(riven, weapon) ==
    LET base == BaseValues[RivenType(weapon.category)]
    IN  [i \in DOMAIN riven.attributes |->
            LET attribute == riven.attributes[i]
                known     == attribute.stat \in DOMAIN base
            IN  [positive |-> attribute.positive,
                 known    |-> known,
                 quality  |-> IF ~known THEN 0 ELSE RollQuality(attribute.value,
                     Denominator(riven, weapon, base[attribute.stat], attribute.positive))]]

\* The average of the buffs that are known, in whole percent, rounded down.
AvgRollQuality(scores) ==
    LET rated == {i \in DOMAIN scores : scores[i].positive /\ scores[i].known}
    IN  IF rated = {} THEN 0
        ELSE Sum([i \in rated |-> scores[i].quality]) \div (10 * Cardinality(rated))

=============================================================================
