---------------------------- MODULE WfmctlProofs ----------------------------
(***************************************************************************)
(* Proofs about the commands of wfmctl. What SetPrice keeps, the commands  *)
(* keep: a step of theirs is one of SetPrice, or it leaves the parts, the  *)
(* plan and the export alone. The row of `rivens search` says what the     *)
(* scores say, agrees with the watch of a slug of one word, and inverts    *)
(* the formula the values were made by: the scores are bounded buff by buff (RatedRoll), and the  *)
(* bounds summed up over the buffs (SumsWithin). The table of `orders      *)
(* list` is the list GetOrdersByItem returns.                              *)
(***************************************************************************)
EXTENDS Wfmctl, SetPriceProofs, MarketOrdersProofs

-----------------------------------------------------------------------------
(* The inductive invariant: that of SetPrice, and what the row was made of. *)

Rolled ==
    /\ auction.weapon \in Weapons
    /\ auction.rolls \in Rolls
    /\ \E rank \in Ranks, cursed \in BOOLEAN :
          auction.riven = Riven(auction.weapon, rank, auction.rolls, cursed)

\* A weapon is what the export that was read says of the name.
WeaponIsFound ==
    /\ pc \in {"row", "done"}
    /\ file \in Exports
    /\ weapon = GetWeaponByName(SlugToName(auction.slug))

RowIsRollText ==
    /\ row # Blank => pc = "done" /\ row = RollText
    /\ \/ row # Blank \/ pc = "row"
       \/ cmd = "rivens search" /\ pc \in {"index", "export"}
       => Rolled
    /\ weapon # NoWeapon => WeaponIsFound

CommandInv == IInv /\ RowIsRollText

-----------------------------------------------------------------------------
\* The invariant holds before the command runs.
LEMMA InitCommand == ASSUME CommandInit PROVE CommandInv
<1>1. PlanInit /\ ExportInit /\ parts = <<>> /\ pc \in {"item", "request"}
    BY DEF CommandInit, Init
<1>2. IInv
    BY <1>1, InitInvariant
<1>3. row = Blank /\ pc \notin {"index", "export", "row"} /\ weapon = NoWeapon
    BY <1>1 DEF CommandInit
<1>4. RowIsRollText
    BY <1>3 DEF RowIsRollText
<1> QED
    BY <1>2, <1>4 DEF CommandInv

-----------------------------------------------------------------------------
(* The part of SetPrice. *)

\* A step of a command is one of SetPrice or leaves its state alone.
LEMMA PlansUnderCommands ==
    ASSUME IInv, [CommandNext]_<<vars, commandVars>>
    PROVE  IInv'
<1>1. CASE SetStep \/ ShowItem
  <2>1. Next
      BY <1>1 DEF SetStep, ShowItem, Next
  <2> QED
      BY <2>1, NextInvariant
<1>2. CASE ListOrders \/ ShowTopOrders \/ SearchItems \/ RequestEnds \/ ShowRecipe
           \/ ShowSetInfo \/ SearchReplies \/ FindWeapon \/ LookupFails \/ ShowRow
  <2>1. UNCHANGED <<recipe, rest, parts, planVars, exportVars>>
      BY <1>2 DEF ListOrders, ShowTopOrders, SearchItems, RequestEnds, ShowRecipe, ShowSetInfo,
                  SearchReplies, FindWeapon, LookupFails, ShowRow, Ends
  <2>2. pc' \in {"done", "failed", "row"} \/ (pc = "request" /\ pc' = "index")
      BY <1>2 DEF ListOrders, ShowTopOrders, SearchItems, RequestEnds, ShowRecipe, ShowSetInfo,
                  SearchReplies, FindWeapon, LookupFails, ShowRow, Ends
  <2> QED
      BY <2>1, <2>2, Elsewhere
<1>3. CASE UNCHANGED <<vars, commandVars>>
    BY <1>3, NextInvariant
<1> QED
    BY <1>1, <1>2, <1>3 DEF CommandNext

-----------------------------------------------------------------------------
(* The row. *)

\* A weapon that is found is listed under its name.
LEMMA WeaponListed ==
    ASSUME NEW name, GetWeaponByName(name) # NoWeapon, file \in Exports
    PROVE  \E i \in DOMAIN file.weapons :
              file.weapons[i].name = name /\ GetWeaponByName(name) = file.weapons[i]
<1> DEFINE I == {i \in 1..Len(file.weapons) : file.weapons[i].name = name}
           m == CHOOSE i \in I : \A j \in I : i <= j
<1>1. DOMAIN file.weapons = 1..Len(file.weapons)
    BY ExportAssumption
<1>2. GetWeaponByName(name) =
        LET i == IF I # {} THEN m ELSE 0
        IN  IF i = 0 THEN NoWeapon ELSE file.weapons[i]
    BY DEF GetWeaponByName, Seqs!SelectInSeq, Seqs!Min
<1>3. I # {} /\ GetWeaponByName(name) = file.weapons[m]
    BY <1>2
<1>4. I \in SUBSET Nat
  <2>1. I \in SUBSET Int
      OBVIOUS
  <2> QED
      BY <2>1
<1> HIDE DEF I
<1>5. PICK i \in I : \A j \in I : i <= j
    BY <1>3, <1>4, Least
<1>6. m \in I
    BY <1>5
<1> HIDE DEF m
<1> QED
    BY <1>1, <1>3, <1>6 DEF I

\* A weapon that is found has a disposition.
LEMMA WeaponType ==
    ASSUME NEW name, GetWeaponByName(name) # NoWeapon, file \in Exports
    PROVE  GetWeaponByName(name).disposition \in Nat
    BY WeaponListed, ExportAssumption

\* The text of the row depends on the auction and the weapon alone.
LEMMA RollTextKept == ASSUME UNCHANGED <<auction, weapon>> PROVE RollText' = RollText
    BY DEF RollText, Averaged, Scores, ScoresFor, ScoreOf

\* Of the same file comes the same weapon.
LEMMA WeaponKept ==
    ASSUME UNCHANGED <<auction, file>>
    PROVE  GetWeaponByName(SlugToName(auction.slug))' = GetWeaponByName(SlugToName(auction.slug))
    BY DEF SlugToName, GetWeaponByName, Seqs!SelectInSeq, Seqs!Min

\* Every step of a command keeps the row what the auction and the weapon make of it.
LEMMA RowUnderCommands ==
    ASSUME CommandInv, [CommandNext]_<<vars, commandVars>>
    PROVE  RowIsRollText'
<1> USE DEF CommandInv
<1>1. CASE SearchReplies
  <2>1. PICK w \in Weapons, rank \in Ranks, rolls \in Rolls, cursed \in BOOLEAN :
            auction' = [weapon |-> w, slug |-> Slugs[w], rolls |-> rolls,
                        riven |-> Riven(w, rank, rolls, cursed)]
      BY <1>1 DEF SearchReplies
  <2>2. pc = "request" /\ row' = row /\ weapon' = weapon
      BY <1>1 DEF SearchReplies
  <2>3. row = Blank /\ weapon = NoWeapon
      BY <2>2 DEF RowIsRollText, WeaponIsFound
  <2>4. Rolled'
    <3>1. /\ auction'.weapon = w /\ auction'.rolls = rolls
          /\ auction'.riven = Riven(w, rank, rolls, cursed)
        BY <2>1
    <3> QED
        BY <3>1 DEF Rolled
  <2> QED
      BY <2>2, <2>3, <2>4 DEF RowIsRollText
<1>2. CASE FindWeapon
  <2>1. /\ cmd = "rivens search" /\ pc = "export" /\ pc' = "row"
        /\ weapon' = GetWeaponByName(SlugToName(auction.slug))
        /\ UNCHANGED <<cmd, auction, row, file>>
      BY <1>2 DEF FindWeapon, exportVars
  <2>2. file \in Exports
      BY <2>1 DEF IInv, FromOneExport
  <2>3. WeaponIsFound'
      BY <2>1, <2>2, WeaponKept DEF WeaponIsFound
  <2>4. row = Blank /\ Rolled
      BY <2>1 DEF RowIsRollText
  <2>5. Rolled'
      BY <2>1, <2>4 DEF Rolled
  <2> QED
      BY <2>1, <2>3, <2>4, <2>5 DEF RowIsRollText
<1>3. CASE LookupFails
  <2>1. /\ cmd = "rivens search" /\ pc \in {"index", "export"} /\ pc' = "row"
        /\ UNCHANGED <<cmd, auction, row, weapon>>
      BY <1>3 DEF LookupFails, commandVars, searchVars
  <2>2. row = Blank /\ Rolled /\ weapon = NoWeapon
      BY <2>1 DEF RowIsRollText, WeaponIsFound
  <2>3. Rolled'
      BY <2>1, <2>2 DEF Rolled
  <2> QED
      BY <2>1, <2>2, <2>3 DEF RowIsRollText
<1>4. CASE ShowRow
  <2>1. /\ pc = "row" /\ pc' = "done" /\ row' = RollText
        /\ UNCHANGED <<cmd, auction, weapon, file>>
      BY <1>4 DEF ShowRow, exportVars
  <2>2. RollText' = RollText
      BY <2>1, RollTextKept
  <2>3. Rolled
      BY <2>1 DEF RowIsRollText
  <2>4. Rolled'
      BY <2>1, <2>3 DEF Rolled
  <2>5. weapon' # NoWeapon => WeaponIsFound'
      BY <2>1, WeaponKept DEF RowIsRollText, WeaponIsFound
  <2> QED
      BY <2>1, <2>2, <2>4, <2>5 DEF RowIsRollText
<1>5. CASE ListOrders \/ ShowTopOrders \/ SearchItems \/ RequestEnds \/ ShowItem \/ ShowRecipe
           \/ ShowSetInfo \/ SetStep \/ UNCHANGED <<vars, commandVars>>
  <2>1. UNCHANGED <<cmd, auction, weapon, row>>
      BY <1>5 DEF ListOrders, ShowTopOrders, SearchItems, RequestEnds, ShowItem, ShowRecipe,
                  ShowSetInfo, SetStep, Ends, commandVars, searchVars
  <2>2. pc = "done" => pc' = "done"
      BY <1>5 DEF ListOrders, ShowTopOrders, SearchItems, RequestEnds, ShowItem, ShowRecipe,
                  ShowSetInfo, SetStep, Ends, vars, Next, FetchItem, ReadIndex, NewVersion,
                  FetchRecipe, SkipPart, AddPart, InfoComplete, FetchOrders, FillNeed, PartPriced,
                  AllPriced, RequestFails
  <2>3. /\ pc' = "row" => pc = "row"
        /\ cmd = "rivens search" /\ pc' \in {"index", "export"} => pc \in {"index", "export"}
      BY <1>5 DEF ListOrders, ShowTopOrders, SearchItems, RequestEnds, ShowItem, ShowRecipe,
                  ShowSetInfo, SetStep, Ends, vars, Next, FetchItem, ReadIndex, NewVersion,
                  FetchRecipe, SkipPart, AddPart, InfoComplete, FetchOrders, FillNeed, PartPriced,
                  AllPriced, RequestFails
  <2>4. RollText' = RollText
      BY <2>1, RollTextKept
  <2>5. Rolled => Rolled'
      BY <2>1 DEF Rolled
  <2>6. weapon # NoWeapon => WeaponIsFound'
    <3> SUFFICES ASSUME weapon # NoWeapon PROVE WeaponIsFound'
        OBVIOUS
    <3>1. WeaponIsFound
        BY DEF RowIsRollText
    <3>2. pc' = pc /\ file' = file
        BY <1>5, <3>1 DEF WeaponIsFound, ListOrders, ShowTopOrders, SearchItems, RequestEnds,
                    ShowItem, ShowRecipe, ShowSetInfo, SetStep, Ends, vars, exportVars, Next,
                    FetchItem, ReadIndex, NewVersion, FetchRecipe, SkipPart, AddPart,
                    InfoComplete, FetchOrders, FillNeed, PartPriced, AllPriced, RequestFails
    <3> QED
        BY <2>1, <3>1, <3>2, WeaponKept DEF WeaponIsFound
  <2> QED
      BY <2>1, <2>2, <2>3, <2>4, <2>5, <2>6 DEF RowIsRollText
<1> QED
    BY <1>1, <1>2, <1>3, <1>4, <1>5 DEF CommandNext

-----------------------------------------------------------------------------
(* Qualities are numbers. *)

\* A base value is a number, and not a small one.
LEMMA BaseType ==
    ASSUME NEW c, NEW stat \in DOMAIN BaseValues[RivenType(c)]
    PROVE  BaseValues[RivenType(c)][stat] \in Nat /\ BaseValues[RivenType(c)][stat] >= 50
<1>1. CASE RivenType(c) = "gun"
    BY <1>1 DEF BaseValues
<1>2. CASE RivenType(c) = "kitgun"
    BY <1>2 DEF BaseValues
<1>3. CASE RivenType(c) = "archgun"
    BY <1>3 DEF BaseValues
<1>4. CASE RivenType(c) = "zaw"
    BY <1>4 DEF BaseValues
<1>5. CASE RivenType(c) = "melee"
    BY <1>5 DEF BaseValues
<1> QED
    BY <1>1, <1>2, <1>3, <1>4, <1>5 DEF RivenType

\* Up to five buffs have an attenuation.
LEMMA AttenType ==
    ASSUME NEW n \in Nat
    PROVE  /\ n <= 5 => NumBuffsAtten[n] \in Nat
           /\ AttenOf(n) \in Nat
           /\ n \in 1..5 => NumBuffsAtten[n] >= 35 /\ AttenOf(n) = NumBuffsAtten[n]
<1>1. \A k \in 0..5 : NumBuffsAtten[k] \in Nat /\ (k > 0 => NumBuffsAtten[k] >= 35)
  <2> SUFFICES ASSUME NEW k \in 0..5
               PROVE  NumBuffsAtten[k] \in Nat /\ (k > 0 => NumBuffsAtten[k] >= 35)
      OBVIOUS
  <2>1. k + 1 \in 1..6
      OBVIOUS
  <2>2. NumBuffsAtten[k] = <<0, 100, 66, 50, 40, 35>>[k + 1]
      BY DEF NumBuffsAtten
  <2> QED
      BY <2>1, <2>2
<1> QED
    BY <1>1 DEF AttenOf

\* Products of naturals are naturals.
LEMMA Product ==
    ASSUME NEW a \in Nat, NEW b \in Nat PROVE a * b \in Nat
    OBVIOUS

\* Quotients are integers.
LEMMA Quotient ==
    ASSUME NEW a \in Int, NEW b \in Nat, b > 0 PROVE a \div b \in Int
    OBVIOUS

\* Rolls are in tenths of a percent.
Tenths == 0..1000

\* A sequence over a set, place by place.
LEMMA ElementsIn ==
    ASSUME NEW S, NEW x \in Seq(S)
    PROVE  DOMAIN x = 1..Len(x) /\ Len(x) \in Nat /\ \A i \in DOMAIN x : x[i] \in S
<1>1. DOMAIN x = 1..Len(x) /\ Len(x) \in Nat
    OBVIOUS
<1>2. \A i \in 1..Len(x) : x[i] \in S
    BY ElementOfSeq
<1> QED
    BY <1>1, <1>2

\* The rolls of a riven are a list of tenths.
LEMMA RollsType ==
    ASSUME NEW rolls \in Rolls
    PROVE  /\ Len(rolls) \in 0..5 /\ Len(rolls) <= Len(Stats)
           /\ DOMAIN rolls = 1..Len(rolls)
           /\ \A i \in DOMAIN rolls : rolls[i] \in Tenths
<1>1. /\ rolls \in Seq(Tenths) /\ Len(rolls) <= Len(Stats)
      /\ Stats \in Seq(STRING) /\ Len(Stats) <= 5
    BY WfmctlAssumption DEF Tenths
<1>2. DOMAIN rolls = 1..Len(rolls) /\ Len(rolls) \in Nat
    BY <1>1, ElementsIn
<1>3. \A i \in DOMAIN rolls : rolls[i] \in Tenths
    BY <1>1, ElementsIn
<1>4. Len(Stats) \in Nat
    BY <1>1
<1> QED
    BY <1>1, <1>2, <1>3, <1>4

\* The value the market shows is a number.
LEMMA ShownValueType ==
    ASSUME NEW base \in Nat, NEW roll \in Tenths, NEW buffs \in 0..5, NEW cursed,
           NEW rank \in 0..8, NEW w \in Weapons
    PROVE  ShownValue(base, roll, buffs, cursed, rank, w) \in Int
<1> DEFINE plain == base * w.disposition * NumBuffsAtten[buffs] * (rank + 1)
           full  == IF cursed THEN plain + plain \div 4 ELSE plain
<1>1. w.disposition \in Nat /\ NumBuffsAtten[buffs] \in Nat /\ rank + 1 \in Nat
  <2>1. w.disposition \in Nat
      BY WfmctlAssumption
  <2>2. buffs \in Nat /\ buffs <= 5 /\ rank + 1 \in Nat
      OBVIOUS
  <2> QED
      BY <2>1, <2>2, AttenType
<1>2. plain \in Nat
    BY <1>1, Product
<1> HIDE DEF plain
<1>3. full \in Int
    BY <1>2
<1> HIDE DEF full
<1>4. (full * 3) \div 400 \in Int /\ 4500 + roll \in Int
    BY <1>3 DEF Tenths
<1>5. ((full * 3) \div 400) * (4500 + roll) \in Int
    BY <1>4
<1>6. (((full * 3) \div 400) * (4500 + roll)) \div 5000 \in Int
    BY <1>5
<1> QED
    BY <1>6 DEF ShownValue, plain, full

\* The attributes of a riven: the buffs in their order, and then the curse.
BuffsAndCurse(A, n, cursed) ==
    /\ n \in 0..5 /\ n <= Len(Stats)
    /\ DOMAIN A = 1..(IF cursed THEN n + 1 ELSE n)
    /\ \A i \in 1..n : A[i].stat = Stats[i] /\ A[i].positive = TRUE /\ A[i].value \in Int
    /\ cursed => /\ A[n + 1].stat = CurseStat /\ A[n + 1].positive = FALSE
                 /\ A[n + 1].value \in Int

\* A riven shows its buffs first, at the places of their rolls, and its curse last.
LEMMA Attributes ==
    ASSUME NEW w \in Weapons, NEW rank \in Ranks, NEW rolls \in Rolls, NEW cursed
    PROVE  BuffsAndCurse(Riven(w, rank, rolls, cursed).attributes, Len(rolls), cursed)
<1> DEFINE A     == Riven(w, rank, rolls, cursed).attributes
           base  == BaseValues[RivenType(w.category)]
           n     == Len(rolls)
           value == [i \in DOMAIN rolls |->
                        IF i \in Rated(w, rolls)
                        THEN ShownValue(base[Stats[i]], rolls[i], n, cursed, rank, w)
                        ELSE 1000]
           buffs == [i \in DOMAIN rolls |->
                        [stat |-> Stats[i], positive |-> TRUE,
                         value |-> IF i \in Rated(w, rolls)
                                   THEN ShownValue(base[Stats[i]], rolls[i], n, cursed, rank, w)
                                   ELSE 1000]]
           curse == [stat |-> CurseStat, positive |-> FALSE, value |-> -1000]
<1>1. /\ n \in 0..5 /\ n <= Len(Stats) /\ DOMAIN rolls = 1..n
      /\ \A i \in DOMAIN rolls : rolls[i] \in Tenths
    BY RollsType
<1>2. n \in Nat
    BY <1>1
<1>3. ASSUME NEW i \in DOMAIN rolls PROVE value[i] \in Int
  <2>1. CASE i \in Rated(w, rolls)
    <3>1. base[Stats[i]] \in Nat
        BY <2>1, BaseType DEF Rated
    <3>2. rolls[i] \in Tenths /\ rank \in 0..8
        BY <1>1, WfmctlAssumption
    <3>3. ShownValue(base[Stats[i]], rolls[i], n, cursed, rank, w) \in Int
      <4> HIDE DEF base, n, value, buffs, curse
      <4> QED
          BY <1>1, <3>1, <3>2, ShownValueType, Zenon
    <3>4. value[i] = ShownValue(base[Stats[i]], rolls[i], n, cursed, rank, w)
        BY <2>1
    <3> QED
        BY <3>3, <3>4
  <2>2. CASE i \notin Rated(w, rolls)
      BY <2>2
  <2> QED
      BY <2>1, <2>2
<1>4. A = IF cursed THEN Append(buffs, curse) ELSE buffs
    BY DEF Riven
<1>5. /\ DOMAIN buffs = DOMAIN rolls
      /\ \A i \in DOMAIN rolls : /\ buffs[i].stat = Stats[i] /\ buffs[i].positive = TRUE
                                 /\ buffs[i].value = value[i]
  <2> HIDE DEF base, n
  <2> QED
      OBVIOUS
<1>6. IsSequence(buffs) /\ Len(buffs) = n
    BY <1>2 DEF IsSequence
<1> HIDE DEF value, buffs
<1>7. /\ DOMAIN buffs = 1..n
      /\ \A i \in 1..n : /\ buffs[i].stat = Stats[i] /\ buffs[i].positive = TRUE
                         /\ buffs[i].value \in Int
    BY <1>2, <1>3, <1>5
<1>8. curse.stat = CurseStat /\ curse.positive = FALSE /\ curse.value \in Int
    OBVIOUS
<1> HIDE DEF curse, A, n
<1>9. ASSUME cursed PROVE BuffsAndCurse(A, n, cursed)
  <2>1. /\ DOMAIN A = 1..n + 1 /\ A[n + 1] = curse
        /\ \A i \in DOMAIN buffs : A[i] = buffs[i]
      BY <1>4, <1>6, <1>9, SequenceAppend
  <2> QED
      BY <1>1, <1>2, <1>7, <1>8, <1>9, <2>1 DEF BuffsAndCurse
<1>10. ASSUME ~cursed PROVE BuffsAndCurse(A, n, cursed)
  <2>1. A = buffs
      BY <1>4, <1>10
  <2> QED
      BY <1>1, <1>2, <1>7, <1>10, <2>1 DEF BuffsAndCurse
<1>11. BuffsAndCurse(A, n, cursed)
    BY <1>9, <1>10
<1> QED
    BY <1>11 DEF A, n

\* The buffs, the curses and the stats of an auction.
LEMMA RolledAuction ==
    ASSUME Rolled,
           NEW A, A = auction.riven.attributes
    PROVE  /\ IsFiniteSet(DOMAIN A) /\ DOMAIN A \subseteq Int
           /\ \A i \in DOMAIN A : A[i].value \in Int
           /\ \A i, j \in DOMAIN A : A[i].stat = A[j].stat => i = j
           /\ \E x : {i \in DOMAIN A : ~A[i].positive} \subseteq {x}
           /\ auction.riven.rank \in 0..8
<1>1. PICK rank \in Ranks, cursed \in BOOLEAN :
        auction.riven = Riven(auction.weapon, rank, auction.rolls, cursed)
    BY DEF Rolled
<1>2. auction.weapon \in Weapons /\ auction.rolls \in Rolls
    BY DEF Rolled
<1> DEFINE n == Len(auction.rolls)
<1> HIDE DEF n
<1>3. BuffsAndCurse(A, n, cursed)
  <2>1. A = Riven(auction.weapon, rank, auction.rolls, cursed).attributes
      BY <1>1
  <2>2. BuffsAndCurse(Riven(auction.weapon, rank, auction.rolls, cursed).attributes,
                      Len(auction.rolls), cursed)
      BY <1>2, Attributes
  <2> QED
      BY <2>1, <2>2 DEF n
<1>4. /\ Len(Stats) \in Nat /\ DOMAIN Stats = 1..Len(Stats)
      /\ \A i, j \in DOMAIN Stats : Stats[i] = Stats[j] => i = j
      /\ \A i \in DOMAIN Stats : Stats[i] # CurseStat
  <2>1. Stats \in Seq(STRING)
      BY WfmctlAssumption
  <2>2. Len(Stats) \in Nat /\ DOMAIN Stats = 1..Len(Stats)
      BY <2>1
  <2> QED
      BY <2>2, WfmctlAssumption
<1>5. ASSUME NEW i \in DOMAIN A
      PROVE  i \in 1..n \/ (cursed /\ i = n + 1)
    BY <1>3 DEF BuffsAndCurse
<1>6. \A i \in 1..n : i \in DOMAIN Stats
    BY <1>3, <1>4 DEF BuffsAndCurse
<1>7. IsFiniteSet(DOMAIN A) /\ DOMAIN A \subseteq Int
  <2>1. PICK m \in Int : DOMAIN A = 1..m
      BY <1>3 DEF BuffsAndCurse
  <2> QED
      BY <2>1, FS_Interval
<1>8. \A i \in DOMAIN A : A[i].value \in Int
    BY <1>3, <1>5 DEF BuffsAndCurse
<1>9. \A i, j \in DOMAIN A : A[i].stat = A[j].stat => i = j
  <2> SUFFICES ASSUME NEW i \in DOMAIN A, NEW j \in DOMAIN A, A[i].stat = A[j].stat
               PROVE  i = j
      OBVIOUS
  <2>1. CASE i \in 1..n /\ j \in 1..n
      BY <1>3, <1>4, <1>6, <2>1 DEF BuffsAndCurse
  <2>2. CASE i \in 1..n /\ cursed /\ j = n + 1
      BY <1>3, <1>4, <1>6, <2>2 DEF BuffsAndCurse
  <2>3. CASE j \in 1..n /\ cursed /\ i = n + 1
      BY <1>3, <1>4, <1>6, <2>3 DEF BuffsAndCurse
  <2> QED
      BY <1>5, <2>1, <2>2, <2>3
<1>10. {i \in DOMAIN A : ~A[i].positive} \subseteq {n + 1}
    BY <1>3, <1>5 DEF BuffsAndCurse
<1>11. auction.riven.rank \in 0..8
  <2>1. auction.riven.rank = rank
      BY <1>1 DEF Riven
  <2> QED
      BY <2>1, WfmctlAssumption
<1> QED
    BY <1>7, <1>8, <1>9, <1>10, <1>11

\* The factors of a curse, taken once or not at all.
LEMMA PowersOfOne ==
    ASSUME NEW k \in {0, 1} PROVE 5^k \in Nat /\ 4^k \in Nat /\ 4^k > 0
<1>1. CASE k = 0
  <2>1. 5^0 = 1 /\ 4^0 = 1
      OBVIOUS
  <2> QED
      BY <1>1, <2>1
<1>2. CASE k = 1
  <2>1. 5^1 = 5 /\ 4^1 = 4
      OBVIOUS
  <2> QED
      BY <1>2, <2>1
<1> QED
    BY <1>1, <1>2

\* A quality is a number that is not negative.
LEMMA QualityType ==
    ASSUME Rolled, weapon.disposition \in Nat,
           NEW i \in DOMAIN auction.riven.attributes
    PROVE  ScoreAuction(auction.riven, weapon)[i].quality \in Nat
<1> DEFINE riven     == auction.riven
           base      == BaseValues[RivenType(weapon.category)]
           attribute == riven.attributes[i]
           d         == Denominator(riven, weapon, base[attribute.stat], attribute.positive)
           q         == RollQuality(attribute.value, d)
<1>1. ScoreAuction(riven, weapon)[i].quality =
        IF attribute.stat \notin DOMAIN base THEN 0 ELSE q
    BY DEF ScoreAuction
<1>2. /\ IsFiniteSet(DOMAIN riven.attributes)
      /\ attribute.value \in Int
      /\ \E x : {k \in DOMAIN riven.attributes : ~riven.attributes[k].positive} \subseteq {x}
      /\ riven.rank \in 0..8
    BY RolledAuction
<1>3. ASSUME attribute.stat \in DOMAIN base PROVE d \in Nat
  <2> DEFINE buffs  == Cardinality(Buffs(riven))
             cs     == Curses(riven)
             curses == IF attribute.positive THEN Cardinality(cs) ELSE 0
             atten  == AttenOf(buffs)
             bv     == base[attribute.stat]
  <2>1. buffs \in Nat
    <3>1. Buffs(riven) \subseteq DOMAIN riven.attributes
        BY DEF Buffs
    <3> QED
        BY <1>2, <3>1, FS_Subset, FS_CardinalityType
  <2>2. Cardinality(cs) \in {0, 1}
    <3>1. PICK x : cs \subseteq {x}
        BY <1>2 DEF Curses, Buffs
    <3>2. cs = {} \/ cs = {x}
        BY <3>1
    <3> QED
        BY <3>2, FS_EmptySet, FS_Singleton
  <2>3. curses \in {0, 1}
      BY <2>2
  <2>4. atten \in Nat
      BY <2>1, AttenType
  <2>5. bv \in Nat
      BY <1>3, BaseType
  <2>6. riven.rank + 1 \in Nat
      BY <1>2
  <2>7. d = (bv * weapon.disposition * atten * (riven.rank + 1) * 3 * 5^curses)
                \div (400 * 4^curses)
      BY DEF Denominator
  <2> HIDE DEF riven, base, attribute, d, buffs, cs, curses, atten, bv
  <2>8. 5^curses \in Nat /\ 4^curses \in Nat /\ 4^curses > 0
      BY <2>3, PowersOfOne
  <2>9. bv * weapon.disposition * atten * (riven.rank + 1) * 3 * 5^curses \in Nat
    <3>1. bv * weapon.disposition \in Nat
        BY <2>5, Product
    <3>2. bv * weapon.disposition * atten \in Nat
        BY <2>4, <3>1, Product
    <3>3. bv * weapon.disposition * atten * (riven.rank + 1) \in Nat
        BY <2>6, <3>2, Product
    <3>4. bv * weapon.disposition * atten * (riven.rank + 1) * 3 \in Nat
        BY <3>3
    <3> QED
        BY <2>8, <3>4, Product
  <2>10. 400 * 4^curses \in Nat /\ 400 * 4^curses > 0
      BY <2>8
  <2>11. ASSUME NEW a \in Nat, NEW b \in Nat, b > 0 PROVE a \div b \in Nat
      BY <2>11
  <2> QED
      BY <2>7, <2>9, <2>10, <2>11
<1>4. ASSUME attribute.stat \in DOMAIN base PROVE q \in Nat
  <2>1. d \in Nat
      BY <1>3, <1>4
  <2>2. attribute.value \in Int
      BY <1>2
  <2> HIDE DEF d, attribute, riven, base
  <2>3. Abs(attribute.value) \in Int
      BY <2>2 DEF Abs
  <2>4. CASE d = 0
      BY <2>4 DEF RollQuality
  <2>5. CASE d # 0
    <3>1. (5000 * Abs(attribute.value)) \div d \in Int
        BY <2>1, <2>3, <2>5, Quotient
    <3>2. Clamp((5000 * Abs(attribute.value)) \div d - 4500) \in Nat
        BY <3>1 DEF Clamp
    <3> QED
        BY <2>5, <3>2 DEF RollQuality
  <2> QED
      BY <2>4, <2>5
<1> QED
    BY <1>1, <1>4

-----------------------------------------------------------------------------
(* The two averages. *)

\* Rounding to nearest is rounding down, or one more.
LEMMA Rounding ==
    ASSUME NEW s \in Int, NEW n \in Nat, n > 0
    PROVE  /\ ((s + 5 * n) \div (10 * n)) - (s \div (10 * n)) \in {0, 1}
           /\ s \in Nat => (s + 5 * n) \div (10 * n) \in Nat
    OBVIOUS

\* Each attribute finds its own score, so both averages are of the same buffs.
LEMMA SameAverage ==
    ASSUME Rolled, weapon # NoWeapon, weapon.disposition \in Nat
    PROVE  /\ Scores = ScoreAuction(auction.riven, weapon)
           /\ Averaged = {i \in DOMAIN Scores : Scores[i].positive /\ Scores[i].known}
           /\ [i \in Averaged |-> ScoreOf(i).quality] = [i \in Averaged |-> Scores[i].quality]
           /\ \A i \in Averaged : Scores[i].quality \in Nat
           /\ IsFiniteSet(Averaged) /\ Cardinality(Averaged) \in Nat
           /\ Cardinality(Averaged) = 0 <=> Averaged = {}
<1> DEFINE A == auction.riven.attributes
<1>1. /\ Scores = ScoreAuction(auction.riven, weapon) /\ DOMAIN Scores = DOMAIN A
      /\ \A i \in DOMAIN A : Scores[i].positive = A[i].positive
    BY DEF Scores, ScoresFor, ScoreAuction
<1>2. /\ IsFiniteSet(DOMAIN A) /\ DOMAIN A \subseteq Int
      /\ \A i, j \in DOMAIN A : A[i].stat = A[j].stat => i = j
    BY RolledAuction
<1>3. \A i \in DOMAIN A : Scores[i].quality \in Nat
    BY <1>1, QualityType
<1> HIDE DEF A
<1>4. ASSUME NEW i \in DOMAIN A PROVE ScoreOf(i) = Scores[i]
  <2> DEFINE same == {j \in DOMAIN Scores : A[j].stat = A[i].stat}
  <2>1. ScoreOf(i) = Scores[CHOOSE j \in same : \A k \in same : k <= j]
      BY DEF ScoreOf, A
  <2>2. same = {i}
      BY <1>1, <1>2, <1>4
  <2> HIDE DEF same
  <2>3. (CHOOSE j \in same : \A k \in same : k <= j) = i
    <3>1. i <= i
        BY <1>2, <1>4
    <3> QED
        BY <2>2, <3>1
  <2> QED
      BY <2>1, <2>3
<1>5. Averaged = {i \in DOMAIN Scores : Scores[i].positive /\ Scores[i].known}
    BY <1>1, <1>4 DEF Averaged, A
<1>6. Averaged \subseteq DOMAIN A
    BY <1>1, <1>5
<1>7. IsFiniteSet(Averaged)
    BY <1>2, <1>6, FS_Subset
<1> QED
    BY <1>1, <1>3, <1>4, <1>5, <1>6, <1>7, FS_CardinalityType, FS_EmptySet

\* The row shows the quality of the scores behind it, or one more.
LEMMA RowOfScores ==
    ASSUME CommandInv, pc = "done", row # Blank
    PROVE  IF row = NA THEN AvgRollQuality(Scores) = 0
           ELSE row - AvgRollQuality(Scores) \in {0, 1}
<1>1. row = RollText /\ Rolled /\ (weapon # NoWeapon => WeaponIsFound)
    BY DEF CommandInv, RowIsRollText
<1> DEFINE rated == {i \in DOMAIN Scores : Scores[i].positive /\ Scores[i].known}
           n     == Cardinality(rated)
           s     == Sum([i \in rated |-> Scores[i].quality])
<1>2. AvgRollQuality(Scores) = IF rated = {} THEN 0 ELSE s \div (10 * n)
    BY DEF AvgRollQuality
<1>3. CASE weapon = NoWeapon
  <2>1. Scores = <<>>
      BY <1>3 DEF Scores, ScoresFor
  <2>2. rated = {} /\ Averaged = {}
      BY <2>1 DEF Averaged
  <2>3. row = NA
      BY <1>1, <2>2, FS_EmptySet DEF RollText
  <2> QED
      BY <1>2, <2>2, <2>3
<1>4. CASE weapon # NoWeapon
  <2>1. weapon.disposition \in Nat
      BY <1>1, <1>4, WeaponType DEF WeaponIsFound
  <2>2. /\ Averaged = rated
        /\ [i \in Averaged |-> ScoreOf(i).quality] = [i \in Averaged |-> Scores[i].quality]
        /\ \A i \in Averaged : Scores[i].quality \in Nat
        /\ IsFiniteSet(Averaged) /\ Cardinality(Averaged) \in Nat
        /\ Cardinality(Averaged) = 0 <=> Averaged = {}
      BY <1>1, <1>4, <2>1, SameAverage
  <2> HIDE DEF rated
  <2>3. RollText = IF n = 0 THEN NA ELSE (s + 5 * n) \div (10 * n)
      BY <2>2 DEF RollText
  <2>4. s \in Nat
    <3>1. [i \in rated |-> Scores[i].quality] \in [rated -> Nat]
        BY <2>2
    <3> QED
        BY <2>2, <3>1, SumNat
  <2>5. n \in Nat /\ (n = 0 <=> rated = {})
      BY <2>2
  <2> HIDE DEF n, s
  <2>6. CASE n = 0
      BY <1>1, <1>2, <2>3, <2>5, <2>6
  <2>7. CASE n # 0
    <3>1. /\ ((s + 5 * n) \div (10 * n)) - (s \div (10 * n)) \in {0, 1}
          /\ (s + 5 * n) \div (10 * n) \in Nat
        BY <2>4, <2>5, <2>7, Rounding
    <3>2. row = (s + 5 * n) \div (10 * n) /\ AvgRollQuality(Scores) = s \div (10 * n)
        BY <1>1, <1>2, <2>3, <2>5, <2>7
    <3>3. row # NA
        BY <3>1, <3>2 DEF NA
    <3> QED
        BY <3>1, <3>2, <3>3
  <2> QED
      BY <2>6, <2>7
<1> QED
    BY <1>3, <1>4

\* The export lists no weapon under a slug of several words.
LEMMA SlugOfWords ==
    ASSUME file \in Exports, auction.slug.between = "_"
    PROVE  WatchWeapon = NoWeapon
<1> SUFFICES ASSUME WatchWeapon # NoWeapon PROVE FALSE
    OBVIOUS
<1>1. PICK i \in DOMAIN file.weapons : file.weapons[i].name = auction.slug
    BY WeaponListed DEF WatchWeapon
<1> QED
    BY <1>1, WeaponNames

\* A row that is what was made of it agrees with the watch of a slug of one word,
\* and the watch of a slug of several compares 0.
LEMMA RowAgrees == ASSUME CommandInv PROVE WatchAgrees
<1> DEFINE slug    == auction.slug
           quality == AvgRollQuality(ScoresFor(WatchWeapon))
<1> SUFFICES ASSUME pc = "done", row # Blank, file # NoFile,
                    weapon = GetWeaponByName(SlugToName(slug))
             PROVE  IF row = NA \/ slug.between = "_" THEN quality = 0
                    ELSE row - quality \in {0, 1}
    BY DEF WatchAgrees
<1>1. CASE slug.between = "_"
  <2>1. file \in Exports
      BY DEF CommandInv, IInv, TypeOK
  <2>2. ScoresFor(WatchWeapon) = <<>>
      BY <1>1, <2>1, SlugOfWords DEF ScoresFor
  <2>3. {i \in DOMAIN <<>> : <<>>[i].positive /\ <<>>[i].known} = {}
      OBVIOUS
  <2>4. quality = 0
      BY <2>2, <2>3 DEF AvgRollQuality
  <2> QED
      BY <1>1, <2>4
<1>2. CASE slug.between # "_"
  <2>1. SlugToName(slug) = slug
      BY <1>2 DEF SlugToName
  <2>2. WatchWeapon = weapon
      BY <2>1 DEF WatchWeapon
  <2>3. quality = AvgRollQuality(Scores)
      BY <2>2 DEF Scores
  <2> HIDE DEF quality
  <2> QED
      BY <1>2, <2>3, RowOfScores
<1> QED
    BY <1>1, <1>2

-----------------------------------------------------------------------------
(* Scoring inverts the formula. *)

\* What times the divisor is no more than the dividend is no more than the quotient.
LEMMA AtMostQuotient ==
    ASSUME NEW a \in Int, NEW j \in Int, NEW d \in Nat, d > 0, d * j <= a
    PROVE  j <= a \div d
<1> DEFINE q == a \div d
<1>1. q \in Int /\ a < d * (q + 1)
    OBVIOUS
<1> HIDE DEF q
<1>2. d * j < d * (q + 1)
    BY <1>1
<1>3. j < q + 1
  <2> SUFFICES ASSUME q + 1 <= j PROVE FALSE
      BY <1>1
  <2>1. PICK k \in Nat : j = (q + 1) + k
    <3>1. j - (q + 1) \in Nat /\ j = (q + 1) + (j - (q + 1))
        BY <1>1
    <3> QED
        BY <3>1
  <2>2. d * j = d * (q + 1) + d * k
      BY <1>1, <2>1
  <2>3. d * k \in Nat
      BY Product
  <2> QED
      BY <1>1, <1>2, <2>2, <2>3
<1>4. j <= q
    BY <1>1, <1>3
<1> QED
    BY <1>4 DEF q

\* What times the divisor is no less than the dividend is no less than the quotient.
LEMMA AtLeastQuotient ==
    ASSUME NEW a \in Int, NEW j \in Int, NEW d \in Nat, d > 0, a <= d * j
    PROVE  a \div d <= j
<1> DEFINE q == a \div d
<1>1. q \in Int /\ d * q <= a
    OBVIOUS
<1> HIDE DEF q
<1>2. q <= j
  <2> SUFFICES ASSUME j + 1 <= q PROVE FALSE
      BY <1>1
  <2>1. PICK k \in Nat : q = (j + 1) + k
    <3>1. q - (j + 1) \in Nat /\ q = (j + 1) + (q - (j + 1))
        BY <1>1
    <3> QED
        BY <3>1
  <2>2. d * q = d * j + d + d * k
      BY <2>1
  <2>3. d * k \in Nat /\ d * j \in Int
      BY Product
  <2> QED
      BY <1>1, <2>2, <2>3
<1> QED
    BY <1>2 DEF q

\* The curse strengthens a buff by a quarter. The game rounds the quarter down and
\* the score only the result: they differ by one at most.
LEMMA CurseRounding ==
    ASSUME NEW p \in Nat
    PROVE  /\ ((p + p \div 4) * 3) \div 400 <= (15 * p) \div 1600
           /\ ((p + p \div 4) * 3) \div 400 >= (15 * p) \div 1600 - 1
<1> DEFINE a == p \div 4
           b == p % 4
<1>1. a \in Nat /\ b \in 0..3 /\ p = 4 * a + b
    OBVIOUS
<1> HIDE DEF a, b
<1>2. (p + a) * 3 = 15 * a + 3 * b /\ 15 * p = 60 * a + 15 * b
    BY <1>1
<1>3. /\ (15 * a + 3 * b) \div 400 <= (60 * a + 15 * b) \div 1600
      /\ (15 * a + 3 * b) \div 400 >= (60 * a + 15 * b) \div 1600 - 1
    BY <1>1
<1> QED
    BY <1>2, <1>3 DEF a

\* The quality of a value is that of the roll it was made of, or less by what its own
\* rounding and that of the curse cost.
Recovers(quality, v, roll) ==
    /\ v \in Nat /\ v > 0
    /\ quality \in roll - (1 + 11550 \div v)..roll

\* A value made of a roll and of what the game makes of the other factors, which is
\* the denominator or, with a curse, one less.
MadeOf(v, m, roll) == v = (m * (4500 + roll)) \div 5000
Matches(m, d)      == d - 1 <= m /\ m <= d /\ m >= 2

\* Scoring a value finds the roll it was made of, up to the rounding.
LEMMA RollFound ==
    ASSUME NEW d \in Nat, NEW m \in Nat, Matches(m, d),
           NEW r \in Tenths,
           NEW v, MadeOf(v, m, r)
    PROVE  Recovers(RollQuality(v, d), v, r)
<1>0. d - 1 <= m /\ m <= d /\ m >= 2 /\ v = (m * (4500 + r)) \div 5000
    BY DEF Matches, MadeOf
<1>  USE DEF Tenths
<1> DEFINE k == 4500 + r
           q == (5000 * v) \div d
           e == 11550 \div v
<1>1. k \in Nat /\ 4500 <= k /\ k <= 5500 /\ d > 0
    BY <1>0
<1> HIDE DEF k
<1>2. m * k \in Nat /\ d * k \in Nat
    BY <1>1, Product
<1>3. m * k <= d * k /\ d * k <= m * k + k
  <2>1. CASE m = d
      BY <1>1, <1>2, <2>1
  <2>2. CASE m = d - 1
    <3>1. (d - 1) * k = d * k - k
        BY <1>1
    <3> QED
        BY <1>1, <1>2, <2>2, <3>1
  <2> QED
      BY <1>0, <2>1, <2>2
<1>4. v = (m * k) \div 5000
    BY <1>0 DEF k
<1>5. v \in Nat /\ 5000 * v <= m * k /\ m * k <= 5000 * v + 4999
  <2>1. ASSUME NEW x \in Nat
        PROVE  x \div 5000 \in Nat /\ 5000 * (x \div 5000) <= x /\ x <= 5000 * (x \div 5000) + 4999
      OBVIOUS
  <2> QED
      BY <1>2, <1>4, <2>1
<1>6. v > 0
  <2>1. m * k >= 2 * k
    <3>1. m - 2 \in Nat /\ (m - 2) * k \in Nat
        BY <1>0, <1>1, Product
    <3>2. m * k = (m - 2) * k + 2 * k
        BY <1>1
    <3> QED
        BY <1>1, <1>2, <3>1, <3>2
  <2> QED
      BY <1>1, <1>2, <1>5, <2>1
<1>7. q \in Int /\ q <= k
  <2>1. 5000 * v <= d * k
      BY <1>2, <1>3, <1>5
  <2>2. 5000 * v \in Int
      BY <1>5
  <2>3. q <= k
      BY <1>1, <2>1, <2>2, AtLeastQuotient
  <2>4. q \in Int
      BY <1>1, <2>2, Quotient
  <2> QED
      BY <2>3, <2>4
<1>8. e \in Nat /\ 11550 < v * (e + 1)
    BY <1>5, <1>6
<1> HIDE DEF e
<1>9. d * (e + 1) >= 10500
  <2>1. d * k <= 5500 * d
    <3>1. 5500 - k \in Nat /\ d * (5500 - k) \in Nat
        BY <1>1, Product
    <3>2. d * (5500 - k) = 5500 * d - d * k
        BY <1>1
    <3> QED
        BY <1>2, <3>1, <3>2
  <2>2. 10 * v <= 11 * d
      BY <1>2, <1>3, <1>5, <2>1
  <2>3. 11 * d - 10 * v \in Nat /\ e + 1 \in Nat
      BY <1>5, <1>8, <2>2
  <2>4. (11 * d - 10 * v) * (e + 1) \in Nat
      BY <2>3, Product
  <2>5. (11 * d - 10 * v) * (e + 1) = 11 * (d * (e + 1)) - 10 * (v * (e + 1))
      BY <1>5, <1>8
  <2>6. d * (e + 1) \in Nat /\ v * (e + 1) \in Nat
      BY <1>5, <2>3, Product
  <2> QED
      BY <1>8, <2>4, <2>5, <2>6
<1>10. q >= k - (1 + e)
  <2>1. d * (k - (1 + e)) = d * k - d * (e + 1)
      BY <1>1, <1>8
  <2>2. d * (e + 1) \in Int
      BY <1>8
  <2>3. d * (k - (1 + e)) <= 5000 * v
      BY <1>1, <1>2, <1>3, <1>5, <1>9, <2>1, <2>2
  <2>4. 5000 * v \in Int /\ k - (1 + e) \in Int
      BY <1>1, <1>5, <1>8
  <2> QED
      BY <1>1, <2>3, <2>4, AtMostQuotient
<1>11. RollQuality(v, d) = Clamp(q - 4500)
    BY <1>1, <1>5 DEF RollQuality, Abs
<1> HIDE DEF q
<1>12. Clamp(q - 4500) \in r - (1 + e)..r
    BY <1>7, <1>8, <1>10 DEF Clamp, k
<1> QED
    BY <1>5, <1>6, <1>11, <1>12 DEF e, Recovers

\* Larger factors make a larger product.
LEMMA Larger ==
    ASSUME NEW a \in Nat, NEW b \in Nat, NEW x \in Nat, NEW y \in Nat, x <= a, y <= b
    PROVE  a * b \in Nat /\ x * y \in Nat /\ x * y <= a * b
<1>1. a - x \in Nat /\ b - y \in Nat
    OBVIOUS
<1>2. (a - x) * b \in Nat /\ x * (b - y) \in Nat /\ a * b \in Nat /\ x * y \in Nat
    BY <1>1, Product
<1>3. a * b - x * y = (a - x) * b + x * (b - y)
    OBVIOUS
<1> QED
    BY <1>2, <1>3

\* The value of a buff.
LEMMA BuffValue ==
    ASSUME NEW w \in Weapons, NEW rank \in Ranks, NEW rolls \in Rolls, NEW cursed,
           NEW i \in Rated(w, rolls)
    PROVE  Riven(w, rank, rolls, cursed).attributes[i].value =
              ShownValue(BaseValues[RivenType(w.category)][Stats[i]], rolls[i], Len(rolls),
                         cursed, rank, w)
<1> DEFINE A     == Riven(w, rank, rolls, cursed).attributes
           n     == Len(rolls)
           shown == [k \in DOMAIN rolls |->
                        ShownValue(BaseValues[RivenType(w.category)][Stats[k]], rolls[k], n,
                                   cursed, rank, w)]
           buffs == [k \in DOMAIN rolls |->
                        [stat |-> Stats[k], positive |-> TRUE,
                         value |-> IF k \in Rated(w, rolls)
                                   THEN ShownValue(BaseValues[RivenType(w.category)][Stats[k]],
                                                   rolls[k], n, cursed, rank, w)
                                   ELSE 1000]]
           curse == [stat |-> CurseStat, positive |-> FALSE, value |-> -1000]
<1>1. n \in Nat /\ DOMAIN rolls = 1..n
    BY RollsType
<1>2. A = IF cursed THEN Append(buffs, curse) ELSE buffs
    BY DEF Riven
<1>3. i \in DOMAIN rolls
    BY DEF Rated
<1>4. buffs[i].value = shown[i] /\ DOMAIN buffs = DOMAIN rolls
    BY <1>3
<1>5. IsSequence(buffs) /\ Len(buffs) = n
    BY <1>1 DEF IsSequence
<1> HIDE DEF buffs, curse, A
<1>6. A[i] = buffs[i]
  <2>1. CASE cursed
    <3>1. \A k \in DOMAIN buffs : Append(buffs, curse)[k] = buffs[k]
        BY <1>5, SequenceAppend
    <3> QED
        BY <1>2, <1>3, <1>4, <2>1, <3>1
  <2>2. CASE ~cursed
      BY <1>2, <2>2
  <2> QED
      BY <2>1, <2>2
<1>7. shown[i] = ShownValue(BaseValues[RivenType(w.category)][Stats[i]], rolls[i], n,
                            cursed, rank, w)
    BY <1>3
<1> HIDE DEF shown
<1> QED
    BY <1>4, <1>6, <1>7 DEF A

\* The buffs of a riven count as many as it has rolls, the curses none or one.
LEMMA BuffsCounted ==
    ASSUME NEW riven, NEW n, NEW cursed \in BOOLEAN,
           BuffsAndCurse(riven.attributes, n, cursed)
    PROVE  /\ Cardinality(Buffs(riven)) = n
           /\ Cardinality(Curses(riven)) = IF cursed THEN 1 ELSE 0
<1> DEFINE A == riven.attributes
<1>1. n \in Nat
    BY DEF BuffsAndCurse
<1>2. Buffs(riven) = 1..n
    BY <1>1 DEF BuffsAndCurse, Buffs
<1>3. Curses(riven) = IF cursed THEN {n + 1} ELSE {}
    BY <1>1, <1>2 DEF BuffsAndCurse, Curses
<1>4. Cardinality(1..n) = n
  <2>1. \A m \in Nat : Cardinality(1..m) = m
      BY FS_Interval
  <2> QED
      BY <1>1, <2>1
<1> QED
    BY <1>2, <1>3, <1>4, FS_EmptySet, FS_Singleton

\* The quality of a rated buff is the roll its value was made of, up to the rounding.
LEMMA RatedRoll ==
    ASSUME NEW w \in Weapons, NEW rank \in Ranks, NEW rolls \in Rolls, NEW cursed \in BOOLEAN,
           NEW i \in Rated(w, rolls),
           NEW riven, riven = Riven(w, rank, rolls, cursed),
           NEW v, v = riven.attributes[i].value
    PROVE  Recovers(RollQuality(v, Denominator(riven, w, BaseValues[RivenType(w.category)][Stats[i]],
                                               TRUE)),
                    v, rolls[i])
<1> DEFINE base  == BaseValues[RivenType(w.category)][Stats[i]]
           n     == Len(rolls)
           atten == NumBuffsAtten[n]
           p     == base * w.disposition * atten * (rank + 1)
           full  == IF cursed THEN p + p \div 4 ELSE p
           m     == (full * 3) \div 400
           d     == Denominator(riven, w, base, TRUE)
<1>1. BuffsAndCurse(riven.attributes, n, cursed)
  <2> HIDE DEF n
  <2>1. BuffsAndCurse(Riven(w, rank, rolls, cursed).attributes, Len(rolls), cursed)
      BY Attributes
  <2> QED
      BY <2>1 DEF n
<1>2. w.disposition \in Nat /\ w.disposition >= 1 /\ rank \in 0..8
    BY WfmctlAssumption
<1>3. n \in 1..5 /\ rolls[i] \in Tenths
  <2>1. /\ n \in 0..5 /\ DOMAIN rolls = 1..n
        /\ \A k \in DOMAIN rolls : rolls[k] \in Tenths
      BY RollsType
  <2>2. i \in DOMAIN rolls
      BY DEF Rated
  <2> QED
      BY <2>1, <2>2
<1>4. base \in Nat /\ base >= 50
    BY BaseType DEF Rated
<1>5. atten \in Nat /\ atten >= 35 /\ AttenOf(n) = atten
  <2> HIDE DEF n
  <2>1. n \in Nat /\ n <= 5
      BY <1>3
  <2> QED
      BY <1>3, <2>1, AttenType
<1>6. riven.rank = rank
    BY DEF Riven
<1>7. MadeOf(v, m, rolls[i])
  <2>1. v = ShownValue(base, rolls[i], n, cursed, rank, w)
    <3> HIDE DEF n
    <3>1. Riven(w, rank, rolls, cursed).attributes[i].value =
              ShownValue(BaseValues[RivenType(w.category)][Stats[i]], rolls[i], Len(rolls),
                         cursed, rank, w)
        BY BuffValue
    <3> QED
        BY <3>1 DEF n
  <2> QED
      BY <2>1 DEF ShownValue, MadeOf
<1>8. LET curses == IF cursed THEN 1 ELSE 0
      IN  d = (p * 3 * 5^curses) \div (400 * 4^curses)
  <2>1. /\ Cardinality(Buffs(riven)) = n
        /\ Cardinality(Curses(riven)) = IF cursed THEN 1 ELSE 0
    <3> HIDE DEF n
    <3> QED
        BY <1>1, BuffsCounted
  <2> HIDE DEF n, base
  <2> QED
      BY <1>5, <1>6, <2>1 DEF Denominator
<1> HIDE DEF base, n, atten
<1>9. p \in Nat /\ p >= 1750
  <2>1. base * w.disposition \in Nat /\ base * w.disposition >= 50 * 1
      BY <1>2, <1>4, Larger
  <2>2. base * w.disposition * atten \in Nat /\ base * w.disposition * atten >= 50 * 35
      BY <1>5, <2>1, Larger
  <2>3. rank + 1 \in Nat /\ rank + 1 >= 1
      BY <1>2
  <2>4. /\ base * w.disposition * atten * (rank + 1) \in Nat
        /\ base * w.disposition * atten * (rank + 1) >= 1750 * 1
      BY <2>2, <2>3, Larger
  <2> QED
      BY <2>4
<1> HIDE DEF p, d
<1>10. m \in Nat /\ m >= 2
    BY <1>9
<1>11. d - 1 <= m /\ m <= d /\ d \in Nat
  <2>1. CASE cursed
    <3>1. 5^1 = 5 /\ 4^1 = 4
        OBVIOUS
    <3>2. d = (p * 3 * 5) \div (400 * 4)
        BY <1>8, <2>1, <3>1
    <3>3. d = (15 * p) \div 1600
        BY <1>9, <3>2
    <3>4. m = ((p + p \div 4) * 3) \div 400
        BY <2>1
    <3>5. d \in Nat
        BY <1>9, <3>3
    <3>6. m <= d /\ m >= d - 1
        BY <1>9, <3>3, <3>4, CurseRounding
    <3> QED
        BY <1>10, <3>5, <3>6
  <2>2. CASE ~cursed
    <3>1. 5^0 = 1 /\ 4^0 = 1
        OBVIOUS
    <3>2. d = (p * 3 * 1) \div (400 * 1)
        BY <1>8, <2>2, <3>1
    <3>3. d = m
        BY <1>9, <2>2, <3>2
    <3> QED
        BY <1>10, <3>3
  <2> QED
      BY <2>1, <2>2
<1> HIDE DEF full, m
<1>12. Matches(m, d)
    BY <1>10, <1>11 DEF Matches
<1>13. rolls[i] \in Tenths /\ m \in Nat /\ d \in Nat
    BY <1>3, <1>10, <1>11
<1>14. Recovers(RollQuality(v, d), v, rolls[i])
    BY <1>7, <1>12, <1>13, RollFound, Zenon
<1> QED
    BY <1>14 DEF d, base

\* A rounded average times the number is the sum, up to half a unit each.
LEMMA Restored ==
    ASSUME NEW s \in Int, NEW n \in Nat, n > 0, NEW w, w = (s + 5 * n) \div (10 * n)
    PROVE  w \in Int /\ 10 * w * n <= s + 5 * n /\ 10 * w * n >= s - 5 * n
<1>1. 10 * n \in Nat /\ 10 * n > 0 /\ s + 5 * n \in Int
    OBVIOUS
<1>2. ASSUME NEW a \in Int, NEW b \in Nat, b > 0
      PROVE  a \div b \in Int /\ b * (a \div b) <= a /\ a <= b * (a \div b) + b
    BY <1>2
<1>3. /\ w \in Int /\ (10 * n) * w <= s + 5 * n
      /\ s + 5 * n <= (10 * n) * w + 10 * n
    BY <1>1, <1>2
<1>4. 10 * w * n = (10 * n) * w
    BY <1>3
<1> QED
    BY <1>3, <1>4

\* Bounds that hold for each element hold for the sums.
LEMMA SumsWithin ==
    ASSUME NEW D, IsFiniteSet(D), NEW r \in [D -> Int], NEW l \in [D -> Int],
           NEW q \in [D -> Int], \A i \in D : q[i] \in r[i] - l[i]..r[i]
    PROVE  /\ Sum(q) \in Int /\ Sum(r) \in Int /\ Sum(l) \in Int
           /\ Sum(q) <= Sum(r) /\ Sum(r) <= Sum(q) + Sum(l)
<1>1. \A i \in D : r[i] \in Int /\ l[i] \in Int /\ q[i] \in Int
    OBVIOUS
<1>2. Sum(q) <= Sum(r)
  <2>1. \A i \in D : q[i] <= r[i]
      BY <1>1
  <2> QED
      BY <2>1, SumMonotone
<1> DEFINE both == [i \in D |-> q[i] + l[i]]
<1>3. both \in [D -> Int] /\ \A i \in D : r[i] <= both[i]
    BY <1>1
<1>4. Sum(both) = Sum(q) + Sum(l)
    BY SumPlus
<1> HIDE DEF both
<1>5. Sum(r) <= Sum(both)
    BY <1>3, SumMonotone
<1>6. Sum(q) \in Int /\ Sum(r) \in Int /\ Sum(l) \in Int
    BY SumType
<1> QED
    BY <1>2, <1>4, <1>5, <1>6

\* A row that is what was made of it shows the rolls.
LEMMA RowRecovers == ASSUME CommandInv PROVE RollsRecovered
<1> DEFINE riven == auction.riven
           w     == auction.weapon
           rolls == auction.rolls
           rated == Rated(w, rolls)
           n     == Cardinality(rated)
           r     == [i \in rated |-> rolls[i]]
           l     == [i \in rated |-> 1 + 11550 \div riven.attributes[i].value]
           q     == [i \in rated |-> Scores[i].quality]
<1> SUFFICES ASSUME pc = "done", row # Blank, row # NA,
                    \A i \in DOMAIN file.weapons :
                        file.weapons[i].name = SlugToName(auction.slug) => file.weapons[i] = w
             PROVE  10 * row * n - Sum(r) \in -(5 * n + Sum(l))..5 * n
    BY DEF RollsRecovered
<1>1. row = RollText /\ Rolled /\ (weapon # NoWeapon => WeaponIsFound)
    BY DEF CommandInv, RowIsRollText
<1>2. weapon # NoWeapon
  <2> SUFFICES ASSUME weapon = NoWeapon PROVE FALSE
      OBVIOUS
  <2>1. Averaged = {}
      BY DEF Scores, ScoresFor, Averaged
  <2> QED
      BY <1>1, <2>1, FS_EmptySet DEF RollText
<1>3. weapon = w /\ weapon.disposition \in Nat
  <2>1. file \in Exports /\ weapon = GetWeaponByName(SlugToName(auction.slug))
      BY <1>1, <1>2 DEF WeaponIsFound
  <2> QED
      BY <1>2, <2>1, WeaponListed, WeaponType
<1>4. PICK rank \in Ranks, cursed \in BOOLEAN : riven = Riven(w, rank, rolls, cursed)
    BY <1>1 DEF Rolled
<1>5. w \in Weapons /\ rolls \in Rolls
    BY <1>1 DEF Rolled
<1>6. BuffsAndCurse(riven.attributes, Len(rolls), cursed)
    BY <1>4, <1>5, Attributes
<1>7. /\ DOMAIN rolls = 1..Len(rolls) /\ Len(rolls) \in Nat
      /\ \A i \in DOMAIN rolls : rolls[i] \in Int
  <2> HIDE DEF rolls
  <2>1. /\ DOMAIN rolls = 1..Len(rolls) /\ Len(rolls) \in 0..5
        /\ \A i \in DOMAIN rolls : rolls[i] \in Tenths
      BY <1>5, RollsType
  <2>2. Tenths \subseteq Int /\ 0..5 \subseteq Nat
      BY DEF Tenths
  <2> QED
      BY <2>1, <2>2
<1>8. /\ Scores = ScoreAuction(riven, w)
      /\ Averaged = {i \in DOMAIN Scores : Scores[i].positive /\ Scores[i].known}
      /\ [i \in Averaged |-> ScoreOf(i).quality] = [i \in Averaged |-> Scores[i].quality]
      /\ \A i \in Averaged : Scores[i].quality \in Nat
      /\ IsFiniteSet(Averaged) /\ Cardinality(Averaged) \in Nat
    BY <1>1, <1>2, <1>3, SameAverage
<1> HIDE DEF riven, w, rolls
<1> DEFINE A    == riven.attributes
           base == BaseValues[RivenType(w.category)]
<1>9. /\ DOMAIN Scores = DOMAIN A
      /\ \A i \in DOMAIN A :
            /\ Scores[i].positive <=> A[i].positive
            /\ Scores[i].known <=> A[i].stat \in DOMAIN base
            /\ A[i].stat \in DOMAIN base =>
                  Scores[i].quality = RollQuality(A[i].value,
                                        Denominator(riven, w, base[A[i].stat], A[i].positive))
    BY <1>8 DEF ScoreAuction
<1>10. /\ \A i \in DOMAIN rolls : /\ i \in DOMAIN A /\ A[i].stat = Stats[i]
                                  /\ A[i].positive = TRUE
       /\ \A i \in DOMAIN A : A[i].positive => i \in DOMAIN rolls
    BY <1>6, <1>7 DEF BuffsAndCurse
<1>11. Averaged = rated
  <2> HIDE DEF A, base
  <2>1. rated = {i \in DOMAIN rolls : Stats[i] \in DOMAIN base}
      BY DEF Rated, base
  <2> HIDE DEF rated, n, r, l, q
  <2>2. ASSUME NEW i PROVE i \in Averaged <=> i \in rated
    <3>1. i \in Averaged <=> i \in DOMAIN A /\ A[i].positive /\ A[i].stat \in DOMAIN base
        BY <1>8, <1>9, Zenon
    <3>2. i \in rated <=> i \in DOMAIN rolls /\ Stats[i] \in DOMAIN base
        BY <2>1
    <3> QED
        BY <1>10, <3>1, <3>2
  <2> QED
      BY <2>2
<1>12. ASSUME NEW i \in rated
       PROVE  r[i] \in Int /\ l[i] \in Int /\ q[i] \in Int /\ q[i] \in r[i] - l[i]..r[i]
  <2>1. i \in DOMAIN rolls /\ Stats[i] \in DOMAIN base
      BY DEF Rated
  <2> DEFINE v == riven.attributes[i].value
  <2>2. Scores[i].quality = RollQuality(v, Denominator(riven, w, base[Stats[i]], TRUE))
      BY <1>9, <1>10, <2>1
  <2>3. Recovers(RollQuality(v, Denominator(riven, w, base[Stats[i]], TRUE)), v, rolls[i])
      BY <1>4, <1>5, RatedRoll
  <2>4. r[i] = rolls[i] /\ l[i] = 1 + 11550 \div v /\ q[i] = Scores[i].quality
      OBVIOUS
  <2> HIDE DEF r, l, q, n, v, base, A, rated
  <2>5. rolls[i] \in Int
      BY <1>7, <2>1
  <2>6. v \in Nat /\ v > 0 /\ q[i] \in rolls[i] - (1 + 11550 \div v)..rolls[i]
    <3>1. q[i] = RollQuality(v, Denominator(riven, w, base[Stats[i]], TRUE))
        BY <2>2, <2>4
    <3>2. Recovers(q[i], v, rolls[i])
        BY <2>3, <3>1
    <3> QED
        BY <3>2 DEF Recovers
  <2>7. 11550 \div v \in Int
      BY <2>6, Quotient
  <2> DEFINE e == 11550 \div v
  <2> HIDE DEF e
  <2>8. q[i] \in rolls[i] - (1 + e)..rolls[i] /\ e \in Int /\ l[i] = 1 + e
      BY <2>4, <2>6, <2>7 DEF e
  <2> QED
      BY <2>4, <2>5, <2>8
<1>13. r \in [rated -> Int] /\ l \in [rated -> Int] /\ q \in [rated -> Int]
  <2>1. r = [i \in rated |-> r[i]] /\ l = [i \in rated |-> l[i]] /\ q = [i \in rated |-> q[i]]
      OBVIOUS
  <2> HIDE DEF r, l, q, rated
  <2> QED
      BY <1>12, <2>1
<1>14. RollText = IF n = 0 THEN NA ELSE (Sum(q) + 5 * n) \div (10 * n)
    BY <1>8, <1>11 DEF RollText
<1> HIDE DEF r, l, q
<1>15. IsFiniteSet(rated) /\ n \in Nat
    BY <1>8, <1>11
<1> HIDE DEF rated
<1>16. /\ Sum(q) \in Int /\ Sum(r) \in Int /\ Sum(l) \in Int
       /\ Sum(q) <= Sum(r) /\ Sum(r) <= Sum(q) + Sum(l)
    BY <1>12, <1>13, <1>15, SumsWithin
<1> HIDE DEF n
<1>17. n > 0 /\ row = (Sum(q) + 5 * n) \div (10 * n)
    BY <1>1, <1>14, <1>15
<1>18. row \in Int /\ 10 * row * n <= Sum(q) + 5 * n /\ 10 * row * n >= Sum(q) - 5 * n
    BY <1>15, <1>16, <1>17, Restored
<1>19. 10 * row * n \in Int
    BY <1>15, <1>18
<1> QED
    BY <1>15, <1>16, <1>18, <1>19

-----------------------------------------------------------------------------
(* The list of orders. *)

\* The limit 0 cuts nothing off.
LEMMA Unlimited == ASSUME NEW rows PROVE Limited(rows, 0) = rows
    BY DEF Limited

\* A limit leaves the first orders of a list.
LEMMA LimitedList ==
    ASSUME NEW t \in Seq(Order), NEW limit \in Nat
    PROVE  Cut(Limited(t, limit), t, limit)
<1>1. Len(t) \in Nat
    OBVIOUS
<1>2. CASE limit > 0 /\ Len(t) > limit
  <2>1. Limited(t, limit) = SubSeq(t, 1, limit)
      BY <1>2 DEF Limited
  <2>2. \A k \in 1..limit : t[k] \in Order
    <3>1. \A k \in 1..limit : k \in 1..Len(t)
        BY <1>1, <1>2
    <3> QED
        BY <3>1, ElementOfSeq
  <2>3. /\ SubSeq(t, 1, limit) \in Seq(Order) /\ Len(SubSeq(t, 1, limit)) = limit
        /\ \A k \in 1..limit : SubSeq(t, 1, limit)[k] = t[k]
      BY <1>2, <2>2, SubSeqProperties
  <2>4. limit \in 0..Len(t)
      BY <1>1, <1>2
  <2> QED
      BY <2>1, <2>3, <2>4 DEF Cut
<1>3. CASE ~(limit > 0 /\ Len(t) > limit)
  <2>1. Limited(t, limit) = t
      BY <1>3 DEF Limited
  <2>2. Len(t) \in 0..Len(t)
      BY <1>1
  <2> QED
      BY <2>1, <2>2 DEF Cut
<1> QED
    BY <1>2, <1>3

\* A list is of orders and a filter, and it is cut and sorted from what the market
\* listed.
TableIsList ==
    cmd = "orders list" =>
        /\ Sortable(reply, query.filter) /\ query.limit \in Nat
        /\ table = Limited(GetOrdersByItem(reply, query.filter), query.limit)

\* No table is shown before the command has run.
LEMMA InitListed == ASSUME CommandInit PROVE TableIsList
<1>1. /\ query = NoQuery /\ query.filter = PartFilter /\ query.limit = 0
      /\ reply = <<>> /\ table = <<>>
    BY DEF CommandInit, NoQuery
<1>2. PartFilter \in OrdersFilter /\ Sorts(PartFilter)
    BY DEF PartFilter, OrdersFilter, OrderTypes, UserStatuses, Sorts
<1>3. Sortable(<<>>, PartFilter) /\ GetOrdersByItem(<<>>, PartFilter) = <<>>
    BY <1>2, ListsNothing
<1>4. Limited(<<>>, 0) = <<>>
    BY Unlimited
<1>5. table = Limited(GetOrdersByItem(reply, query.filter), query.limit)
    BY <1>1, <1>3, <1>4, Zenon
<1>6. Sortable(reply, query.filter) /\ query.limit \in Nat
    BY <1>1, <1>3
<1> QED
    BY <1>5, <1>6 DEF TableIsList

\* Every step of a command keeps the table the list it asked for.
LEMMA NextListed ==
    ASSUME TableIsList, [CommandNext]_<<vars, commandVars>>
    PROVE  TableIsList'
<1>1. CASE ListOrders
  <2>1. PICK orders \in Replies, filter \in Filters, limit \in Limits :
            /\ query' = [filter |-> filter, limit |-> limit]
            /\ reply' = orders
            /\ table' = Limited(GetOrdersByItem(orders, filter), limit)
      BY <1>1 DEF ListOrders
  <2>2. Sortable(orders, filter) /\ limit \in Nat
      BY WfmctlAssumption DEF Sortable
  <2>3. query'.filter = filter /\ query'.limit = limit
      BY <2>1
  <2> QED
      BY <2>1, <2>2, <2>3 DEF TableIsList
<1>2. CASE ShowTopOrders \/ SearchItems \/ ShowItem \/ ShowRecipe \/ ShowSetInfo
  <2>1. cmd # "orders list" /\ cmd' = cmd
      BY <1>2 DEF ShowTopOrders, SearchItems, ShowItem, ShowRecipe, ShowSetInfo, Ends
  <2> QED
      BY <2>1 DEF TableIsList
<1>3. CASE RequestEnds \/ SetStep \/ SearchReplies \/ FindWeapon \/ LookupFails \/ ShowRow
           \/ UNCHANGED <<vars, commandVars>>
  <2>1. UNCHANGED <<cmd, query, reply, table>>
      BY <1>3 DEF RequestEnds, Ends, SetStep, SearchReplies, FindWeapon, LookupFails, ShowRow,
                  commandVars, listVars
  <2> QED
      BY <2>1 DEF TableIsList
<1> QED
    BY <1>1, <1>2, <1>3 DEF CommandNext

\* A table that is the list, cut at the limit, shows the best orders.
LEMMA ListedBest == ASSUME TableIsList PROVE ListedAreBest
<1> SUFFICES ASSUME cmd = "orders list", Sorts(query.filter)
             PROVE  ListedAreBest
    BY DEF ListedAreBest, Sorts
<1>1. /\ Sortable(reply, query.filter) /\ query.limit \in Nat
      /\ table = Limited(GetOrdersByItem(reply, query.filter), query.limit)
    BY DEF TableIsList
<1>2. GetOrdersByItem(reply, query.filter) \in Seq(Order)
  <2>1. Sorted(GetOrdersByItem(reply, query.filter), reply,
               Places(reply, query.filter), query.filter)
      BY <1>1, ListSorted
  <2> QED
      BY <2>1 DEF Sorted, Enumerates
<1>3. Cut(table, GetOrdersByItem(reply, query.filter), query.limit)
    BY <1>1, <1>2, LimitedList
<1>4. Best(table, reply, query.filter, query.limit)
    BY <1>1, <1>3, BestShown
<1>5. Places(reply, query.filter) =
        {i \in DOMAIN reply :
            /\ query.filter.type \in {"", reply[i].type}
            /\ query.filter.status = {} \/ reply[i].status \in query.filter.status}
    BY DEF Places, Admits
<1> QED
    BY <1>4, <1>5 DEF Best, ListedAreBest

-----------------------------------------------------------------------------
(* The theorems. *)

\* In every run of wfmctl the parts, the plan and the export keep the invariant
\* of SetPrice whichever command runs, and the quality of a row is computed from
\* an auction as the market rolled it and from what the export says of its
\* weapon, or from no weapon when the lookup failed.
THEOREM CommandInvariant == CommandSpec => []CommandInv
<1>1. CommandInv /\ [CommandNext]_<<vars, commandVars>> => CommandInv'
    BY PlansUnderCommands, RowUnderCommands DEF CommandInv
<1> QED
    BY InitCommand, <1>1, PTL DEF CommandSpec

\* Whatever `sets price` shows as the way to buy the parts of a set is the
\* cheapest way to buy them that the orders allow (buildBuyPlan), for any orders,
\* recipes and exports.
THEOREM PlansCheapest == CommandSpec => []PlansAreCheapest
<1>1. CommandInv => PlansAreCheapest
    BY DEF CommandInv, IInv
<1> QED
    BY <1>1, CommandInvariant, PTL

\* Where the recipe of a set lists no part twice, `sets price` and `sets info`
\* count each part as the recipe of the one export they read does, and count one
\* of a part it does not list (GetRecipeByResultType, GetSetInfoUseCase.Execute),
\* although a new version may appear between the two requests.
THEOREM CountsPublished == CommandSpec => []CountsArePublished
<1>1. CommandInv => CountsArePublished
    BY CountsFollow DEF CommandInv
<1> QED
    BY <1>1, CommandInvariant, PTL

\* Once the weapon of an auction was looked up, a watch of a slug of one word compares
\* the quality in the table of `rivens search` or one less, and 0 where the table
\* reads N/A (cmd/wfmctl/rivens/search.go, avgRollQuality); a watch of a slug of
\* several words compares 0 whatever the table shows, as the operator does not write
\* the slug as a name before it asks for the weapon. For any weapons, ranks, rolls and
\* exports.
THEOREM TableAgrees == CommandSpec => []WatchAgrees
<1>1. CommandInv => WatchAgrees
    BY RowAgrees
<1> QED
    BY <1>1, CommandInvariant, PTL

\* Scoring inverts the formula of riven_calculator_use_case.go: from the values of a
\* riven `rivens search` finds the average of the rolls they were made of again, but
\* for rounding, for any weapon the export lists as the riven was made for, any rank,
\* any rolls of up to five buffs, with a curse and without.
THEOREM FormulaInverted == CommandSpec => []RollsRecovered
<1>1. CommandInv => RollsRecovered
    BY RowRecovers
<1> QED
    BY <1>1, CommandInvariant, PTL

\* `orders list` shows the best orders: as many as the limit allows, all of them
\* admitted by the filter, and none that was left out would go before one that is
\* shown, for any reply of the market, filter, limit and length of the blocks
\* sort.SliceStable sorts (GetOrdersByItem, sortOrders, cmd/wfmctl/orders/list.go).
THEOREM BestListed == CommandSpec => []ListedAreBest
<1>1. CommandSpec => []TableIsList
    BY InitListed, NextListed, PTL DEF CommandSpec
<1> QED
    BY <1>1, ListedBest, PTL

=============================================================================
