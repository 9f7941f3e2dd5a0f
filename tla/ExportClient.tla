---------------------------- MODULE ExportClient ----------------------------
(***************************************************************************)
(* The public export as HttpWarframeExportService reads it                 *)
(* (internal/adapter/http_warframe_export_service.go): one request for the *)
(* index, which names the file of the current version, and one for that    *)
(* file, in which the first entry that fits is taken. The publisher may    *)
(* bring out a new version between the two. A file name carries the        *)
(* version, so it stands for the content of the file.                      *)
(***************************************************************************)
EXTENDS Integers, Sequences
Seqs == INSTANCE SequencesExt

CONSTANTS
    Items,      \* the ids recipes are made of
    Exports,    \* the contents an export may have: recipes and weapons, both in
                \* the order of the file
    NoFile      \* no file name yet

VARIABLES
    published,  \* the export the publisher shows now
    file        \* the export the index named

exportVars == <<published, file>>

\* A name is words and what is written between them. Whether in upper or in lower
\* case is left out: no lookup tells them apart.
NoName == [words |-> <<>>, between |-> ""]

\* Nothing found.
NoRecipe == <<>>
NoWeapon == [name |-> NoName, category |-> "", disposition |-> 0]

Ingredient == [item : Items, count : Nat]
Recipe     == [result : Items, ingredients : Seq(Ingredient)]

ASSUME ExportAssumption ==
    /\ NoFile \notin Exports
    /\ \A e \in Exports :
          /\ e.recipes \in Seq(Recipe)
          /\ DOMAIN e.weapons = 1..Len(e.weapons)
          /\ \A i \in DOMAIN e.weapons : e.weapons[i].disposition \in Nat \ {0}

ExportInit ==
    /\ published \in Exports
    /\ file = NoFile

ResolveFilename ==
    /\ file' = published
    /\ UNCHANGED published

\* A new version. The bound: at most one between the two requests, which is the
\* only time at which it matters.
Republish ==
    /\ published = file
    /\ published' \in Exports \ {published}
    /\ UNCHANGED file

\* The recipe that produces an item, in the file the index named.
GetRecipeByResultType(item) ==
    LET i == Seqs!SelectInSeq(file.recipes, LAMBDA r : r.result = item)
    IN  IF i = 0 THEN NoRecipe ELSE file.recipes[i].ingredients

GetWeaponByName(name) ==
    LET i == Seqs!SelectInSeq(file.weapons, LAMBDA w : w.name = name)
    IN  IF i = 0 THEN NoWeapon ELSE file.weapons[i]

=============================================================================
