CONSTANTS
    blade = blade
    hilt = hilt
    gone = gone
    Items <- AllItems
    Parts = {blade, hilt}
    Self = Self
    SetParts <- TwoParts
    Exports <- SomeExports
    NoFile = NoFile
    Books <- SmallBooks
    Catalogues <- SomeCatalogues
    Replies <- SomeReplies
    Filters <- SomeFilters
    Limits = {0, 2}
    BlockSize = 2
    Weapons <- AllWeapons
    Slugs <- WeaponSlugs
    Ranks = {0, 8}
    Rolls <- SomeRolls
    Stats <- BuffStats
    CurseStat = "damage_vs_corpus"
SPECIFICATION CommandSpec
INVARIANTS
    PlansAreCheapest
    CountsArePublished
    ListedAreBest
    RollsRecovered
    WatchAgrees
\* A command ends, and nothing is left to do.
CHECK_DEADLOCK FALSE
