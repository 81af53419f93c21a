\* A player with hidden and shown lists, a Steam copy, faults.
CONSTANTS
    u1 = u1
    t1 = t1
    t2 = t2
    c1 = c1
    l1 = l1
    l2 = l2
    a1 = a1
    i1 = i1
    Users = {u1}
    Titles = {t1, t2}
    Concepts = {c1}
    Lists = {l1, l2}
    Groupings <- ApartOrTogether
    First <- Sorted
    ListsOf <- SameList
    Plays <- AllOrNone
    Earns <- OneOrOther
    Apps = {a1}
    Igdb = {i1}
    IgdbOf <- OneIgdb
    Jobs <- JobIds
    MaxTries = 1
    CommitEvery = 2
    MaxGames = 3
    None = None
SPECIFICATION FairSpec
INVARIANTS
    TypeOK
    LatestCountsOnce
    IgdbMatchesAreKept
PROPERTIES
    FirstClaimKeeps
    NewGamesGetMetadata
