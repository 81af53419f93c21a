\* Two requests of one process around the writes of one writer, with fairness.
CONSTANTS
    r1 = r1
    r2 = r2
    p1 = p1
    Readers = {r1, r2}
    Procs = {p1}
    ProcOf <- ProcOfTwo
    Writers = {w1}
    MaxWrites = 2
    MaxGen = 2
    None = None
SPECIFICATION FairSpec
INVARIANTS
    ReadsAreFresh
    CurrentEntryIsFresh
    OneComputationPerEntry
    CacheInv
PROPERTIES
    ImplementsFreshReads
    EveryRequestEnds
    StalenessIsBounded
