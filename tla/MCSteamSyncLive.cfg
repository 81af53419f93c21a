\* A player of two games keeps asking, runs give up and announcements are lost: the library catches up.
CONSTANTS
    u1 = u1
    u2 = u2
    a1 = a1
    a2 = a2
    Users = {u1}
    Apps = {a1, a2}
    Library <- Everything
    Achieving = {a1}
    Tagged = {}
    CommitEvery = 2
    MaxFailedCalls = 1
    MaxMinutes = 1
    MaxDeaths = 0
    None = None
    NoData = NoData
SPECIFICATION FairSpec
INVARIANTS
    OneBatchAtRisk
    SyncedLibrariesAreWhole
PROPERTIES
    SyncsCatchUp
    CommitsAreAnnounced
