\* Two players who share a game and play on, while calls fail and runs give up or die.
CONSTANTS
    u1 = u1
    u2 = u2
    a1 = a1
    a2 = a2
    Users = {u1, u2}
    Apps = {a1}
    Library <- Everything
    Achieving = {a1}
    Tagged = {a1}
    CommitEvery = 2
    MaxFailedCalls = 1
    MaxMinutes = 2
    MaxDeaths = 2
    None = None
    NoData = NoData
SPECIFICATION Spec
INVARIANTS
    TypeOK
    CountsKeepUp
    OnlyEmptyAnswersSettle
PROPERTIES
    GenresAreAskedOnce
    KnowledgeGrows
