\* The counts of a game whose first call failed.
CONSTANTS
    u1 = u1
    u2 = u2
    a1 = a1
    a2 = a2
    Users = {u1}
    Apps = {a1, a2}
    Library <- Everything
    Achieving = {a1, a2}
    Tagged = {a2}
    CommitEvery = 3
    MaxFailedCalls = 1
    MaxMinutes = 1
    MaxDeaths = 0
    None = None
    NoData = NoData
SPECIFICATION Spec
PROPERTIES
    MissingCountsAreAskedAgain
