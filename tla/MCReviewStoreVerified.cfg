\* Postgres: one user posts, edits and deletes while the syncs append snapshots of both sources.
CONSTANTS
    Slots = {s1, s2}
    Users = {u1}
    Nobody = Nobody
    RowLocks = TRUE
    MaxReviews = 2
    MaxComments = 0
    MaxSnapshots = 2
SPECIFICATION Spec
SYMMETRY Symmetric
INVARIANTS
    VerifiedByOneFreshSnapshot
    LockedRowsStay
PROPERTIES
    PostedFactsAreFrozen
