\* SQLite: row locks are no-ops. Two users post, edit, comment, delete, post again.
CONSTANTS
    Slots = {s1, s2}
    Users = {u1, u2}
    Nobody = Nobody
    RowLocks = FALSE
    MaxReviews = 3
    MaxComments = 2
    MaxSnapshots = 0
SPECIFICATION Spec
SYMMETRY Symmetric
INVARIANTS
    OneReviewPerUser
    NoOrphanComments
    DeletedLinksStayDead
    ReviewInv
CHECK_DEADLOCK TRUE
