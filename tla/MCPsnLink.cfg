\* Two users, two profiles, codes that are replaced under a running check.
CONSTANTS
    u1 = u1
    u2 = u2
    s1 = s1
    s2 = s2
    Users = {u1, u2}
    Sessions = {s1, s2, s3}
    OwnerOf <- Owners
    Profiles = {p1, p2}
    Codes = {k1, k2}
    Requests = {r1, r2}
    None = None
SPECIFICATION Spec
INVARIANTS
    LinkedByProof
    DroppedCodesNeverLink
SYMMETRY Symmetry
CHECK_DEADLOCK FALSE
