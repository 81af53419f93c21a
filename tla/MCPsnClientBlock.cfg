\* Sony down or odd while the NPSSO is live.
CONSTANTS
    c1 = c1
    c2 = c2
    Calls = {c1, c2}
    Budget = 2
    Window = 3
    Gap = 1
    InlineMax = 1
    MaxWait <- Patience
    Pauses = {1, 2}
    None = None
SPECIFICATION Spec
INVARIANTS
    OnlyRejectionsBlock
