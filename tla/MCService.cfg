SPECIFICATION Spec
CONSTANTS
    Requests = {r1, r2, r3}
    Keys = {k1}
    Payloads = {p1, p2}
    Limit = 2
    Cap = 2
    Cost = 1
    TTL = 1
    MaxTime = 2
    MaxStores = 2
    MaxReleases = 2
    None = None
SYMMETRY Symmetry
INVARIANTS
    ConfirmedIsDurable
    LineCarriesBill
PROPERTIES
    NoSecondRunWhileConfirmed
    ConfirmedAnswerStands
