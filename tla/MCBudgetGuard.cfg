SPECIFICATION Spec
CONSTANTS
    Requests = {r1, r2, r3, r4}
    Limit = 2
    Caps = {0, 3}
    MaxCost = 2
SYMMETRY Symmetry
INVARIANTS
    OvershootBounded
PROPERTY NoNewSpenderOverCap
