SPECIFICATION Spec
CONSTANTS
    Requests = {r1, r2, r3}
    Limit = 2
    Caps = {0, 2}
    AttemptCosts = {0, 1}
    None = None
SYMMETRY Symmetry
INVARIANTS
    ReportedSpendCommitted
    LineCarriesSpend
PROPERTY ImplementsGuard
