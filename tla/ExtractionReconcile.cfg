SPECIFICATION Spec
CONSTANTS
    Requests = {r1}
    Limit = 1
    Caps = {2}
    AttemptCosts = {1}
    None = None
INVARIANT EverySpendReconciled
