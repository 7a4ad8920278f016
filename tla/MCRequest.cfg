SPECIFICATION RequestSpec
CONSTANTS
    Calls = {c1}
    Environments <- AllEnvironments
    MaxRetries = 2
    Counts = {2, 7}
    PriceIn = 1
    PriceOut = 3
    MaxFinite = 27
    None = None
    Malformed = Malformed
    Documents <- SmallDocuments
    MaxBytes = 2
    MaxPages = 2
    MaxChars = 3
    Schemas <- SmallSchemas
    Unsent = Unsent
INVARIANTS
    NoQuietBypass
    AnswersAreWhole
    BilledCostAttached
    PoolClosed
    TextFits
    OnlyConstraintsDropped
CHECK_DEADLOCK FALSE
