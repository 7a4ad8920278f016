SPECIFICATION FairSpec
CONSTANTS
    Connections = {c1, c2, c3}
    Limit = 1
    MaxBody = 1
    EndpointCodes = {"provider_error"}
    Watched = {c1}
    None = None
INVARIANTS
    SlotsMatchWork
    MemoryBounded
    LineIsTruthful
PROPERTY QueuedIsServed
