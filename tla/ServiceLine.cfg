SPECIFICATION Spec
CONSTANTS
    Requests = {r1}
    Keys = {k1}
    Payloads = {p1}
    Limit = 1
    Cap = 2
    Cost = 1
    TTL = 1
    MaxTime = 1
    MaxStores = 1
    MaxReleases = 1
    None = None
PROPERTY BilledLineHasCost
