SPECIFICATION Spec
CONSTANTS
    Threads = {t1, t2, t3}
    Keys = {k1}
    Responses = {v1, v2}
    TTL = 1
    MaxTime = 4
    MaxStores = 2
    None = None
SYMMETRY Symmetry
PROPERTIES
    LiveRowSurvives
    KeepsPromise
