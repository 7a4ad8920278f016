SPECIFICATION ToolsSpec
CONSTANTS
    Programs = {"accuracy", "report", "load", "smoke"}
    Fields = {f1, f2}
    Corpora <- SmallCorpora
    Costs = {0, 3}
    Latencies = {1, 5}
    Null = Null
    Unknown = Unknown
    Runs = {r1, r2}
    Modes = {owner, shared}
    FreshMode = owner
    None = None
    LevelSizes <- Levels
    LoadRequests = 3
CHECK_DEADLOCK FALSE
INVARIANTS
    SpendIsHonest
    CountedOnce
    NullsObserved
    NothingPaidForBadCorpus
    ValidatedCorpusRuns
    PercentilesOfSuccesses
    TargetAlwaysWhole
    NoTempLeftInSilence
    ModeKept
    PaidIsPublished
    EvidenceRetained
    LastSampleIsFinal
    VerdictIsRight
    NothingLeftBehind
PROPERTY LoadEnds
