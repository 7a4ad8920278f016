SPECIFICATION ToolsSpec
CONSTANTS
    Programs = {"accuracy"}
    Fields = {f1}
    Corpora <- SmallCorpora
    Costs = {0}
    Latencies = {1}
    Null = Null
    Unknown = Unknown
    Runs = {r1}
    Modes = {owner}
    FreshMode = owner
    None = None
    LevelSizes <- Levels
    LoadRequests = 1
CHECK_DEADLOCK FALSE
INVARIANT MisplacedIsCaught
