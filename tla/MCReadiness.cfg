SPECIFICATION Spec
CONSTANTS
    Users = {u1, u2}
    Ids = {i1, i2, i3, i4}
    MountRequired = TRUE
    None = None
INVARIANTS
    OneNamePerDisk
    ReadyMeansDurable
PROPERTY ProbeAnswered
