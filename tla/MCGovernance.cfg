SPECIFICATION Spec
CONSTANTS
    People = {ann, ben, cyd}
    NoOne = none
    GuardianListLength = 2
    EARLY_UNPAUSE_THRESHOLD = 2
    PAUSE_TIMELOCK_SECS = 2
    AuditMax = 2
    AuditedSettings = {"SetPlatformFee"}
    MaxTime = 3
    MaxActions = 4
SYMMETRY Symmetric
INVARIANTS TypeOK PauseStateAgrees AuditTellsAdmin QueryComplete
PROPERTY TimelockHolds
