\* The answer of Lock::Try() is undefined.
SPECIFICATION LockSpec
CONSTANTS
    Threads = {t1, t2}
    NoThread = NoThread
    Modes <- ContractModes
    MaxClaims = 1
INVARIANTS TryTellsTheTruth
CHECK_DEADLOCK FALSE
