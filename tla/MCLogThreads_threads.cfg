\* Two threads, every kind of program; no symmetry, for the liveness property.
SPECIFICATION Spec
CONSTANTS
    Threads = {t1, t2}
    Locks = {l1, l2, l3}
    Files = {f1, f2, f3}
    NoThread = NoThread
    NoLock = NoLock
    NoFile = NoFile
    LogMutex = LogMutex
    Rules <- AllRules
    MaxMessages = 2
    MaxInits = 2
INVARIANTS WritersExclude WriterHasFile UnlocksOwn NoLockLeftHeld FileLeakBounded LockLeakBounded
PROPERTIES PreparedCallsReturn
\* The messages run out.
CHECK_DEADLOCK FALSE
