\* Both builds, with threads that keep the contract and threads that do not.
SPECIFICATION Spec
CONSTANTS
    Threads = {t1, t2, t3, t4}
    NoThread = NoThread
    Modes <- AllModes
    MaxClaims = 2
INVARIANTS MutualExclusion NoFalseAlarm NoSilentLoss
PROPERTIES OnlyHolderFrees OnlyForeignUnlockMisleads NoSelfDeadlock ImplementsLock
\* A recursive Lock() of a release build blocks its thread, and nothing happens
\* after the destructor.
CHECK_DEADLOCK FALSE
