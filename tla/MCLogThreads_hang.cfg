\* Both destinations without file locking: log_lock is made in a race.
SPECIFICATION Spec
CONSTANTS
    Threads = {t1, t2, t3}
    Locks = {l1, l2, l3}
    Files = {f1, f2, f3}
    NoThread = NoThread
    NoLock = NoLock
    NoFile = NoFile
    LogMutex = LogMutex
    Rules <- HangRules
    MaxMessages = 1
    MaxInits = 1
PROPERTIES EveryCallReturns
\* The messages run out.
CHECK_DEADLOCK FALSE
