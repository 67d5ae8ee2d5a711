\* Debug build, recursion up to three levels, AssertAcquired() from anybody.
SPECIFICATION Spec
CONSTANTS
    Threads = {t1, t2, t3}
    NoThread = NoThread
    Debug = TRUE
    MaxNest = 3
INVARIANTS AssertExposesOthers AssertTrustsHolder RecursionReported ShadowIsDepth
PROPERTIES ImplementsLock
