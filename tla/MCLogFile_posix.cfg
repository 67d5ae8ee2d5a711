\* Two processes that lock, on POSIX.
SPECIFICATION Spec
CONSTANTS
    Processes = {p1, p2}
    Names = {given, debug}
    Default = debug
    NoProcess = NoProcess
    NoName = NoName
    Rules <- PosixRules
    BufferSize = 3
    MaxMessages = 2
    MaxCrashes = 1
INVARIANTS OutputsAtomic
\* The messages run out.
CHECK_DEADLOCK FALSE
