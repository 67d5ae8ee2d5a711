\* Two processes, two files, Windows and POSIX.
SPECIFICATION Spec
CONSTANTS
    Processes = {p1, p2}
    Names = {given, debug}
    Default = debug
    NoProcess = NoProcess
    NoName = NoName
    Rules <- AllRules
    BufferSize = 3
    MaxMessages = 2
    MaxCrashes = 1
INVARIANTS NothingLost
PROPERTIES ImplementsLog CallsReturn
\* The messages run out.
CHECK_DEADLOCK FALSE
