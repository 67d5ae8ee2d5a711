\* ScopedHandle, constructed and set from calls that fail with NULL or with
\* INVALID_HANDLE_VALUE.  The steps of ScopedStdioHandle are among them.
SPECIFICATION Spec
CONSTANTS
    Objects = {o1, o2, o3}
    Handles = {h1, h2, h3}
    Null = Null
    Invalid = Invalid
    Windows = TRUE
    CtorErrors = {Null, Invalid}
    SetErrors = {Null, Invalid}
INVARIANTS NothingLeaks NothingClosedTwice OneHolder NoStaleHandle
