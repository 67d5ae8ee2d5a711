\* Every sequence of settings and messages within the bounds.
SPECIFICATION Spec
CONSTANTS
    Names <- AllNames
    Writable <- WritableNames
    Prefixes = {"XX", "YY"}
    Filters = {"XX"}
    NoFilter = NoFilter
    Levels = {0, 3}
    Inits <- AllInits
    MaxMessages = 2
    MaxInits = 2
INVARIANTS LastNameUsed ErrorsAreSeen FileGetsMessages
PROPERTIES LinesOnlyDeletedOnRequest
