\* The file options of one call of InitLogging.
SPECIFICATION Spec
CONSTANTS
    Names <- AllNames
    Writable <- WritableNames
    Prefixes = {"XX", "YY"}
    Filters = {"XX"}
    NoFilter = NoFilter
    Levels = {0, 3}
    Inits <- AllInits
    MaxMessages = 1
    MaxInits = 1
PROPERTIES FileOptionsHeeded
