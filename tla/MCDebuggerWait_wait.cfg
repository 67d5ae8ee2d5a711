\* An int32 of seven bits: six seconds fit, from seven on the product wraps.
SPECIFICATION Spec
CONSTANTS
    Seconds <- AllSeconds
    IntMax = 63
    Nap = 3
    MaxSignals = 3
INVARIANTS TypeOK WaitsAsAsked
PROPERTIES Returns
\* The function returns.
CHECK_DEADLOCK FALSE
