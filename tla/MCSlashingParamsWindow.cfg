CONSTANTS
    Scale = 100
    TickNs = 10000
    DurationValues <- MCDurationValues
    DecValues <- MCDecValues
SPECIFICATION Spec
INVARIANTS
    RefusedOnlyOutOfRange
