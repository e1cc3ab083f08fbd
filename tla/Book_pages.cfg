SPECIFICATION Spec
CONSTANTS
    v = v
    w = w
    blank = blank
    Values = {v, w}
    Blank = blank
    PerPage = 2
    MaxEntries = 5
    MaxCrashes = 2
INVARIANTS TypeOK Coherent DamagePerDeath
PROPERTY ImplementsLedger
CHECK_DEADLOCK FALSE
