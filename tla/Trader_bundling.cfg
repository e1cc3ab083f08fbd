SPECIFICATION FairSpec
CONSTANTS
    a = a
    b = b
    c = c
    Trades = {a, b, c}
    Kind <- Mixed
    Amount <- Unequal
    Route <- OneRoute
    Minimum = 2
    Period = 2
    Near = 1
    Failures = {"recorded"}
    MaxTime = 6
    MaxSent = 2
    MaxCrashes = 1
INVARIANTS TypeOK NoOversleep NotEarly InOneOrder
PROPERTY HandedOver
CHECK_DEADLOCK FALSE
