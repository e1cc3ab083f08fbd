SPECIFICATION FairSpec
CONSTANTS
    a = a
    b = b
    Connections = {a, b}
    Automatic = {a, b}
    MaxMiners = 3
INVARIANTS TypeOK NoDeadCall EndsIdle StopFinds
PROPERTY StopReturns
CHECK_DEADLOCK FALSE
