SPECIFICATION FairSpec
CONSTANTS
    x = x
    y = y
    a = a
    b = b
    NoCore = NoCore
    Cores = {x, y}
    Connections = {a}
INVARIANTS TypeOK OneState OneLaunch
PROPERTY Reconnects
CHECK_DEADLOCK FALSE
