SPECIFICATION Spec
CONSTANTS
    x = x
    y = y
    a = a
    b = b
    NoCore = NoCore
    Cores = {x}
    Connections = {a}
PROPERTY StartsDead
CHECK_DEADLOCK FALSE
