SPECIFICATION Spec
CONSTANTS
    a = a
    b = b
    d = d
    h = h
    Objects = {a, b, d}
    Hosts = {h}
    Percents = {0, 1}
    Files <- TwoAuto
    Base = 10
    MaxListed = 3
    MaxEdits = 3
    MaxRestarts = 1
INVARIANTS TypeOK IndexOfList FileMatchesList Stoppable ButtonsNotBelow
PROPERTY SwitchLeavesOne
CHECK_DEADLOCK FALSE
