SPECIFICATION Spec
CONSTANTS
    a = a
    b = b
    Orders <- TwoOrders
    Deposit <- MakeAndNone
    Withdraw = {a, b}
    Quantity <- TwoQuantity
    Percent = 100
    Funds = {0, 1}
    WalletMaps <- KnownOrNot
    MaxCrashes = 1
    MaxLost = 1
INVARIANTS TypeOK NoPhantom ConvertedOnce
PROPERTY ImplementsSettlement
CHECK_DEADLOCK FALSE
