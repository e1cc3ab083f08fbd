SPECIFICATION FairSpec
CONSTANTS
    a = a
    b = b
    Orders <- OneOrder
    Deposit <- OneDeposit
    Withdraw = {a}
    Quantity <- OneQuantity
    Percent = 100
    Funds = {0, 1}
    WalletMaps <- KnownOrNot
    MaxCrashes = 2
    MaxLost = 1
INVARIANT AtMostOnce
PROPERTIES NoStepBack CarriedOut
CHECK_DEADLOCK FALSE
