SPECIFICATION FairSpec
CONSTANTS
    a = a
    b = b
    Orders <- OneOrder
    Deposit <- OneDeposit
    Withdraw = {a}
    Quantity <- OneQuantity
    Percent = 100
    Funds = {0}
    WalletMaps <- KnownOnly
    MaxCrashes = 0
    MaxLost = 0
PROPERTY Settles
CHECK_DEADLOCK FALSE
