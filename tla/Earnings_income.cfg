SPECIFICATION Spec
CONSTANTS
    u = u
    v = v
    c1 = c1
    c2 = c2
    Wallets = {u, v}
    Connections = {c1, c2}
    Listed = {c1}
    WalletOf <- Shared
    Moves = {v}
    HasTrade = {c1, c2}
    Shown = 2
    Outputs = 2
    MaxTime = 3
    MaxEntries = 3
    MaxEdits = 1
    MaxRestarts = 1
INVARIANTS TypeOK TradeBacked CountedOnce MissedForAReason
CHECK_DEADLOCK FALSE
