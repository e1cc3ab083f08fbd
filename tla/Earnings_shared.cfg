SPECIFICATION Spec
CONSTANTS
    u = u
    v = v
    c1 = c1
    c2 = c2
    Wallets = {u, v}
    Connections = {c1, c2}
    Listed = {c1, c2}
    WalletOf <- Shared
    Moves = {v}
    HasTrade = {c1, c2}
    Shown = 2
    Outputs = 1
    MaxTime = 2
    MaxEntries = 2
    MaxEdits = 0
    MaxRestarts = 0
INVARIANT NotInBookYet
CHECK_DEADLOCK FALSE
