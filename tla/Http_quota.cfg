SPECIFICATION Spec
CONSTANTS
    Last = 2
    Limit = 2
    Interval = 2
    Validity = 1
    Timeout = 1
    MaxTime = 4
    MaxSent = 3
    MaxContents = 2
    MaxRestarts = 1
INVARIANTS TypeOK RateLimited FreshAnswer CacheOnDisk PiecePerDeath
CHECK_DEADLOCK FALSE
