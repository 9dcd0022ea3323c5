SPECIFICATION FairSpec
CONSTANTS
    h1 = h1
    h2 = h2
    None = None
    Hosts = {h1, h2}
    TTL = 4
    Interval = 1
    Timeout = 2
    MaxFailures = 2
    MaxExits = 1
INVARIANTS
    TypeOK
    LeaderOwnsKey
    StaleLeaderNotices
PROPERTIES
    Recovers
CHECK_DEADLOCK FALSE
