SPECIFICATION Spec
CONSTANTS
    Nodes = {1, 2, 3, 4, 5, 6}
    Start = 1
    None = None
    Workflows <- FourBranches
    Waiters = {}
    MaxWaits = 0
INVARIANT NothingLost
CHECK_DEADLOCK FALSE
