SPECIFICATION Spec
CONSTANTS
    Nodes = {1, 2, 3, 4, 5}
    Start = 1
    None = None
    Workflows <- MCWorkflows
    Waiters = {2, 4}
    MaxWaits = 2
INVARIANTS TypeOK NothingLost Paired Released
CHECK_DEADLOCK FALSE
