SPECIFICATION FairSpec
CONSTANTS
    e1 = e1
    e2 = e2
    w1 = w1
    w2 = w2
    None = None
    Executions = {e1}
    Workers = {w1, w2}
    Concurrency = 1
    Stoppable = {e1}
    MaxLegs = 2
    MaxExits = 1
    MaxCrashes = 1
    MaxStalls = 1
    MaxFailures = 1
INVARIANTS
    TypeOK
    OneWorker
    ToldIsKept
PROPERTIES
    Ends
    
CHECK_DEADLOCK FALSE
