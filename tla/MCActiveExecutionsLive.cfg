SPECIFICATION FairSpec
CONSTANTS
    a1 = a1
    a2 = a2
    b1 = b1
    e1 = e1
    e2 = e2
    None = None
    Executions <- MCExecutions
    ExecutionOf <- MCExecutionOf
    Attempts = {a1, a2, b1}
    Resuming = {a2}
    Limited = {e1, e2}
    Waits = {e1}
    Stoppable = {e1}
    Limit = 1
    EvaluationCap = FALSE
    MaxRestarts = 0
    CanShutDown = TRUE
PROPERTIES
    AttemptEnds
    ShutdownEnds
CHECK_DEADLOCK FALSE
