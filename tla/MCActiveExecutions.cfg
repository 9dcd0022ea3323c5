SPECIFICATION Spec
CONSTANTS
    a1 = a1
    a2 = a2
    b1 = b1
    e1 = e1
    e2 = e2
    None = None
    Executions <- MCExecutions
    ExecutionOf <- MCExecutionOf
    Attempts = {a1, a2, b1}
    Resuming = {a2}
    Limited = {e1, e2}
    Waits = {e1}
    Stoppable = {e1}
    Limit = 2
    EvaluationCap = TRUE
    MaxRestarts = 1
    CanShutDown = TRUE
INVARIANTS
    TypeOK
    SingleRunner
    NoZombieEntry
    RunningHoldsSlot
PROPERTIES
    SuccessFinal
    QueueDiscipline
CHECK_DEADLOCK FALSE
