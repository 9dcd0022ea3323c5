SPECIFICATION FairSpec
CONSTANTS
    c1 = c1
    c2 = c2
    c3 = c3
    c4 = c4
    c5 = c5
    e1 = e1
    e2 = e2
    e3 = e3
    Calls <- MCCalls
    Executions <- MCExecutions
    ExecutionOf <- MCExecutionOf
    Limit = 2
INVARIANTS
    SlotAccounting
    NoIdleSlot
PROPERTIES
    AdmittedInOrder
    WaitEnds
