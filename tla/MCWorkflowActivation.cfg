SPECIFICATION FairSpec
CONSTANTS
    m1 = m1
    m2 = m2
    v1 = v1
    v2 = v2
    None = None
    Mains = {m1, m2}
    Versions = {v1, v2}
    Allowed = {}
    MaxOps = 2
    MaxFailures = 2
    MaxChanges = 1
    MaxRefusals = 1
INVARIANTS TypeOK InStep
PROPERTY Settles
CHECK_DEADLOCK FALSE
