SPECIFICATION Spec
CONSTANTS
    m1 = m1
    m2 = m2
    v1 = v1
    v2 = v2
    None = None
    Mains = {m1, m2}
    Versions = {v1, v2}
    Allowed = {"queued"}
    MaxOps = 2
    MaxFailures = 2
    MaxChanges = 0
    MaxRefusals = 0
INVARIANT StopsRunning
CHECK_DEADLOCK FALSE
