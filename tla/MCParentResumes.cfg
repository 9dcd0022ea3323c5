SPECIFICATION FairSpec
CONSTANTS
    m1 = m1
    m2 = m2
    parent = parent
    child = child
    None = None
    Never = Never
    NotSet = NotSet
    Cleared = Cleared
    Mains = {m1}
    Executions = {parent, child}
    ParentOf <- ChildOfP
    Timed = {child}
    Durations = {1}
    Horizon = 1
    MaxAttempts = 3
    Webhooked = {}
    Stoppable = {}
    MaxWaits = 1
    MaxTerms = 1
    MaxResumes = 1
    MaxReportFailures = 0
    MaxFailures = 0
    MaxCrashes = 0
PROPERTIES
    ParentResumes
