SPECIFICATION OnFirstMain
CONSTANTS
    m1 = m1
    m2 = m2
    parent = parent
    child = child
    None = None
    Never = Never
    NotSet = NotSet
    Cleared = Cleared
    Mains = {m1, m2}
    Executions = {parent, child}
    ParentOf <- ChildOfP
    Timed = {child}
    Durations = {1}
    Horizon = 1
    MaxAttempts = 2
    Webhooked = {child}
    Stoppable = {child}
    MaxWaits = 2
    MaxTerms = 2
    MaxResumes = 1
    MaxReportFailures = 1
    MaxFailures = 1
    MaxCrashes = 1
INVARIANTS
    TypeOK
PROPERTIES
    OneRunAtATime
    NotBeforeTime
    StoppedStays
    WaitEnds
    ReportResumes
