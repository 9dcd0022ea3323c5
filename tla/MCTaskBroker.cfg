SPECIFICATION FairSpec
CONSTANTS
    r1 = r1
    q1 = q1
    q2 = q2
    None = None
    Runners = {r1}
    Requests = {q1, q2}
    Offers = {1, 2, 3}
    RunnerOf <- MCRunnerOf
    TypeOf <- MCTypeOf
    MaxConcurrency = 1
    Mode = "external"
INVARIANTS
    TypeOK
    WithinConcurrency
    SettingsGivenOnce
    SettingsExpected
PROPERTIES
    RequestAnswered
    TaskEnds
CHECK_DEADLOCK FALSE
