CONSTANTS
    N = 2
    TestRuntime = 18
    FioRuntime = 2
    EventTimeout = 1
    WaitTimeout = 18
    SuiteTimeout = 20
    MaxTests = 1
    MaxTime = 22
    MaxPause = 1
SPECIFICATION Spec
INVARIANT EndsInTime
CHECK_DEADLOCK FALSE
