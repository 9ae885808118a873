CONSTANTS
    N = 3
    TestRuntime = 2
    FioRuntime = 2
    EventTimeout = 1
    WaitTimeout = 3
    SuiteTimeout = 4
    MaxTests = 3
    MaxTime = 7
    MaxPause = 1
SPECIFICATION Spec
INVARIANTS RateAsAsked NothingLeftBehind OneWriter IoThroughout
CHECK_DEADLOCK FALSE
