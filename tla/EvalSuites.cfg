SPECIFICATION Spec
CONSTANTS
    Suites = {"direct", "loop"}
    LoopSuites = {"loop"}
    MaxSuites = 2
    NCases = 2
    MaxCalls = 2
    SuiteCap = 2
    TotalCaps = {3, NoCap}
    NoCap = NoCap
    Estimates = {1}
    Overrun = 1
    Grades = 1
    Threshold = 5
    MaxRuns = 2
    MaxLines = 2
CHECK_DEADLOCK FALSE
INVARIANTS CapsKept CapCutsTheRest 
