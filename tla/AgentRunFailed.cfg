SPECIFICATION Spec
CONSTANTS
    Names = {}
    Data = {"x"}
    HistoryKeep = 1
    MaxRuns = 1
    MaxDay = 1
    MaxFaults = 1
CHECK_DEADLOCK FALSE
INVARIANT FailedKeepsLatest
