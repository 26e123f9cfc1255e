SPECIFICATION Spec
CONSTANTS
    MaxSteps = 2
    MaxSeconds = 2
    ToolSeconds = 1
    CallSeconds = 1
    MaxUses = 2
    LoopUsd = 4
    Retries = {0, 1}
    RunUsds = {6}
    Estimate = 2
    Overrun = 0
CHECK_DEADLOCK FALSE
INVARIANT RetrySentBack
