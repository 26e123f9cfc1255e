SPECIFICATION Spec
CONSTANTS
    MinInterval = 2
    MaxAttempts = 2
    MaxDay = 5
    MaxCalls = 4
    MaxIssues = 3
CHECK_DEADLOCK FALSE
INVARIANTS SuppressedMeansTold NoRepeatWhileOpen
