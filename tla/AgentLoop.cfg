SPECIFICATION Spec
CONSTANTS
    MaxSteps = 2
    MaxSeconds = 2
    ToolSeconds = 2
    CallSeconds = 1
    MaxUses = 2
    LoopUsd = 4
    Retries = {0, 1}
    RunUsds = {3, 6}
    Estimate = 2
    Overrun = 1
CHECK_DEADLOCK FALSE
INVARIANTS TypeOK ConversationAnswered TrajectoryComplete LoopSpendBounded ReturnsOnTime NothingRunsUnapproved PublishedResultGuarded
PROPERTIES Terminates
