SPECIFICATION Spec
CONSTANTS
    Threads = {t1, t2}
    DailyBudget = 2
    PolicyMax = 0
    MinInterval = 0
    MaxDay = 1
    MaxCrashes = 0
    MaxUncounted = 0
INVARIANT CapsSent
