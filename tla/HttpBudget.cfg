SPECIFICATION FilesSpec
CONSTANTS
    Threads = {t1}
    D = t1
    DailyBudget = 2
    PolicyMax = 2
    MinInterval = 2
    MaxDay = 2
    MaxCrashes = 1
    MaxUncounted = 1
    MaxVersion = 2
INVARIANTS FilesTypeOK BudgetKept NeverOvercounts UnchangedIsCurrent
PROPERTIES Spaced CallsEnd
