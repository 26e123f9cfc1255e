SPECIFICATION Spec
CONSTANTS
    Names = {"a"}
    Data = {x, y}
    HistoryKeep = 1
    MaxRuns = 3
    MaxDay = 2
    MaxFaults = 2
CHECK_DEADLOCK FALSE
SYMMETRY Renamings
CONSTRAINT FewFaults
INVARIANTS TypeOK LatestComplete EntryMatchesLatest LastChangeKept ExitCodeTold SummaryComplete
