SPECIFICATION BatchSpec
CONSTANTS
    Callers = {1, 2, 3, 4}
    MaxUsd = 4
    Estimates = {1, 2}
    Overrun = 1
    Concurrencies = {1, 2, 5}
    MaxPolls = 1
INVARIANTS BatchTypeOK PoolSpendBounded NothingLeftBehind ReturnMeansAll BilledBounded ReturnedIsBooked
PROPERTIES BatchEnds
