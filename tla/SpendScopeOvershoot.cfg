SPECIFICATION ScopeSpec
CONSTANTS
    Callers = {c1, c2}
    Scoped = {c1, c2}
    MaxUsd = 6
    ScopeUsd = 2
    Estimates = {2}
    MaxEstimate = 2
    Overrun = 0
INVARIANT ScopeHolds
