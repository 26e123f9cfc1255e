SPECIFICATION ScopeSpec
CONSTANTS
    Callers = {c1, c2, c3}
    Scoped = {c1, c2}
    MaxUsd = 7
    ScopeUsd = 4
    Estimates = {1, 2}
    MaxEstimate = 2
    Overrun = 1
INVARIANTS ScopeTypeOK ReservationsExact SpendBounded OwnSpendBounded
PROPERTIES ReservationsReturned ImplementsTracker ImplementsEscrow
