----------------------------- MODULE SpendScope -----------------------------
(***************************************************************************)
(* A SpendScope (costs.py) opened on the shared tracker, and LLM.converse  *)
(* (llm.py) called with it.  converse asks the scope first, without the    *)
(* tracker's lock, and only then enters the tracker's reserve block: other *)
(* threads run between the two.  The callers outside Scoped use the same   *)
(* tracker through _send, with no scope.                                   *)
(***************************************************************************)
EXTENDS CostTracker

CONSTANTS Scoped,    \* the callers that pass budget=scope to converse
          ScopeUsd,  \* SpendScope.max_usd
          MaxEstimate

ASSUME SpendScopeAssumption ==
    /\ Scoped \subseteq Callers
    /\ Scoped # {}
    /\ ScopeUsd \in Nat
    /\ MaxEstimate \in Nat
    /\ \A e \in Estimates : e <= MaxEstimate

VARIABLES open,     \* the scope exists
          start,    \* SpendScope._start, the tracker's total when it was opened
          cleared,  \* the estimate a converse got past the scope, 0 when none is waiting
          own       \* what calls made under the scope have cost

scopeVars == <<open, start, cleared, own>>
allVars == <<total, reserved, pc, est, open, start, cleared, own>>

ScopeTypeOK ==
    /\ TypeOK
    /\ open \in BOOLEAN
    /\ start \in Nat
    /\ cleared \in [Scoped -> Nat]
    /\ own \in Nat

ScopeInit ==
    /\ Init
    /\ open = FALSE
    /\ start = 0
    /\ cleared = [c \in Scoped |-> 0]
    /\ own = 0

\* SpendScope.__init__ while other calls may be in flight.
Open ==
    /\ ~ open
    /\ open' = TRUE
    /\ start' = total
    /\ UNCHANGED <<total, reserved, pc, est, cleared, own>>

SpentIgnored == 0  \* mutant: the scope compares the estimate alone

\* SpendScope.spent, read without the lock and without the calls in flight.
Spent == IF start <= total THEN total - start ELSE 0

\* converse: budget.check(estimate) passes.
ScopeCheck(c, e) ==
    /\ open
    /\ pc[c] = "idle"
    /\ cleared[c] = 0
    /\ Spent + e <= ScopeUsd
    /\ cleared' = [cleared EXCEPT ![c] = e]
    /\ UNCHANGED <<total, reserved, pc, est, open, start, own>>

\* converse: budget.check(estimate) raises ScopeBudgetExceeded; nothing is kept.
ScopeRefuse(c, e) ==
    /\ open
    /\ pc[c] = "idle"
    /\ cleared[c] = 0
    /\ Spent + e > ScopeUsd
    /\ UNCHANGED allVars

ConverseUnreserved(c) ==  \* mutant: a request the scope allows is not reserved
    /\ cleared[c] > 0
    /\ pc' = [pc EXCEPT ![c] = "sending"]
    /\ est' = [est EXCEPT ![c] = cleared[c]]
    /\ cleared' = [cleared EXCEPT ![c] = 0]
    /\ UNCHANGED <<total, reserved, open, start, own>>

\* converse: tracker.reserve(estimate), which may still raise BudgetExceeded.
ConverseReserve(c) ==
    /\ cleared[c] > 0
    /\ Reserve(c, cleared[c]) \/ Refuse(c, cleared[c])
    /\ cleared' = [cleared EXCEPT ![c] = 0]
    /\ UNCHANGED <<open, start, own>>

\* Whatever a caller does inside its reserve block; the cost of a scoped one is own.
Return(c) ==
    /\ Step(c)
    /\ own' = IF c \in Scoped THEN own + (total' - total) ELSE own
    /\ UNCHANGED <<open, start, cleared>>

\* LLM._send on the same tracker, by a thread outside the scope.
Unscoped(c, e) ==
    /\ c \notin Scoped
    /\ Reserve(c, e) \/ Refuse(c, e)
    /\ UNCHANGED scopeVars

ScopeNext ==
    \/ Open
    \/ \E c \in Scoped, e \in Estimates : ScopeCheck(c, e) \/ ScopeRefuse(c, e)
    \/ \E c \in Scoped : ConverseReserve(c)
    \/ \E c \in Callers : Return(c) \/ \E e \in Estimates : Unscoped(c, e)

\* A thread past the scope's check runs on into reserve and out of its block.
ScopeFairness ==
    /\ \A c \in Scoped : WF_allVars(ConverseReserve(c))
    /\ \A c \in Callers : WF_allVars(Return(c))

ScopeSpec == ScopeInit /\ [][ScopeNext]_allVars /\ ScopeFairness
-----------------------------------------------------------------------------
\* Adding scopes changes nothing for the run budget: every behaviour of the
\* scoped system is one of the tracker's (llm.py:391-398).
ImplementsTracker == Init /\ [][Next]_vars

\* What the scope's own calls cost passes its budget by at most one estimate per
\* other scoped caller, and one overrun each: converse tests the scope and reserves
\* in two steps, and the test does not see calls in flight (costs.py:215-225,
\* llm.py:391-393).  A scope with one caller, an AgentLoop, keeps its budget.
OwnSpendBounded ==
    own <= ScopeUsd + (Cardinality(Scoped) - 1) * MaxEstimate
                    + Cardinality(Scoped) * Overrun

\* "a call that could push the scope past max_usd is never sent ... concurrent
\* calls on the same tracker count against it too" (costs.py:200-203).
ScopeHolds == open => Spent <= ScopeUsd
=============================================================================
