---------------------------- MODULE CostTracker -----------------------------
(***************************************************************************)
(* The run budget of costs.py: one CostTracker shared by the threads that  *)
(* call LLM._send (llm.py).  A call reserves its worst case under the      *)
(* tracker's lock, talks to the API outside it, records its true cost      *)
(* under the lock and then, in the finally clause, gives the reservation   *)
(* back under the lock again.  Each critical section is one action; other  *)
(* threads run between them.  Money is counted in whole units.             *)
(***************************************************************************)
EXTENDS UnitSums

CONSTANTS Callers,    \* threads making calls on the same tracker
          MaxUsd,     \* MAX_RUN_USD
          Estimates,  \* results LLM._estimate_usd may have for a call
          Overrun     \* how far a true cost may pass its estimate: the estimate
                      \* prices all input as uncached, a cache write costs more

ASSUME CostTrackerAssumption ==
    /\ IsFiniteSet(Callers)
    /\ MaxUsd \in Nat
    /\ Estimates \subseteq Nat \ {0}
    /\ Overrun \in Nat

VARIABLES total,     \* CostTracker.total_usd
          reserved,  \* CostTracker._reserved_usd
          pc,        \* where each caller is inside _send
          est        \* the estimate its reserve block was entered with, 0 outside

vars == <<total, reserved, pc, est>>

\* Outside the block; in it, request not sent; sent; cost recorded; record raised.
Steps == {"idle", "reserved", "sending", "recorded", "raising"}

TypeOK ==
    /\ total \in Nat
    /\ reserved \in Nat
    /\ pc \in [Callers -> Steps]
    /\ est \in [Callers -> Nat]

Init ==
    /\ total = 0
    /\ reserved = 0
    /\ pc = [c \in Callers |-> "idle"]
    /\ est = [c \in Callers |-> 0]
-----------------------------------------------------------------------------
FitsWithoutInFlight(e) == total + e <= MaxUsd  \* mutant: check forgets the reservations

\* CostTracker.check: what is spent and what is in flight leaves room for e.
Fits(e) == total + reserved + e <= MaxUsd

\* reserve(e) passes check: hold e against the cap.  The lock is released with this
\* step, and the request is not out yet.
Reserve(c, e) ==
    /\ pc[c] = "idle"
    /\ Fits(e)
    /\ reserved' = reserved + e
    /\ pc' = [pc EXCEPT ![c] = "reserved"]
    /\ est' = [est EXCEPT ![c] = e]
    /\ UNCHANGED total

\* reserve(e) raises BudgetExceeded in check: nothing is sent.
Refuse(c, e) ==
    /\ pc[c] = "idle"
    /\ ~ Fits(e)
    /\ UNCHANGED vars

\* messages.create sends the request: what was reserved is sent, whatever the other
\* threads have recorded in the meantime.
Request(c) ==
    /\ pc[c] = "reserved"
    /\ pc' = [pc EXCEPT ![c] = "sending"]
    /\ UNCHANGED <<total, reserved, est>>

\* The response arrived: record adds its true cost u, and raises when that
\* takes the total past the cap, or before that when costs.jsonl can not be written.
Record(c, u) ==
    /\ pc[c] = "sending"
    /\ total' = total + u
    /\ \/ total' <= MaxUsd /\ pc' = [pc EXCEPT ![c] = "recorded"]
       \/ pc' = [pc EXCEPT ![c] = "raising"]
    /\ UNCHANGED <<reserved, est>>

GiveBackTwice(c) ==  \* mutant: given back by record and again in finally, unclamped
    /\ reserved' = reserved - 2 * est[c]
    /\ pc' = [pc EXCEPT ![c] = "idle"]
    /\ est' = [est EXCEPT ![c] = 0]
    /\ UNCHANGED total

\* The finally clause of reserve: the reservation is given back, never below zero.
GiveBack(c) ==
    /\ reserved' = IF est[c] <= reserved THEN reserved - est[c] ELSE 0
    /\ pc' = [pc EXCEPT ![c] = "idle"]
    /\ est' = [est EXCEPT ![c] = 0]
    /\ UNCHANGED total

ReleaseOnSuccess(c) ==  \* mutant: no finally, a record that raises skips the release
    /\ pc[c] = "recorded"
    /\ GiveBack(c)

\* The block is left, with the response or with what record raised.
Release(c) ==
    /\ pc[c] \in {"recorded", "raising"}
    /\ GiveBack(c)

ApiErrorLeak(c) ==  \* mutant: an exception from the API keeps its reservation
    /\ pc[c] = "sending"
    /\ pc' = [pc EXCEPT ![c] = "idle"]
    /\ est' = [est EXCEPT ![c] = 0]
    /\ UNCHANGED <<total, reserved>>

\* messages.create raised (network, API status, SDK validation): the exception
\* leaves through the same finally clause and nothing is recorded.
ApiError(c) ==
    /\ pc[c] = "sending"
    /\ GiveBack(c)

\* A response costs at least one unit (it has input tokens).
Step(c) == \/ Request(c)
           \/ \E u \in 1..(est[c] + Overrun) : Record(c, u)
           \/ Release(c)
           \/ ApiError(c)

Next == \E c \in Callers :
            \/ \E e \in Estimates : Reserve(c, e) \/ Refuse(c, e)
            \/ Step(c)

\* A thread inside its block runs on, and a call that was sent comes back (the SDK
\* has a timeout); nobody is obliged to make another call.
Fairness == \A c \in Callers : WF_vars(Step(c))

Spec == Init /\ [][Next]_vars /\ Fairness
-----------------------------------------------------------------------------
\* _reserved_usd is, at every moment, the sum of the estimates of the callers
\* inside a reserve block (costs.py:103-105, 119-130): nothing leaks when a call
\* fails or overspends, nothing is given back twice, and the max(..., 0) of the
\* release never hides a difference.
ReservationsExact == reserved = Total(Callers, est)

\* The cap with concurrent callers: however their calls interleave, the recorded
\* total passes MAX_RUN_USD by at most one overrun per caller, so by nothing when
\* the estimate is a true worst case ("parallel calls can't jointly overshoot the
\* cap between check and record", costs.py:103-105).
SpendBounded == total <= MaxUsd + Cardinality(Callers) * Overrun

\* Every caller that entered its reserve block leaves it and gives the amount
\* back, whether the call succeeded, overspent or failed.
ReservationsReturned == \A c \in Callers : est[c] > 0 ~> est[c] = 0

\* What the calls let through and not yet recorded may cost.
InFlight == [c \in Callers |-> IF pc[c] \in {"reserved", "sending"} THEN est[c] ELSE 0]

\* The tracker implements the escrow account: in the account a reservation ends
\* when the cost is recorded, in the code a moment later.
Account == INSTANCE Escrow WITH
    Limit <- MaxUsd,
    Sum <- Total,
    spent <- total,
    hold <- InFlight

\* The counters and the lock together behave like the escrow account.
ImplementsEscrow == Account!Spec
=============================================================================
