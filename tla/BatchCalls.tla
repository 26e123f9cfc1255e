----------------------------- MODULE BatchCalls -----------------------------
(***************************************************************************)
(* LLM.batch (llm.py): the items as one batch of the Batch API, at half    *)
(* the price.  The batch's worst case is checked against the cap and not   *)
(* reserved; the batch is polled until it has ended or has timed out, then *)
(* its results are recorded one by one, or it is cancelled and, with       *)
(* on_timeout="sync", all items are run again by run_many.  The API works  *)
(* on the entries in its own time and bills each one that succeeds,        *)
(* whatever becomes of the caller.  Entries differ in nothing else, so     *)
(* they are counted.  A direct call of run_many or guard_batch, without a  *)
(* batch, is the case step = "direct".                                     *)
(***************************************************************************)
EXTENDS RunMany

CONSTANT MaxPolls  \* polls that fit in timeout_seconds

ASSUME BatchCallsAssumption == MaxPolls \in Nat

VARIABLES
    step,    \* where batch is
    quote,   \* the estimate of one entry, 0 before the batch is submitted
    waited,  \* polls slept through
    open,    \* the API's side: entries it has not ended yet
    bill,    \* the API's side: entries that succeeded, and are billed
    seen,    \* succeeded entries read from the results
    booked   \* history: entries whose cost the tracker has recorded

remote == <<open, bill>>
reading == <<seen, booked>>
batchVars == <<step, quote, waited, remote, reading>>

N == Cardinality(Callers)
BatchSteps == {"direct", "checking", "polling", "collecting", "fallback",
               "returned", "raised"}

BatchTypeOK ==
    /\ ManyTypeOK
    /\ step \in BatchSteps
    /\ quote \in Estimates \cup {0}
    /\ waited \in 0..MaxPolls
    /\ {open, bill, seen, booked} \subseteq 0..N /\ open + bill <= N

BatchInit ==
    /\ ManyInit
    /\ quote = 0 /\ waited = 0 /\ open = 0 /\ bill = 0 /\ seen = 0 /\ booked = 0
    /\ step = "direct"

\* The caller calls batch, and no pool yet.
BatchCalled ==
    /\ Init
    /\ job = "run_many"
    /\ workers \in {IF n < N THEN n ELSE N : n \in Concurrencies}
    /\ submitted = 0 /\ awaiting = 1
    /\ main = "uncalled"
    /\ phase = [i \in Items |-> "queued"]
    /\ result = [i \in Items |-> "none"]
    /\ quote = 0 /\ waited = 0 /\ open = 0 /\ bill = 0 /\ seen = 0 /\ booked = 0
    /\ step = "checking"

Goto(s) == step' = s

\* An exception leaves batch.  The API goes on with what it was given, and nobody
\* reads it: the entries it still bills are chosen here.
Abandon(s) ==
    /\ Goto(s)
    /\ bill' \in bill..(bill + open)
    /\ open' = 0
-----------------------------------------------------------------------------
SubmitUnchecked ==  \* mutant: the estimates are not added up before the check
    /\ step = "checking"
    /\ \E e \in Estimates :
        IF Fits(e)
        THEN Goto("polling") /\ quote' = e /\ open' = N
        ELSE Goto("raised") /\ UNCHANGED <<quote, open>>
    /\ UNCHANGED <<manyVars, waited, bill, reading>>

\* tracker.check on the sum of the estimates, without a reservation; then the batch
\* is created.  A create that raises may have reached the API all the same.
SubmitBatch ==
    /\ step = "checking"
    /\ \E e \in Estimates :
        \/ Fits(N * e) /\ Goto("polling") /\ quote' = e /\ open' = N /\ UNCHANGED bill
        \/ Fits(N * e) /\ Goto("raised") /\ quote' = e /\ bill' \in 0..N /\ UNCHANGED open
        \/ ~ Fits(N * e) /\ Goto("raised") /\ UNCHANGED <<quote, remote>>
    /\ UNCHANGED <<manyVars, waited, reading>>

\* The API ends one entry: it succeeded, or it failed, expired or got lost.
EndEntry ==
    /\ step = "polling"
    /\ open > 0
    /\ open' = open - 1
    /\ bill' \in {bill, bill + 1}
    /\ UNCHANGED <<manyVars, step, quote, waited, reading>>

PollForever ==  \* mutant: the time slept is not added up
    /\ step = "polling"
    /\ \/ open = 0 /\ Goto("collecting") /\ UNCHANGED waited
       \/ open > 0 /\ waited < MaxPolls /\ UNCHANGED <<step, waited>>
    /\ UNCHANGED <<manyVars, quote, remote, reading>>

\* retrieve: the batch has ended, or it has not and there is time to sleep.
Poll ==
    /\ step = "polling"
    /\ \/ open = 0 /\ Goto("collecting") /\ UNCHANGED waited
       \/ open > 0 /\ waited < MaxPolls /\ waited' = waited + 1 /\ UNCHANGED step
    /\ UNCHANGED <<manyVars, quote, remote, reading>>

\* The time is up: the batch is cancelled, too late for some of its entries.  Then
\* BatchTimeout, or run_many on all the items.
TimeOut ==
    /\ step = "polling"
    /\ open > 0
    /\ waited = MaxPolls
    /\ \/ Abandon("raised") /\ UNCHANGED main
       \/ Abandon("fallback") /\ main' = "submitting"
    /\ UNCHANGED <<vars, job, workers, submitted, awaiting, phase, result,
                   quote, waited, reading>>

\* create's answer is there; a later request of batch (retrieve, cancel, results)
\* raises.  Nothing cancels the batch.
RequestFails ==
    /\ step \in {"polling", "collecting"}
    /\ Abandon("raised")
    /\ UNCHANGED <<manyVars, quote, waited, reading>>

ValidateFirst ==  \* mutant: an unusable answer is an error before its cost is recorded
    /\ step = "collecting"
    /\ seen < bill
    /\ seen' = seen + 1
    /\ \/ /\ \E u \in 1..(quote + Overrun) : total' = total + u
          /\ booked' = booked + 1
          /\ \/ total' <= MaxUsd /\ UNCHANGED step
             \/ Goto("raised")
       \/ UNCHANGED <<total, booked, step>>
    /\ UNCHANGED <<reserved, pc, est, poolVars, quote, waited, remote>>

\* _batch_result for the next entry that succeeded: its cost is recorded, whatever
\* its answer is worth; record may raise, and then batch is left.  (An entry that
\* did not succeed changes nothing: its result is an error.)
BookEntry ==
    /\ step = "collecting"
    /\ seen < bill
    /\ seen' = seen + 1
    /\ booked' = booked + 1
    /\ \E u \in 1..(quote + Overrun) : total' = total + u
    /\ \/ total' <= MaxUsd /\ UNCHANGED step
       \/ Goto("raised")
    /\ UNCHANGED <<reserved, pc, est, poolVars, quote, waited, remote>>

\* No more results: items without one get an error, and batch returns.  Its other
\* return is the one of run_many, after a timeout: BatchReturned is both.
ReturnResults ==
    /\ step = "collecting"
    /\ seen = bill
    /\ Goto("returned")
    /\ UNCHANGED <<manyVars, quote, waited, remote, reading>>

\* batch has come back without an exception: with the results of the batch, or with
\* those of the synchronous calls that replaced it.
BatchReturned == step = "returned" \/ (step = "fallback" /\ main = "returned")

\* While the batch is worked on, another thread of the run makes a call of its own.
Meanwhile ==
    /\ step = "polling"
    /\ \E e \in Estimates : Fits(e) /\ \E u \in 1..(e + Overrun) : total' = total + u
    /\ UNCHANGED <<reserved, pc, est, poolVars, batchVars>>

Batch == SubmitBatch \/ Poll \/ TimeOut \/ BookEntry \/ ReturnResults

BatchOver == step \in {"returned", "raised"} /\ UNCHANGED <<manyVars, batchVars>>

BatchNext ==
    \/ Batch \/ EndEntry \/ RequestFails \/ Meanwhile \/ BatchOver
    \/ ManyNext /\ UNCHANGED batchVars

allVars == <<manyVars, batchVars>>

\* batch's thread and those of the pool run on, and requests come back; the API
\* owes no end of a batch.
BatchSpec ==
    /\ (BatchInit \/ BatchCalled) /\ [][BatchNext]_allVars
    /\ WF_allVars(Batch)
    /\ WF_allVars(Main /\ UNCHANGED batchVars)
    /\ \A i \in Items : /\ WF_allVars(Start(i) /\ UNCHANGED batchVars)
                        /\ WF_allVars(Fn(i) /\ UNCHANGED batchVars)
-----------------------------------------------------------------------------
\* What the run is billed, recorded or not: an entry that was billed and never
\* recorded, because the batch timed out, a request failed or an earlier entry's
\* record raised (llm.py:811-852), is money the cap does not see.  check before
\* submission keeps it to one more cap, one overrun per entry and per thread.
BilledBounded ==
    total + (bill - booked) * (quote + Overrun) <= 2 * MaxUsd + (N + workers) * Overrun

\* "Record before validating: the tokens were billed either way" (llm.py:874): when
\* batch returns, with however many errors among its results, every entry that was
\* billed is recorded, with one exception: after a timeout with on_timeout="sync" the
\* results are those of run_many (llm.py:820-840), and of what the cancelled batch was
\* still billed nothing at all is recorded.
ReturnedIsBooked ==
    BatchReturned /\ booked # bill =>
        step = "fallback" /\ waited = MaxPolls /\ booked = 0

\* batch comes back, with its results, with those of run_many, or with an exception,
\* even if the API never ends the batch; so do direct calls of the pool.
BatchEnds ==
    <>(\/ step \in {"returned", "raised"}
       \/ step \in {"direct", "fallback"} /\ main \in {"returned", "raised"})
=============================================================================
