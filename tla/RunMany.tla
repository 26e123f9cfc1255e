------------------------------ MODULE RunMany -------------------------------
(***************************************************************************)
(* LLM._map (llm.py): a list of items worked on by a pool of threads, for  *)
(* run_many (one call per item) and guard_batch (a value to check, and one *)
(* retry when the guard rejects it).  The items are numbered in the order  *)
(* they are given; each is a caller of the shared CostTracker.  The main   *)
(* thread submits them all, waits for their results in that order, and     *)
(* shuts the pool down.                                                    *)
(***************************************************************************)
EXTENDS CostTracker

CONSTANT Concurrencies  \* values max_concurrency may have

ASSUME RunManyAssumption ==
    /\ Callers = 1..Cardinality(Callers)
    /\ Callers # {}
    /\ Concurrencies \subseteq Nat \ {0}

VARIABLES
    job,        \* which method called _map
    workers,    \* threads of the pool; one means no pool, the items in a loop
    submitted,  \* how many items the pool has been given
    awaiting,   \* the item whose result the main thread waits for
    main,       \* what the main thread does; uncalled where it calls _map later
    phase,      \* of each item: its future, and inside it what fn is doing
    result      \* what fn returned for it

poolVars == <<job, workers, submitted, awaiting, main, phase, result>>
manyVars == <<total, reserved, pc, est, poolVars>>

Items == 1..Cardinality(Callers)
Phases == {"queued", "guarding", "calling", "done", "failed", "cancelled"}
MainSteps == {"uncalled", "submitting", "waiting", "cancelling", "joining",
              "returned", "raised"}

ManyTypeOK ==
    /\ TypeOK
    /\ job \in {"run_many", "guard_batch"}
    /\ workers \in Items
    /\ submitted \in 0..Cardinality(Callers)
    /\ awaiting \in 1..(Cardinality(Callers) + 1)
    /\ main \in MainSteps
    /\ phase \in [Items -> Phases]
    /\ result \in [Items -> {"none", "value", "error", "llm", "template"}]

\* _map: workers = min(concurrency, len(items)).
ManyInit ==
    /\ Init
    /\ job \in {"run_many", "guard_batch"}
    /\ \E n \in Concurrencies :
        workers = IF n < Cardinality(Callers) THEN n ELSE Cardinality(Callers)
    /\ submitted = 0
    /\ awaiting = 1
    /\ main = "submitting"
    /\ phase = [i \in Items |-> "queued"]
    /\ result = [i \in Items |-> "none"]

Active == {i \in Items : phase[i] \in {"guarding", "calling"}}
Queued == {i \in 1..submitted : phase[i] = "queued"}
First(S) == CHOOSE i \in S : \A j \in S : i <= j
-----------------------------------------------------------------------------
SubmitOneMore ==  \* mutant: the loop over the items runs once too often
    /\ main = "submitting"
    /\ submitted' = submitted + 1
    /\ main' = IF submitted' > Cardinality(Callers) THEN "waiting" ELSE "submitting"
    /\ UNCHANGED <<vars, job, workers, awaiting, phase, result>>

\* pool.submit for the next item; then the main thread turns to the results.
Submit ==
    /\ main = "submitting"
    /\ submitted' = submitted + 1
    /\ main' = IF submitted' = Cardinality(Callers) THEN "waiting" ELSE "submitting"
    /\ UNCHANGED <<vars, job, workers, awaiting, phase, result>>

\* An idle thread takes the oldest item of the queue; without a pool the main
\* thread calls fn itself, on the item it wants next.
Start(i) ==
    /\ Queued # {}
    /\ i = First(Queued)
    /\ IF workers > 1 THEN Cardinality(Active) < workers
                      ELSE main = "waiting" /\ awaiting = i
    /\ phase' = [phase EXCEPT ![i] = IF job = "run_many" THEN "calling" ELSE "guarding"]
    /\ UNCHANGED <<vars, job, workers, submitted, awaiting, main, result>>

\* fn ends for item i: it returned r, or it raised.
Returned(i, r) ==
    /\ phase' = [phase EXCEPT ![i] = "done"]
    /\ result' = [result EXCEPT ![i] = r]

Raised(i) ==
    /\ phase' = [phase EXCEPT ![i] = "failed"]
    /\ UNCHANGED result

mainVars == <<job, workers, submitted, awaiting, main>>

\* guard_batch on the value it was given: the batch item failed, the guard passes
\* it, rejects it, or raises.
GuardFirst(i) ==
    /\ phase[i] = "guarding"
    /\ \/ Returned(i, "template")
       \/ Returned(i, "llm")
       \/ phase' = [phase EXCEPT ![i] = "calling"] /\ UNCHANGED result
       \/ Raised(i)
    /\ UNCHANGED <<vars, mainVars>>

\* _send reserves the worst case, or raises BudgetExceeded out of fn; then it sends.
Send(i) ==
    /\ phase[i] = "calling"
    /\ \E e \in Estimates :
        \/ Reserve(i, e) /\ UNCHANGED <<phase, result>>
        \/ Refuse(i, e) /\ Raised(i)
        \/ Request(i) /\ UNCHANGED <<phase, result>>
    /\ UNCHANGED mainVars

\* What fn may return once its call is over.
Results == IF job = "run_many" THEN {"value", "error"} ELSE {"llm", "template"}

OverspendIgnored(i) ==  \* mutant: record warns instead of raising
    /\ \/ \E u \in 1..(est[i] + Overrun) : Record(i, u) /\ UNCHANGED <<phase, result>>
       \/ Release(i) /\ \E r \in Results : Returned(i, r)
       \/ ApiError(i) /\ Raised(i)
    /\ UNCHANGED mainVars

\* The call comes back.  Its cost is recorded; the reservation is released; and
\* fn raises if the record did, or returns: run_many a value or, after an LLMError
\* (refusal, truncation, nothing parsed), an error; guard_batch the model's second
\* text or, after an LLMError or a second rejection, the template, unless its guard,
\* fallback or log raises.  An API error releases the reservation and leaves fn.
CallEnds(i) ==
    /\ \/ \E u \in 1..(est[i] + Overrun) : Record(i, u) /\ UNCHANGED <<phase, result>>
       \/ /\ Release(i)
          /\ \/ pc[i] = "raising" /\ Raised(i)
             \/ pc[i] # "raising" /\ \E r \in Results : Returned(i, r)
             \/ pc[i] # "raising" /\ job = "guard_batch" /\ Raised(i)
       \/ ApiError(i) /\ Raised(i)
    /\ UNCHANGED mainVars

\* f.result() of the next future: a value, and on to the one after it.
Collect ==
    /\ main = "waiting"
    /\ awaiting \in Items
    /\ phase[awaiting] = "done"
    /\ awaiting' = awaiting + 1
    /\ UNCHANGED <<vars, job, workers, submitted, main, phase, result>>

\* f.result() raises the item's exception, or there are no more results: the
\* finally clause calls pool.shutdown.
ShutDown ==
    /\ main = "waiting"
    /\ awaiting \in Items => phase[awaiting] = "failed"
    /\ main' = "cancelling"
    /\ UNCHANGED <<vars, job, workers, submitted, awaiting, phase, result>>

\* cancel_futures: the queue is emptied item by item, beside the threads.
Cancel ==
    /\ main = "cancelling"
    /\ Queued # {}
    /\ phase' = [phase EXCEPT ![First(Queued)] = "cancelled"]
    /\ UNCHANGED <<vars, mainVars, result>>

Cancelled ==
    /\ main = "cancelling"
    /\ Queued = {}
    /\ main' = "joining"
    /\ UNCHANGED <<vars, job, workers, submitted, awaiting, phase, result>>

JoinSkipped ==  \* mutant: shutdown(wait=False)
    /\ main = "joining"
    /\ main' = IF awaiting \in Items THEN "raised" ELSE "returned"
    /\ UNCHANGED <<vars, job, workers, submitted, awaiting, phase, result>>

\* wait=True: _map returns or raises once every thread is idle.
Join ==
    /\ main = "joining"
    /\ Active = {}
    /\ main' = IF awaiting \in Items THEN "raised" ELSE "returned"
    /\ UNCHANGED <<vars, job, workers, submitted, awaiting, phase, result>>

Main == Submit \/ Collect \/ ShutDown \/ Cancel \/ Cancelled \/ Join

Fn(i) == GuardFirst(i) \/ Send(i) \/ CallEnds(i)

Over == main \in {"returned", "raised"} /\ UNCHANGED manyVars

ManyNext == Main \/ Over \/ \E i \in Items : Start(i) \/ Fn(i)

\* Every thread runs on, and a call that was sent comes back.
ManySpec ==
    /\ ManyInit /\ [][ManyNext]_manyVars
    /\ WF_manyVars(Main)
    /\ \A i \in Items : WF_manyVars(Start(i)) /\ WF_manyVars(Fn(i))
-----------------------------------------------------------------------------
\* The cap of a pool: however many items there are, the recorded total passes
\* MAX_RUN_USD by at most one overrun per thread of the pool, because only calls
\* in flight when the cap is reached can still pass it (README.md, "max_concurrency
\* ... can't jointly overshoot it").
PoolSpendBounded == main # "uncalled" => total <= MaxUsd + workers * Overrun

\* When _map is over, however it ended, no thread of the pool is inside fn, no item
\* is left in the queue and the tracker holds nothing (llm.py:670, wait=True): the
\* caller that catches the exception may start again.
NothingLeftBehind ==
    main \in {"returned", "raised"} =>
        /\ \A i \in Items : phase[i] \in {"done", "failed", "cancelled"}
        /\ reserved = 0

\* _map returns only when every item has a result, and then the run is within its
\* cap: an overspent call can not hide among the results of the others.  It raises
\* the exception of the earliest item that has one, wherever that was in time.
ReturnMeansAll ==
    /\ main = "returned" => total <= MaxUsd /\ \A i \in Items : phase[i] = "done"
    /\ main = "raised" => /\ phase[awaiting] = "failed"
                          /\ \A i \in 1..(awaiting - 1) : phase[i] = "done"

\* "The first exception (e.g. BudgetExceeded) cancels what hasn't started"
\* (llm.py:658): no item is taken up after another one failed, not counting the
\* moment the main thread needs to notice the failure of the one it waits for.
FirstExceptionCancels ==
    [][(\E k \in Items : phase[k] = "failed" /\ main = "waiting" /\ k # awaiting) =>
         \A i \in Items : phase[i] = "queued" => phase'[i] \in {"queued", "cancelled"}]_manyVars
=============================================================================
