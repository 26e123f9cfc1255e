-------------------------- MODULE BatchCallsProofs -------------------------
(***************************************************************************)
(* The pool's spend, what it leaves behind and what a batch is billed, for *)
(* every number of items and threads, every cap and every set of           *)
(* estimates.                                                              *)
(***************************************************************************)
EXTENDS BatchCalls, CostTrackerProofs

Doing == {"guarding", "calling"}
Working(f) == {i \in Items : f[i] \in Doing}

\* What is spent plus what calls in flight may still cost, on the threads of the pool.
PoolExposed ==
    total + Total(Callers, InFlight) + Cardinality(Support(Callers, InFlight)) * Overrun
        <= MaxUsd + workers * Overrun

\* Only an item that is being worked on calls, and there are threads for all of those.
Staffed ==
    /\ \A i \in Items : pc[i] # "idle" => phase[i] = "calling"
    /\ Cardinality(Working(phase)) <= workers
    /\ workers = 1 => Working(phase) \subseteq {awaiting}

\* Where the main thread is, from the futures it has looked at.
Collected ==
    /\ \A i \in Items : i < awaiting => phase[i] = "done"
    /\ main \in {"cancelling", "joining", "returned", "raised"} /\ awaiting \in Items
        => phase[awaiting] = "failed"
    /\ main = "returned" => awaiting \notin Items
    /\ main = "raised" => awaiting \in Items

\* What the main thread has left to the pool.
Emptied ==
    /\ main = "submitting" => submitted < N
    /\ main \notin {"submitting", "uncalled"} => submitted = N
    /\ main \in {"joining", "returned", "raised"} => \A i \in Items : phase[i] # "queued"
    /\ main \in {"returned", "raised"} => Working(phase) = {}

\* A total past the cap shows in an item that failed or is about to, or it was there
\* before the pool, and then no item has been let through.
OverspendShows ==
    total > MaxUsd =>
        \/ \E i \in Items : phase[i] = "failed" \/ pc[i] = "raising"
        \/ job = "run_many" /\ \A i \in Items : phase[i] # "done" /\ pc[i] = "idle"

\* run_many has no value to check first.
JobStarts == job = "run_many" => \A i \in Items : phase[i] # "guarding"

\* The inductive invariant of the pool.
PoolInv ==
    /\ IInv /\ ManyTypeOK /\ main # "uncalled"
    /\ PoolExposed /\ Staffed /\ Collected /\ Emptied /\ OverspendShows /\ JobStarts

\* Before batch calls the pool.
Uncalled ==
    /\ job = "run_many" /\ submitted = 0 /\ awaiting = 1 /\ reserved = 0
    /\ pc = [c \in Callers |-> "idle"] /\ est = [c \in Callers |-> 0]
    /\ phase = [i \in Items |-> "queued"]
    /\ step \in {"checking", "polling"} => total <= MaxUsd + Overrun

\* What batch has read of the results is recorded, and the check at submission holds for
\* what is still to come.
Booked ==
    /\ booked = seen /\ seen <= bill
    /\ step = "returned" => seen = bill
    /\ step \in {"direct", "checking", "polling", "fallback"} => seen = 0
    /\ step = "fallback" => waited = MaxPolls
    /\ step = "checking" => bill = 0
    /\ step \in {"checking", "collecting", "returned", "raised"} => open = 0
    /\ N * quote <= MaxUsd

\* The inductive invariant of batch with its fallback.
BatchInv ==
    /\ BatchTypeOK
    /\ main = "uncalled" <=> step \notin {"direct", "fallback"}
    /\ main = "uncalled" => Uncalled
    /\ main # "uncalled" => PoolInv
    /\ Booked
    /\ BilledBounded
-----------------------------------------------------------------------------
\* The items are the callers, finitely many and at least one.
LEMMA Sizes ==
    /\ N \in Nat \ {0} /\ Items = 1..N /\ Items = Callers /\ IsFiniteSet(Items)
    /\ MaxUsd \in Nat /\ Overrun \in Nat /\ Estimates \subseteq Nat \ {0}
<1>1. IsFiniteSet(Callers) /\ Callers # {}
  BY CostTrackerAssumption, RunManyAssumption
<1>2. Cardinality(Callers) \in Nat \ {0}
  BY <1>1, FS_CardinalityType, FS_EmptySet
<1> QED BY <1>1, <1>2, CostTrackerAssumption, RunManyAssumption DEF N, Items

\* The first of a queue is in it.
LEMMA FirstIsMember ==
    ASSUME NEW S \in SUBSET Items, S # {}
    PROVE  First(S) \in S
<1> DEFINE Below == {1..x : x \in S}
<1>1. N \in Nat /\ Items = 1..N /\ IsFiniteSet(Items)
  BY Sizes
<1>2. Below \subseteq FiniteSubsetsOf(Items) /\ Below # {}
  <2>1. ASSUME NEW x \in S
        PROVE  1..x \in FiniteSubsetsOf(Items)
    <3>1. 1..x \subseteq Items
      BY <1>1
    <3>2. IsFiniteSet(1..x)
      BY <1>1, <3>1, FS_Subset
    <3> QED BY <3>1, <3>2 DEF FiniteSubsetsOf
  <2> QED BY <2>1
<1>3. PICK B \in Below : \A C \in Below : <<C, B>> \notin StrictSubsetOrdering(Items)
  BY <1>1, <1>2, FS_StrictSubsetOrderingWellFounded, WFMin
<1>4. PICK x \in S : B = 1..x
  BY <1>3
<1>5. \A y \in S : x <= y
  <2> SUFFICES ASSUME NEW y \in S, y < x
               PROVE  FALSE
    BY <1>1
  <2>1. x \in Nat /\ y \in Nat /\ x <= N
    BY <1>1
  <2>2. 1..y \subseteq 1..x /\ 1..x \subseteq Items /\ x \in 1..x /\ x \notin 1..y
    BY <1>1, <2>1
  <2>3. <<1..y, B>> \in StrictSubsetOrdering(Items)
    BY <1>4, <2>2 DEF StrictSubsetOrdering
  <2> QED BY <1>3, <2>3
<1> QED BY <1>5 DEF First

\* What one item that moves does to the set of those being worked on.
LEMMA WorkingMoves ==
    ASSUME NEW f \in [Items -> Phases], NEW i \in Items, NEW q \in Phases,
           NEW g, g = [f EXCEPT ![i] = q]
    PROVE  /\ Cardinality(Working(f)) \in Nat
           /\ f[i] \in Doing \/ q \notin Doing =>
                /\ Working(g) \subseteq Working(f)
                /\ Cardinality(Working(g)) <= Cardinality(Working(f))
           /\ f[i] \notin Doing /\ q \in Doing =>
                /\ Working(g) = Working(f) \cup {i}
                /\ Cardinality(Working(g)) = Cardinality(Working(f)) + 1
<1>1. IsFiniteSet(Working(f)) /\ Cardinality(Working(f)) \in Nat
  <2>1. Working(f) \in SUBSET Items
    BY DEF Working
  <2> QED BY <2>1, Sizes, FS_Subset, FS_CardinalityType
<1>2. ASSUME f[i] \in Doing \/ q \notin Doing
      PROVE  /\ Working(g) \subseteq Working(f)
             /\ Cardinality(Working(g)) <= Cardinality(Working(f))
  <2>1. Working(g) \in SUBSET Working(f)
    BY <1>2 DEF Working
  <2> QED BY <1>1, <2>1, FS_Subset
<1>3. ASSUME f[i] \notin Doing, q \in Doing
      PROVE  /\ Working(g) = Working(f) \cup {i}
             /\ Cardinality(Working(g)) = Cardinality(Working(f)) + 1
  <2>1. Working(g) = Working(f) \cup {i} /\ i \notin Working(f)
    BY <1>3 DEF Working
  <2>2. Cardinality(Working(f) \cup {i}) = Cardinality(Working(f)) + 1
    BY <1>1, <2>1, FS_AddElement
  <2> QED BY <2>1, <2>2
<1> QED BY <1>1, <1>2, <1>3

LEMMA ActiveIsWorking == Active = Working(phase)
BY DEF Active, Working, Doing

\* Every step of the pool is one of the tracker, or leaves it alone.
LEMMA PoolStepIsTrackers == ManyNext => [Next]_vars
<1> SUFFICES ASSUME ManyNext
             PROVE  [Next]_vars
  OBVIOUS
<1>1. CASE Main \/ Over
  BY <1>1 DEF Main, Submit, Collect, ShutDown, Cancel, Cancelled, Join, Over, manyVars, vars
<1>2. ASSUME NEW i \in Items, Start(i) \/ Fn(i)
      PROVE  [Next]_vars
  <2>1. i \in Callers
    BY Sizes
  <2>2. CASE Start(i) \/ GuardFirst(i)
    BY <2>2 DEF Start, GuardFirst
  <2>3. CASE Send(i)
    BY <2>1, <2>3 DEF Send, Next, Step
  <2>4. CASE CallEnds(i)
    BY <2>1, <2>4 DEF CallEnds, Next, Step
  <2> QED BY <1>2, <2>2, <2>3, <2>4 DEF Fn
<1> QED BY <1>1, <1>2 DEF ManyNext

\* The types of what the steps compare.
LEMMA PoolParts ==
    ASSUME PoolInv
    PROVE  /\ TypeOK /\ EstMatchesPc /\ ReservationsExact
           /\ total \in Nat /\ reserved \in Nat
           /\ pc \in [Items -> Steps] /\ est \in [Items -> Nat]
           /\ phase \in [Items -> Phases]
           /\ workers \in Nat \ {0} /\ submitted \in 0..N /\ awaiting \in 1..(N + 1)
           /\ InFlight \in [Callers -> Nat]
           /\ Total(Callers, InFlight) \in Nat
           /\ Cardinality(Support(Callers, InFlight)) * Overrun \in Nat
           /\ workers * Overrun \in Nat
<1>1. TypeOK /\ EstMatchesPc /\ ReservationsExact
  BY DEF PoolInv, IInv
<1>2. /\ phase \in [Items -> Phases]
      /\ workers \in Nat \ {0} /\ submitted \in 0..N /\ awaiting \in 1..(N + 1)
  BY Sizes DEF PoolInv, ManyTypeOK, N, Items
<1>3. InFlight \in [Callers -> Nat]
  BY <1>1 DEF TypeOK, InFlight
<1>4. workers * Overrun \in Nat
  BY <1>2, TimesOverrun
<1> QED BY <1>1, <1>2, <1>3, <1>4, Sizes, Amounts DEF TypeOK

\* Steps that leave the tracker alone leave the exposure alone.
LEMMA MoneyAlone ==
    ASSUME PoolInv, UNCHANGED vars, workers' = workers
    PROVE  PoolExposed'
<1>1. total' = total /\ InFlight' = InFlight
  BY DEF vars, InFlight
<1> QED BY <1>1 DEF PoolInv, PoolExposed
-----------------------------------------------------------------------------
\* A step inside fn of one item leaves the main thread where it is.
LEMMA FnFrame ==
    ASSUME PoolInv, IInv', NEW i \in Items, phase[i] \in Doing, UNCHANGED mainVars,
           NEW q \in {"calling", "done", "failed"}, phase' = [phase EXCEPT ![i] = q],
           result' \in [Items -> {"none", "value", "error", "llm", "template"}]
    PROVE  /\ ManyTypeOK' /\ main' # "uncalled" /\ Collected' /\ Emptied' /\ JobStarts'
           /\ Cardinality(Working(phase')) <= workers'
           /\ workers' = 1 => Working(phase') \subseteq {awaiting'}
<1>1. /\ phase \in [Items -> Phases] /\ q \in Phases
      /\ workers \in Nat
      /\ job' = job /\ workers' = workers /\ submitted' = submitted
      /\ awaiting' = awaiting /\ main' = main
  BY PoolParts DEF Phases, mainVars
<1>2. ManyTypeOK'
  BY <1>1 DEF PoolInv, IInv, ManyTypeOK
<1>3. Working(phase') \subseteq Working(phase)
      /\ Cardinality(Working(phase')) <= Cardinality(Working(phase))
      /\ Cardinality(Working(phase)) \in Nat
  BY <1>1, WorkingMoves
<1>4. Cardinality(Working(phase')) \in Nat
  <2>1. phase' \in [Items -> Phases]
    BY <1>1
  <2>2. Working(phase') \in SUBSET Items
    BY DEF Working
  <2> QED BY <2>2, Sizes, FS_Subset, FS_CardinalityType
<1>5. Cardinality(Working(phase')) <= workers'
  BY <1>1, <1>3, <1>4 DEF PoolInv, Staffed
<1>6. workers' = 1 => Working(phase') \subseteq {awaiting'}
  BY <1>1, <1>3 DEF PoolInv, Staffed
<1>7. i \in Working(phase)
  BY DEF Working
<1>8. Collected'
  BY <1>1 DEF PoolInv, Collected, Doing
<1>9. Emptied'
  BY <1>1, <1>3, <1>7 DEF PoolInv, Emptied
<1>10. JobStarts'
  BY <1>1 DEF PoolInv, JobStarts
<1> QED BY <1>1, <1>2, <1>5, <1>6, <1>8, <1>9, <1>10 DEF PoolInv

\* An item that ends, and has no call in flight, leaves the others' signs of an overspend.
LEMMA ShowsStill ==
    ASSUME PoolInv, NEW i \in Items, total' = total, total > MaxUsd, job' = job,
           NEW q \in {"calling", "done", "failed"}, phase' = [phase EXCEPT ![i] = q],
           \A k \in Items \ {i} : pc'[k] = pc[k],
           \/ q = "failed"
           \/ phase[i] # "failed" /\ pc[i] \notin {"idle", "raising"}
    PROVE  \E k \in Items : phase'[k] = "failed" \/ pc'[k] = "raising"
<1>1. phase \in [Items -> Phases]
  BY PoolParts
<1>2. CASE q = "failed"
  BY <1>1, <1>2
<1>3. CASE phase[i] # "failed" /\ pc[i] \notin {"idle", "raising"}
  <2>1. PICK k \in Items : phase[k] = "failed" \/ pc[k] = "raising"
    BY <1>3 DEF PoolInv, OverspendShows
  <2>2. k # i
    BY <1>3, <2>1
  <2> QED BY <1>1, <2>1, <2>2
<1> QED BY <1>2, <1>3

\* guard_batch on the value it was given.
LEMMA GuardFirstKeeps ==
    ASSUME PoolInv, IInv', NEW i \in Items, GuardFirst(i)
    PROVE  PoolInv'
<1>1. /\ phase[i] = "guarding" /\ UNCHANGED vars /\ UNCHANGED mainVars
      /\ total' = total /\ pc' = pc /\ job' = job /\ workers' = workers
  BY DEF GuardFirst, vars, mainVars
<1>2. /\ phase \in [Items -> Phases] /\ total \in Nat /\ MaxUsd \in Nat
      /\ pc \in [Items -> Steps]
  BY PoolParts, Sizes
<1>3. pc[i] = "idle"
  BY <1>1 DEF PoolInv, Staffed
<1>4. PICK q \in {"calling", "done", "failed"} : phase' = [phase EXCEPT ![i] = q]
  BY DEF GuardFirst, Returned, Raised
<1>5. result' \in [Items -> {"none", "value", "error", "llm", "template"}]
  BY DEF GuardFirst, Returned, Raised, PoolInv, ManyTypeOK
<1>6. /\ ManyTypeOK' /\ main' # "uncalled" /\ Collected' /\ Emptied' /\ JobStarts'
      /\ Cardinality(Working(phase')) <= workers'
      /\ workers' = 1 => Working(phase') \subseteq {awaiting'}
  BY <1>1, <1>4, <1>5, FnFrame DEF Doing
<1>7. Staffed'
  BY <1>1, <1>2, <1>3, <1>4, <1>6 DEF PoolInv, Staffed
<1>8. OverspendShows'
  <2>1. CASE \E k \in Items : phase[k] = "failed" \/ pc[k] = "raising"
    <3>1. PICK k \in Items : phase[k] = "failed" \/ pc[k] = "raising"
      BY <2>1
    <3>2. k # i
      BY <1>1, <1>3, <3>1
    <3>3. phase'[k] = "failed" \/ pc'[k] = "raising"
      BY <1>1, <1>2, <1>4, <3>1, <3>2
    <3> QED BY <3>3 DEF OverspendShows
  <2>2. CASE total <= MaxUsd
    BY <1>1, <1>2, <2>2 DEF OverspendShows
  <2>3. CASE total > MaxUsd /\ job = "run_many"
    BY <1>1, <2>3 DEF GuardFirst, PoolInv, JobStarts
  <2> QED BY <1>2, <2>1, <2>2, <2>3 DEF PoolInv, OverspendShows
<1>9. PoolExposed'
  BY <1>1, MoneyAlone
<1> QED BY <1>6, <1>7, <1>8, <1>9 DEF PoolInv

\* What was reserved is sent: the exposure is as it was.
LEMMA RequestedKeeps ==
    ASSUME PoolInv, IInv', NEW i \in Items, Request(i),
           phase[i] = "calling", UNCHANGED <<phase, result>>, UNCHANGED mainVars
    PROVE  PoolInv'
<1>1. /\ phase \in [Items -> Phases] /\ pc \in [Items -> Steps] /\ Items = Callers
      /\ workers' = workers /\ job' = job
      /\ pc[i] = "reserved" /\ pc' = [pc EXCEPT ![i] = "sending"]
      /\ total' = total /\ phase' = phase /\ result' = result /\ est' = est
  BY PoolParts, Sizes DEF Request, mainVars
<1>2. phase' = [phase EXCEPT ![i] = "calling"]
  BY <1>1
<1>3. /\ ManyTypeOK' /\ main' # "uncalled" /\ Collected' /\ Emptied' /\ JobStarts'
      /\ Cardinality(Working(phase')) <= workers'
      /\ workers' = 1 => Working(phase') \subseteq {awaiting'}
  BY ZenonT(30), <1>1, <1>2, FnFrame DEF Doing, PoolInv, ManyTypeOK
<1>4. Staffed'
  BY <1>1, <1>3 DEF PoolInv, Staffed
<1>5. OverspendShows'
  BY <1>1 DEF PoolInv, OverspendShows
<1>6. InFlight' = InFlight
  BY <1>1 DEF InFlight
<1>7. PoolExposed'
  BY <1>1, <1>6 DEF PoolInv, PoolExposed
<1> QED BY <1>3, <1>4, <1>5, <1>7 DEF PoolInv

\* _send reserves the worst case or is refused.
LEMMA ReservedKeeps ==
    ASSUME PoolInv, IInv', NEW i \in Items, NEW e \in Estimates,
           \/ Reserve(i, e) /\ UNCHANGED <<phase, result>>
           \/ Refuse(i, e) /\ Raised(i),
           phase[i] = "calling", UNCHANGED mainVars
    PROVE  PoolInv'
<1>1. job' = job /\ workers' = workers
  BY DEF mainVars
<1>2. /\ phase \in [Items -> Phases] /\ total \in Nat /\ reserved \in Nat
      /\ MaxUsd \in Nat /\ Overrun \in Nat
      /\ pc \in [Items -> Steps] /\ Items = Callers
      /\ workers \in Nat
  BY PoolParts, Sizes
<1>4. pc[i] = "idle" /\ e \in Nat
  BY Sizes DEF Reserve, Refuse
<1>5. CASE Reserve(i, e) /\ UNCHANGED <<phase, result>>
  <2>1. phase' = [phase EXCEPT ![i] = "calling"] /\ phase' = phase /\ result' = result
    BY <1>1, <1>2, <1>5
  <2>2. /\ ManyTypeOK' /\ main' # "uncalled" /\ Collected' /\ Emptied' /\ JobStarts'
        /\ Cardinality(Working(phase')) <= workers'
        /\ workers' = 1 => Working(phase') \subseteq {awaiting'}
    BY <1>1, <2>1, FnFrame DEF Doing, PoolInv, ManyTypeOK
  <2>3. pc' = [pc EXCEPT ![i] = "reserved"] /\ total' = total /\ reserved' = reserved + e
        /\ total + reserved + e <= MaxUsd
    BY <1>5 DEF Reserve, Fits
  <2>4. Staffed'
    BY <1>1, <1>2, <2>1, <2>2, <2>3 DEF PoolInv, Staffed
  <2>5. OverspendShows'
    BY <1>2, <1>4, <2>3 DEF OverspendShows
  <2>6. /\ InFlight' \in [Callers -> Nat] /\ est' \in [Callers -> Nat]
        /\ \A c \in Callers : InFlight'[c] <= est'[c]
    BY DEF IInv, TypeOK, InFlight
  <2>7. /\ Total(Callers, InFlight') <= Total(Callers, est')
        /\ Total(Callers, InFlight') \in Nat /\ Total(Callers, est') \in Nat
        /\ Cardinality(Support(Callers, InFlight')) \in Nat
    BY <1>2, <2>6, Sizes, TotalMonotone, Amounts
  <2>8. total' + Total(Callers, InFlight') <= MaxUsd
    <3>1. reserved' = Total(Callers, est')
      BY DEF IInv, ReservationsExact
    <3> QED BY <1>2, <1>4, <2>3, <2>7, <3>1
  <2>9. Cardinality(Support(Callers, InFlight')) <= workers
    <3>1. Support(Callers, InFlight') \in SUBSET Working(phase')
      BY <1>2, <2>4 DEF Support, InFlight, Working, Doing, Staffed
    <3>2. IsFiniteSet(Working(phase')) /\ Cardinality(Working(phase')) \in Nat
      <4>1. Working(phase') \in SUBSET Items
        BY DEF Working
      <4> QED BY <4>1, Sizes, FS_Subset, FS_CardinalityType
    <3>3. Cardinality(Support(Callers, InFlight')) <= Cardinality(Working(phase'))
      BY <3>1, <3>2, FS_Subset
    <3> QED BY <1>1, <1>2, <2>2, <2>7, <3>2, <3>3
  <2>10. /\ Cardinality(Support(Callers, InFlight')) * Overrun <= workers * Overrun
         /\ Cardinality(Support(Callers, InFlight')) * Overrun \in Nat
         /\ workers * Overrun \in Nat
    BY <1>2, <2>7, <2>9, TimesOverrun
  <2>11. total' + Total(Callers, InFlight') + Cardinality(Support(Callers, InFlight')) * Overrun
           <= MaxUsd + workers * Overrun
    BY <1>2, <2>3, <2>7, <2>8, <2>10
  <2>12. PoolExposed'
    BY <1>1, <2>11 DEF PoolExposed
  <2> QED BY <2>2, <2>4, <2>5, <2>12 DEF PoolInv
<1>6. CASE Refuse(i, e) /\ Raised(i)
  <2>1. /\ UNCHANGED vars /\ total' = total /\ pc' = pc
        /\ phase' = [phase EXCEPT ![i] = "failed"] /\ result' = result
    BY <1>6 DEF Refuse, Raised, vars
  <2>2. /\ ManyTypeOK' /\ main' # "uncalled" /\ Collected' /\ Emptied' /\ JobStarts'
        /\ Cardinality(Working(phase')) <= workers'
        /\ workers' = 1 => Working(phase') \subseteq {awaiting'}
    BY <1>1, <2>1, FnFrame DEF Doing, PoolInv, ManyTypeOK
  <2>3. Staffed'
    BY <1>2, <1>4, <2>1, <2>2 DEF PoolInv, Staffed
  <2>4. OverspendShows'
    BY <1>2, <2>1 DEF OverspendShows
  <2>5. PoolExposed'
    BY <1>1, <2>1, MoneyAlone
  <2> QED BY <2>2, <2>3, <2>4, <2>5 DEF PoolInv
<1> QED BY <1>5, <1>6

\* _send up to the moment its request is out.
LEMMA SendKeeps ==
    ASSUME PoolInv, IInv', NEW i \in Items, Send(i)
    PROVE  PoolInv'
BY RequestedKeeps, ReservedKeeps DEF Send

\* A call in flight becomes a recorded cost, which it was exposed for already.
LEMMA RecordedKeeps ==
    ASSUME PoolInv, IInv', NEW i \in Items, NEW u \in 1..(est[i] + Overrun), Record(i, u),
           phase[i] = "calling", UNCHANGED <<phase, result>>, UNCHANGED mainVars
    PROVE  PoolInv'
<1>1. /\ phase \in [Items -> Phases] /\ total \in Nat /\ est[i] \in Nat
      /\ pc \in [Items -> Steps] /\ Items = Callers /\ i \in Callers
      /\ TypeOK /\ EstMatchesPc
      /\ MaxUsd \in Nat /\ Overrun \in Nat
      /\ Total(Callers, InFlight) \in Nat
      /\ Cardinality(Support(Callers, InFlight)) * Overrun \in Nat
      /\ workers * Overrun \in Nat /\ workers' = workers
  BY PoolParts, Sizes DEF mainVars
<1>2. phase' = [phase EXCEPT ![i] = "calling"] /\ phase' = phase /\ result' = result
  BY <1>1
<1>3. /\ ManyTypeOK' /\ main' # "uncalled" /\ Collected' /\ Emptied' /\ JobStarts'
      /\ Cardinality(Working(phase')) <= workers'
      /\ workers' = 1 => Working(phase') \subseteq {awaiting'}
  BY <1>2, FnFrame DEF Doing, PoolInv, ManyTypeOK
<1>4. PICK p \in {"recorded", "raising"} :
          /\ pc' = [pc EXCEPT ![i] = p]
          /\ total' <= MaxUsd \/ p = "raising"
  BY DEF Record
<1>5. u \in Nat /\ u <= est[i] + Overrun /\ total' = total + u /\ pc[i] = "sending"
  BY <1>1 DEF Record
<1>6. Staffed'
  BY <1>1, <1>2, <1>3, <1>4 DEF PoolInv, Staffed
<1>7. OverspendShows'
  <2>1. CASE p = "raising"
    BY <1>1, <1>4, <2>1 DEF OverspendShows
  <2>2. CASE total' <= MaxUsd
    BY <1>1, <1>5, <2>2 DEF OverspendShows
  <2> QED BY <1>4, <2>1, <2>2
<1>8. PoolExposed'
  <2>1. /\ InFlight' \in [Callers -> Nat]
        /\ InFlight'[i] = 0
        /\ \A d \in Callers \ {i} : InFlight'[d] = InFlight[d]
    BY <1>1, <1>4 DEF Record, IInv, InFlight, TypeOK
  <2>2. /\ Total(Callers, InFlight') = Total(Callers, InFlight) - est[i]
        /\ Cardinality(Support(Callers, InFlight')) * Overrun
             = Cardinality(Support(Callers, InFlight)) * Overrun - Overrun
    BY <1>1, <1>5, <2>1, CallReturns
  <2> QED BY <1>1, <1>5, <2>2 DEF PoolInv, PoolExposed
<1> QED BY <1>3, <1>6, <1>7, <1>8 DEF PoolInv

\* The reserve block is left after a record: what record raised leaves fn.
LEMMA ReleasedKeeps ==
    ASSUME PoolInv, IInv', NEW i \in Items, Release(i),
           phase[i] = "calling", UNCHANGED mainVars,
           NEW q \in {"done", "failed"}, phase' = [phase EXCEPT ![i] = q],
           pc[i] = "raising" => q = "failed",
           result' \in [Items -> {"none", "value", "error", "llm", "template"}]
    PROVE  PoolInv'
<1>1. /\ phase \in [Items -> Phases] /\ total \in Nat /\ MaxUsd \in Nat
      /\ pc \in [Items -> Steps] /\ Items = Callers
      /\ workers' = workers /\ job' = job
      /\ pc[i] \in {"recorded", "raising"}
      /\ total' = total /\ pc' = [pc EXCEPT ![i] = "idle"]
  BY PoolParts, Sizes DEF mainVars, Release, GiveBack
<1>2. /\ ManyTypeOK' /\ main' # "uncalled" /\ Collected' /\ Emptied' /\ JobStarts'
      /\ Cardinality(Working(phase')) <= workers'
      /\ workers' = 1 => Working(phase') \subseteq {awaiting'}
  BY FnFrame DEF Doing
<1>3. Staffed'
  BY <1>1, <1>2 DEF PoolInv, Staffed
<1>4. OverspendShows'
  <2> SUFFICES ASSUME total' > MaxUsd
               PROVE  \E k \in Items : phase'[k] = "failed" \/ pc'[k] = "raising"
    BY DEF OverspendShows
  <2>1. \A k \in Items \ {i} : pc'[k] = pc[k]
    BY <1>1
  <2>2. \/ q = "failed"
        \/ phase[i] # "failed" /\ pc[i] \notin {"idle", "raising"}
    BY <1>1
  <2> QED BY <1>1, <2>1, <2>2, ShowsStill
<1>5. PoolExposed'
  <2>1. InFlight' = InFlight
    BY <1>1 DEF InFlight, Release, GiveBack
  <2> QED BY <1>1, <2>1 DEF PoolInv, PoolExposed
<1> QED BY <1>2, <1>3, <1>4, <1>5 DEF PoolInv

\* A failed call was exposed, and is no more.
LEMMA ApiErrorFails ==
    ASSUME PoolInv, IInv', NEW i \in Items, ApiError(i), Raised(i),
           phase[i] = "calling", UNCHANGED mainVars
    PROVE  PoolInv'
<1>1. /\ phase \in [Items -> Phases] /\ total \in Nat /\ est[i] \in Nat
      /\ pc \in [Items -> Steps] /\ Items = Callers /\ i \in Callers
      /\ TypeOK /\ EstMatchesPc
      /\ MaxUsd \in Nat /\ Overrun \in Nat
      /\ Total(Callers, InFlight) \in Nat
      /\ Cardinality(Support(Callers, InFlight)) * Overrun \in Nat
      /\ workers * Overrun \in Nat /\ workers' = workers
  BY PoolParts, Sizes DEF mainVars
<1>2. /\ phase' = [phase EXCEPT ![i] = "failed"] /\ result' = result
      /\ total' = total /\ pc[i] = "sending" /\ pc' = [pc EXCEPT ![i] = "idle"]
  BY DEF Raised, ApiError, GiveBack
<1>3. /\ ManyTypeOK' /\ main' # "uncalled" /\ Collected' /\ Emptied' /\ JobStarts'
      /\ Cardinality(Working(phase')) <= workers'
      /\ workers' = 1 => Working(phase') \subseteq {awaiting'}
  BY <1>2, FnFrame DEF Doing, PoolInv, ManyTypeOK
<1>4. Staffed'
  BY <1>1, <1>2, <1>3 DEF PoolInv, Staffed
<1>5. OverspendShows'
  BY <1>1, <1>2 DEF OverspendShows
<1>6. PoolExposed'
  <2>1. /\ InFlight' \in [Callers -> Nat]
        /\ InFlight'[i] = 0
        /\ \A d \in Callers \ {i} : InFlight'[d] = InFlight[d]
    BY <1>1, <1>2 DEF ApiError, GiveBack, IInv, InFlight, TypeOK
  <2>2. /\ Total(Callers, InFlight') = Total(Callers, InFlight) - est[i]
        /\ Cardinality(Support(Callers, InFlight')) * Overrun
             = Cardinality(Support(Callers, InFlight)) * Overrun - Overrun
    BY <1>1, <1>2, <2>1, CallReturns
  <2> QED BY <1>1, <1>2, <2>2 DEF PoolInv, PoolExposed
<1> QED BY <1>3, <1>4, <1>5, <1>6 DEF PoolInv

\* The call comes back.
LEMMA CallEndsKeeps ==
    ASSUME PoolInv, IInv', NEW i \in Items, CallEnds(i)
    PROVE  PoolInv'
<1>1. UNCHANGED mainVars
  BY DEF CallEnds
<1>2. pc[i] # "idle" => phase[i] = "calling"
  BY DEF PoolInv, Staffed
<1>3. \A r \in Results : r \in {"value", "error", "llm", "template"}
  BY DEF Results
<1>4. result \in [Items -> {"none", "value", "error", "llm", "template"}]
  BY DEF PoolInv, ManyTypeOK
<1>5. CASE \E u \in 1..(est[i] + Overrun) : Record(i, u) /\ UNCHANGED <<phase, result>>
  <2>1. PICK u \in 1..(est[i] + Overrun) : Record(i, u) /\ UNCHANGED <<phase, result>>
    BY <1>5
  <2>2. phase[i] = "calling"
    BY <1>2, <2>1 DEF Record
  <2> QED BY <1>1, <2>1, <2>2, RecordedKeeps
<1>6. CASE Release(i) /\ Raised(i)
  <2>1. phase[i] = "calling"
    BY <1>2, <1>6 DEF Release
  <2>2. phase' = [phase EXCEPT ![i] = "failed"] /\ result' = result
    BY <1>6 DEF Raised
  <2> QED BY <1>1, <1>4, <1>6, <2>1, <2>2, ReleasedKeeps
<1>7. CASE Release(i) /\ pc[i] # "raising" /\ \E r \in Results : Returned(i, r)
  <2>1. PICK r \in Results : Returned(i, r)
    BY <1>7
  <2>2. phase[i] = "calling"
    BY <1>2, <1>7 DEF Release
  <2>3. /\ phase' = [phase EXCEPT ![i] = "done"]
        /\ result' \in [Items -> {"none", "value", "error", "llm", "template"}]
    BY <1>3, <1>4, <2>1 DEF Returned
  <2> QED BY <1>1, <1>7, <2>2, <2>3, ReleasedKeeps
<1>8. CASE ApiError(i) /\ Raised(i)
  <2>1. phase[i] = "calling"
    BY <1>2, <1>8 DEF ApiError
  <2> QED BY <1>1, <1>8, <2>1, ApiErrorFails
<1> QED BY <1>5, <1>6, <1>7, <1>8 DEF CallEnds

\* The queue is made of items, and its first is one that is queued.
LEMMA QueueOfItems ==
    ASSUME PoolInv
    PROVE  /\ \A i \in Queued : i \in Items /\ phase[i] = "queued"
           /\ Queued # {} => First(Queued) \in Queued
<1>1. Queued \in SUBSET Items
  BY PoolParts, Sizes DEF Queued
<1> QED BY <1>1, FirstIsMember DEF Queued

\* An item is taken from the queue by a thread that is free for it.
LEMMA StartKeeps ==
    ASSUME PoolInv, IInv', NEW i \in Items, Start(i)
    PROVE  PoolInv'
<1> DEFINE q == IF job = "run_many" THEN "calling" ELSE "guarding"
<1>1. /\ phase' = [phase EXCEPT ![i] = q] /\ q \in Doing /\ q \in Phases
      /\ total' = total /\ pc' = pc /\ job' = job /\ workers' = workers
      /\ submitted' = submitted /\ awaiting' = awaiting /\ main' = main
      /\ result' = result /\ UNCHANGED vars
  BY DEF Start, vars, Doing, Phases
<1>2. /\ phase \in [Items -> Phases] /\ total \in Nat /\ MaxUsd \in Nat
      /\ workers \in Nat \ {0} /\ pc \in [Items -> Steps]
  BY PoolParts, Sizes
<1>3. phase[i] = "queued"
  BY QueueOfItems DEF Start
<1>4. /\ Working(phase') = Working(phase) \cup {i}
      /\ Cardinality(Working(phase')) = Cardinality(Working(phase)) + 1
      /\ Cardinality(Working(phase)) \in Nat
  <2>1. phase[i] \notin Doing
    BY <1>3 DEF Doing
  <2> QED BY <1>1, <1>2, <2>1, WorkingMoves
<1>5. ManyTypeOK' /\ main' # "uncalled"
  BY <1>1, <1>2 DEF PoolInv, IInv, ManyTypeOK
<1>6. Staffed'
  <2>1. \A k \in Items : pc'[k] # "idle" => phase'[k] = "calling"
    BY <1>1, <1>2, <1>3 DEF PoolInv, Staffed
  <2>2. CASE workers > 1
    <3>1. Cardinality(Working(phase)) < workers
      BY <2>2, ActiveIsWorking DEF Start
    <3>2. Cardinality(Working(phase')) <= workers' /\ workers' # 1
      BY <1>1, <1>2, <1>4, <2>2, <3>1
    <3> QED BY <2>1, <3>2 DEF Staffed
  <2>3. CASE ~ (workers > 1)
    <3>1. workers = 1 /\ awaiting = i
      BY <1>2, <2>3 DEF Start
    <3>2. i \notin Working(phase)
      BY <1>3 DEF Working, Doing
    <3>3. Working(phase) = {}
      BY <3>1, <3>2 DEF PoolInv, Staffed
    <3>4. Cardinality(Working(phase)) = 0
      BY <3>3, FS_EmptySet
    <3>5. Cardinality(Working(phase')) = 1 /\ workers' = 1
      BY <1>1, <1>4, <3>1, <3>4
    <3>6. Working(phase') = {awaiting'}
      BY <1>1, <1>4, <3>1, <3>3
    <3>7. Cardinality(Working(phase')) <= workers'
      BY <3>5
    <3> QED BY <2>1, <3>6, <3>7 DEF Staffed
  <2> QED BY <2>2, <2>3
<1>7. Collected'
  BY <1>1, <1>2, <1>3 DEF PoolInv, Collected
<1>8. main \notin {"joining", "returned", "raised"}
  BY <1>3 DEF PoolInv, Emptied
<1>9. Emptied'
  BY <1>1, <1>8 DEF PoolInv, Emptied
<1>10. OverspendShows'
  <2>1. CASE \E k \in Items : phase[k] = "failed" \/ pc[k] = "raising"
    <3>1. PICK k \in Items : phase[k] = "failed" \/ pc[k] = "raising"
      BY <2>1
    <3>2. phase'[k] = "failed" \/ pc'[k] = "raising"
      BY <1>1, <1>2, <1>3, <3>1
    <3> QED BY <3>2 DEF OverspendShows
  <2>2. CASE total <= MaxUsd
    BY <1>1, <1>2, <2>2 DEF OverspendShows
  <2>3. CASE job = "run_many" /\ \A k \in Items : phase[k] # "done" /\ pc[k] = "idle"
    <3>1. \A k \in Items : phase'[k] # "done" /\ pc'[k] = "idle"
      BY <1>1, <1>2, <2>3
    <3> QED BY <1>1, <2>3, <3>1 DEF OverspendShows
  <2> QED BY <1>2, <2>1, <2>2, <2>3 DEF PoolInv, OverspendShows
<1>11. JobStarts'
  BY <1>1, <1>2 DEF PoolInv, JobStarts
<1>12. PoolExposed'
  BY <1>1, MoneyAlone
<1> QED BY <1>5, <1>6, <1>7, <1>9, <1>10, <1>11, <1>12 DEF PoolInv

\* Steps of the main thread that look at the futures without touching them.
LEMMA LooksKeep ==
    ASSUME PoolInv, UNCHANGED <<vars, job, workers, phase, result>>
    PROVE  /\ PoolExposed' /\ OverspendShows' /\ JobStarts'
           /\ \A k \in Items : pc'[k] # "idle" => phase'[k] = "calling"
           /\ Cardinality(Working(phase')) <= workers'
<1>1. /\ total' = total /\ pc' = pc /\ job' = job /\ workers' = workers
      /\ phase' = phase /\ result' = result /\ UNCHANGED vars
  BY DEF vars
<1>2. PoolExposed'
  BY <1>1, MoneyAlone
<1>3. OverspendShows' /\ JobStarts'
  BY <1>1 DEF PoolInv, OverspendShows, JobStarts
<1> QED BY <1>1, <1>2, <1>3 DEF PoolInv, Staffed

\* pool.submit.
LEMMA SubmitKeeps ==
    ASSUME PoolInv, IInv', Submit
    PROVE  PoolInv'
<1>1. /\ main = "submitting" /\ submitted' = submitted + 1
      /\ UNCHANGED <<vars, job, workers, phase, result>> /\ awaiting' = awaiting
      /\ workers' = workers /\ phase' = phase /\ job' = job /\ result' = result
      /\ main' = IF submitted' = N THEN "waiting" ELSE "submitting"
  BY DEF Submit, vars, N
<1>2. submitted \in 0..N /\ submitted < N /\ N \in Nat
  BY <1>1, PoolParts, Sizes DEF PoolInv, Emptied
<1>3. submitted' \in 0..N
  BY <1>1, <1>2
<1>4. main' \in {"waiting", "submitting"}
  BY <1>1
<1>5. ManyTypeOK' /\ main' # "uncalled"
  BY <1>1, <1>3, <1>4 DEF PoolInv, IInv, ManyTypeOK, MainSteps, N
<1>6. Collected'
  BY <1>1, <1>4 DEF PoolInv, Collected
<1>7. Emptied'
  <2>1. CASE submitted' = N
    BY <1>1, <2>1 DEF Emptied
  <2>2. CASE submitted' # N
    <3>1. submitted' < N /\ main' = "submitting"
      BY <1>1, <1>2, <1>3, <2>2
    <3> QED BY <3>1 DEF Emptied
  <2> QED BY <2>1, <2>2
<1>8. Staffed'
  BY <1>1, LooksKeep DEF PoolInv, Staffed
<1> QED BY <1>1, <1>5, <1>6, <1>7, <1>8, LooksKeep DEF PoolInv

\* f.result() of a future that has one.
LEMMA CollectKeeps ==
    ASSUME PoolInv, IInv', Collect
    PROVE  PoolInv'
<1>1. /\ main = "waiting" /\ main' = "waiting" /\ awaiting \in Items
      /\ phase[awaiting] = "done" /\ awaiting' = awaiting + 1
      /\ UNCHANGED <<vars, job, workers, phase, result>> /\ submitted' = submitted
      /\ workers' = workers /\ phase' = phase /\ job' = job /\ result' = result
  BY DEF Collect, vars
<1>2. N \in Nat /\ Items = 1..N
  BY Sizes
<1>3. awaiting' \in 1..(N + 1)
  BY <1>1, <1>2
<1>4. ManyTypeOK' /\ main' # "uncalled"
  BY <1>1, <1>3 DEF PoolInv, IInv, ManyTypeOK, N
<1>5. Collected'
  <2>1. \A k \in Items : k < awaiting + 1 => k < awaiting \/ k = awaiting
    BY <1>1, <1>2
  <2>2. \A k \in Items : k < awaiting' => phase'[k] = "done"
    BY <1>1, <2>1 DEF PoolInv, Collected
  <2> QED BY <1>1, <2>2 DEF Collected
<1>6. Emptied'
  BY <1>1 DEF PoolInv, Emptied
<1>7. Staffed'
  <2>1. awaiting \notin Working(phase)
    BY <1>1 DEF Working, Doing
  <2>2. workers' = 1 => Working(phase') \subseteq {awaiting'}
    BY <1>1, <2>1 DEF PoolInv, Staffed
  <2> QED BY <1>1, <2>2, LooksKeep DEF Staffed
<1> QED BY <1>1, <1>4, <1>5, <1>6, <1>7, LooksKeep DEF PoolInv

\* The steps of pool.shutdown but for the queue.
LEMMA ShutDownKeeps ==
    ASSUME PoolInv, IInv', ShutDown \/ Cancelled \/ Join
    PROVE  PoolInv'
<1>1. /\ UNCHANGED <<vars, job, workers, phase, result>> /\ submitted' = submitted
      /\ awaiting' = awaiting
      /\ workers' = workers /\ phase' = phase /\ job' = job /\ result' = result
      /\ main' \in {"cancelling", "joining", "returned", "raised"}
  BY DEF ShutDown, Cancelled, Join, vars
<1>2. ManyTypeOK' /\ main' # "uncalled"
  BY <1>1 DEF PoolInv, IInv, ManyTypeOK, MainSteps
<1>3. Staffed'
  BY <1>1, LooksKeep DEF PoolInv, Staffed
<1>4. Collected' /\ Emptied'
  <2>1. CASE ShutDown
    BY <1>1, <2>1 DEF ShutDown, PoolInv, Collected, Emptied
  <2>2. CASE Cancelled
    <3>1. submitted = N /\ Items = 1..N /\ main = "cancelling" /\ main' = "joining"
      BY <2>2, Sizes DEF Cancelled, PoolInv, Emptied
    <3>2. \A k \in Items : phase[k] # "queued"
      BY <2>2, <3>1 DEF Cancelled, Queued
    <3> QED BY <1>1, <3>1, <3>2 DEF PoolInv, Collected, Emptied
  <2>3. CASE Join
    <3>1. Working(phase) = {} /\ main = "joining"
      BY <2>3, ActiveIsWorking DEF Join
    <3>2. CASE awaiting \in Items
      BY <1>1, <2>3, <3>1, <3>2 DEF Join, PoolInv, Collected, Emptied
    <3>3. CASE awaiting \notin Items
      BY <1>1, <2>3, <3>1, <3>3 DEF Join, PoolInv, Collected, Emptied
    <3> QED BY <3>2, <3>3
  <2> QED BY <2>1, <2>2, <2>3
<1> QED BY <1>1, <1>2, <1>3, <1>4, LooksKeep DEF PoolInv

\* cancel_futures takes an item of the queue.
LEMMA CancelKeeps ==
    ASSUME PoolInv, IInv', Cancel
    PROVE  PoolInv'
<1> DEFINE i == First(Queued)
<1>1. /\ main = "cancelling" /\ main' = main
      /\ phase' = [phase EXCEPT ![i] = "cancelled"]
      /\ total' = total /\ pc' = pc /\ job' = job /\ workers' = workers
      /\ submitted' = submitted /\ awaiting' = awaiting
      /\ result' = result /\ UNCHANGED vars
  BY DEF Cancel, vars, mainVars
<1>2. i \in Items /\ phase[i] = "queued"
  BY QueueOfItems DEF Cancel
<1> HIDE DEF i
<1>3. /\ phase \in [Items -> Phases] /\ total \in Nat /\ MaxUsd \in Nat
      /\ workers \in Nat \ {0} /\ pc \in [Items -> Steps]
      /\ "cancelled" \in Phases /\ "cancelled" \notin Doing
  BY PoolParts, Sizes DEF Phases, Doing
<1>4. Working(phase') \subseteq Working(phase)
      /\ Cardinality(Working(phase')) <= Cardinality(Working(phase))
      /\ Cardinality(Working(phase)) \in Nat
  BY <1>1, <1>2, <1>3, WorkingMoves
<1>5. Cardinality(Working(phase')) \in Nat
  <2>1. Working(phase') \in SUBSET Items
    BY DEF Working
  <2> QED BY <2>1, Sizes, FS_Subset, FS_CardinalityType
<1>6. ManyTypeOK' /\ main' # "uncalled"
  BY <1>1, <1>3 DEF PoolInv, IInv, ManyTypeOK
<1>7. Staffed'
  <2>1. \A k \in Items : pc'[k] # "idle" => phase'[k] = "calling"
    BY <1>1, <1>2, <1>3 DEF PoolInv, Staffed
  <2>2. Cardinality(Working(phase')) <= workers'
    BY <1>1, <1>3, <1>4, <1>5 DEF PoolInv, Staffed
  <2>3. workers' = 1 => Working(phase') \subseteq {awaiting'}
    BY <1>1, <1>4 DEF PoolInv, Staffed
  <2> QED BY <2>1, <2>2, <2>3 DEF Staffed
<1>8. Collected'
  BY <1>1, <1>2, <1>3 DEF PoolInv, Collected
<1>9. Emptied'
  BY <1>1 DEF PoolInv, Emptied
<1>10. OverspendShows' /\ JobStarts'
  BY <1>1, <1>2, <1>3 DEF PoolInv, OverspendShows, JobStarts
<1>11. PoolExposed'
  BY <1>1, MoneyAlone
<1> QED BY <1>6, <1>7, <1>8, <1>9, <1>10, <1>11 DEF PoolInv

\* Every step of the pool keeps its invariant.
LEMMA PoolKeeps == PoolInv /\ ManyNext => PoolInv'
<1> SUFFICES ASSUME PoolInv, ManyNext
             PROVE  PoolInv'
  OBVIOUS
<1>1. IInv'
  BY PoolStepIsTrackers, NextKeeps DEF PoolInv
<1>2. CASE Main
  BY <1>1, <1>2, SubmitKeeps, CollectKeeps, ShutDownKeeps, CancelKeeps DEF Main
<1>3. CASE Over
  <2>1. /\ UNCHANGED <<vars, job, workers, phase, result>>
        /\ submitted' = submitted /\ awaiting' = awaiting /\ main' = main
        /\ workers' = workers /\ phase' = phase /\ job' = job /\ result' = result
    BY <1>3 DEF Over, manyVars, vars, poolVars
  <2>2. ManyTypeOK' /\ main' # "uncalled" /\ Collected' /\ Emptied'
    BY <1>1, <2>1 DEF PoolInv, IInv, ManyTypeOK, Collected, Emptied
  <2>3. Staffed'
    BY <2>1, LooksKeep DEF PoolInv, Staffed
  <2> QED BY <1>1, <2>1, <2>2, <2>3, LooksKeep DEF PoolInv
<1>4. ASSUME NEW i \in Items, Start(i) \/ Fn(i)
      PROVE  PoolInv'
  BY <1>1, <1>4, StartKeeps, GuardFirstKeeps, SendKeeps, CallEndsKeeps DEF Fn
<1> QED BY <1>2, <1>3, <1>4 DEF ManyNext
-----------------------------------------------------------------------------
\* A pool that is about to take its first item.
Starting ==
    /\ total \in Nat /\ reserved = 0
    /\ total <= MaxUsd + Overrun
    /\ total > MaxUsd => job = "run_many"
    /\ pc = [c \in Callers |-> "idle"] /\ est = [c \in Callers |-> 0]
    /\ job \in {"run_many", "guard_batch"} /\ workers \in Items
    /\ submitted = 0 /\ awaiting = 1 /\ main = "submitting"
    /\ phase = [i \in Items |-> "queued"]
    /\ result \in [Items -> {"none", "value", "error", "llm", "template"}]

\* Nothing is in flight when no caller holds an estimate.
LEMMA NothingHeld ==
    ASSUME est = [c \in Callers |-> 0], pc = [c \in Callers |-> "idle"]
    PROVE  /\ Total(Callers, est) = 0
           /\ Total(Callers, InFlight) = 0
           /\ Cardinality(Support(Callers, InFlight)) = 0
<1>1. InFlight = [c \in Callers |-> 0]
  BY DEF InFlight
<1>2. Support(Callers, InFlight) = {}
  BY <1>1 DEF Support
<1> QED BY <1>1, <1>2, TotalZero, FS_EmptySet

LEMMA PoolStarts == Starting => PoolInv
<1> SUFFICES ASSUME Starting
             PROVE  PoolInv
  OBVIOUS
<1>1. /\ N \in Nat \ {0} /\ Items = 1..N /\ Items = Callers
      /\ MaxUsd \in Nat /\ Overrun \in Nat /\ N = Cardinality(Callers)
  BY Sizes DEF N
<1>2. TypeOK /\ EstMatchesPc
  BY DEF Starting, TypeOK, Steps, EstMatchesPc
<1>3. /\ Total(Callers, est) = 0
      /\ Total(Callers, InFlight) = 0
      /\ Cardinality(Support(Callers, InFlight)) = 0
  BY NothingHeld DEF Starting
<1>4. workers \in Nat \ {0} /\ workers <= N
  BY <1>1 DEF Starting
<1>5. /\ Overrun <= N * Overrun /\ N * Overrun \in Nat
      /\ Overrun <= workers * Overrun /\ workers * Overrun \in Nat
      /\ 0 * Overrun = 0 /\ total \in Nat /\ total <= MaxUsd + Overrun
  <2>1. 1 * Overrun <= N * Overrun /\ 1 * Overrun <= workers * Overrun
    BY <1>1, <1>4, TimesOverrun
  <2>2. 1 * Overrun = Overrun /\ 0 * Overrun = 0
    BY <1>1
  <2>3. N * Overrun \in Nat /\ workers * Overrun \in Nat
    BY <1>1, <1>4, TimesOverrun
  <2> QED BY <2>1, <2>2, <2>3 DEF Starting
<1>6. Exposed /\ PoolExposed
  <2>1. total + 0 + 0 * Overrun <= MaxUsd + N * Overrun
    BY <1>1, <1>5
  <2>2. total + 0 + 0 * Overrun <= MaxUsd + workers * Overrun
    BY <1>1, <1>5
  <2> QED BY <1>1, <1>3, <2>1, <2>2 DEF Exposed, PoolExposed
<1>7. IInv
  BY <1>2, <1>3, <1>6 DEF IInv, ReservationsExact, Starting
<1>8. ManyTypeOK /\ main # "uncalled"
  BY <1>1, <1>2 DEF Starting, ManyTypeOK, Phases, MainSteps, N
<1>9. Working(phase) = {}
  BY DEF Starting, Working, Doing
<1>10. Staffed
  <2>1. Cardinality(Working(phase)) = 0
    BY <1>9, FS_EmptySet
  <2>2. Cardinality(Working(phase)) <= workers
    BY <1>4, <2>1
  <2>3. \A i \in Items : pc[i] = "idle"
    BY <1>1 DEF Starting
  <2> QED BY <1>9, <2>2, <2>3 DEF Staffed
<1>11. Collected
  BY <1>1 DEF Starting, Collected
<1>12. Emptied
  BY <1>1 DEF Starting, Emptied
<1>13. OverspendShows
  BY <1>1 DEF Starting, OverspendShows
<1>14. JobStarts
  BY DEF Starting, JobStarts
<1> QED BY <1>6, <1>7, <1>8, <1>10, <1>11, <1>12, <1>13, <1>14 DEF PoolInv

\* A pool that is not called does nothing.
LEMMA UncalledRests == main = "uncalled" /\ Uncalled /\ ManyNext => FALSE
<1> SUFFICES ASSUME main = "uncalled", Uncalled, ManyNext
             PROVE  FALSE
  OBVIOUS
<1>1. Items = Callers
  BY Sizes
<1>2. CASE Main \/ Over
  BY <1>2 DEF Main, Submit, Collect, ShutDown, Cancel, Cancelled, Join, Over
<1>3. ASSUME NEW i \in Items, Start(i) \/ Fn(i)
      PROVE  FALSE
  <2>1. Queued = {}
    BY DEF Uncalled, Queued
  <2>2. phase[i] = "queued" /\ pc[i] = "idle"
    BY <1>1 DEF Uncalled
  <2> QED BY <1>3, <2>1, <2>2
          DEF Start, Fn, GuardFirst, Send, CallEnds, Record, Release, ApiError
<1> QED BY <1>2, <1>3 DEF ManyNext

\* k of n entries, each within q and one overrun, on top of what a pool of w may spend.
LEMMA Worst ==
    ASSUME NEW m \in Nat, NEW o \in Nat, NEW n \in Nat, NEW q \in Nat, NEW k \in 0..n,
           NEW w \in Nat, NEW t \in Nat, n * q <= m, t <= m + w * o
    PROVE  t + k * (q + o) <= 2 * m + (n + w) * o
<1>1. n - k \in Nat /\ k \in Nat
  OBVIOUS
<1>2. n * q = k * q + (n - k) * q /\ n * o = k * o + (n - k) * o
  BY <1>1
<1>3. (n - k) * q \in Nat /\ (n - k) * o \in Nat /\ k * q \in Nat /\ k * o \in Nat
      /\ w * o \in Nat /\ n * o \in Nat /\ n * q \in Nat
  <2>1. \A a, b \in Nat : a * b \in Nat
    OBVIOUS
  <2> QED BY <1>1, <2>1
<1>4. k * q <= m /\ k * o <= n * o
  BY <1>2, <1>3
<1>5. k * (q + o) = k * q + k * o /\ (n + w) * o = n * o + w * o
  BY <1>1
<1> QED BY <1>3, <1>4, <1>5

\* What the steps of batch compare, and the room the check left at submission.
LEMMA BatchParts ==
    ASSUME BatchInv
    PROVE  /\ N \in Nat \ {0} /\ MaxUsd \in Nat /\ Overrun \in Nat
           /\ total \in Nat /\ workers \in Nat \ {0} /\ quote \in Nat
           /\ N * quote <= MaxUsd
           /\ open \in Nat /\ bill \in 0..N /\ open + bill <= N
           /\ seen \in Nat /\ booked = seen /\ seen <= bill
           /\ step \notin {"direct", "fallback"} => main = "uncalled" /\ Uncalled
           /\ step \in {"direct", "fallback"} => main # "uncalled" /\ PoolInv
<1>1. /\ N \in Nat \ {0} /\ MaxUsd \in Nat /\ Overrun \in Nat
      /\ Items = 1..N /\ Estimates \subseteq Nat
  BY Sizes
<1>2. /\ total \in Nat /\ workers \in Nat \ {0}
  BY <1>1 DEF BatchInv, BatchTypeOK, ManyTypeOK, TypeOK
<1>3. /\ quote \in Nat /\ open \in Nat /\ bill \in 0..N /\ seen \in Nat
      /\ open + bill <= N
  BY <1>1 DEF BatchInv, BatchTypeOK
<1> QED BY <1>1, <1>2, <1>3 DEF BatchInv, Booked

\* A step of batch that leaves its pool uncalled.
LEMMA UncalledStep ==
    ASSUME BatchInv, step \notin {"direct", "fallback"},
           UNCHANGED <<reserved, pc, est, poolVars>>,
           total' \in Nat,
           step' \in BatchSteps \ {"direct", "fallback"},
           step' \in {"checking", "polling"} => total' <= MaxUsd + Overrun,
           quote' \in Estimates \cup {0}, waited' \in 0..MaxPolls,
           {open', bill', seen', booked'} \subseteq 0..N, open' + bill' <= N,
           Booked', BilledBounded'
    PROVE  BatchInv'
<1>1. main = "uncalled" /\ Uncalled /\ ManyTypeOK
  BY BatchParts DEF BatchInv, BatchTypeOK
<1>2. /\ main' = "uncalled" /\ job' = job /\ workers' = workers /\ phase' = phase
      /\ submitted' = submitted /\ awaiting' = awaiting /\ result' = result
      /\ reserved' = reserved /\ pc' = pc /\ est' = est
  BY <1>1 DEF poolVars
<1>3. ManyTypeOK'
  BY <1>1, <1>2 DEF ManyTypeOK, TypeOK
<1>4. BatchTypeOK'
  BY <1>3 DEF BatchTypeOK
<1>5. Uncalled'
  BY <1>1, <1>2 DEF Uncalled
<1> QED BY <1>2, <1>4, <1>5 DEF BatchInv

\* What the run may be billed while the batch is not recorded.
LEMMA NotYetBooked ==
    ASSUME NEW t \in Nat, NEW w \in Nat \ {0}, NEW q \in Nat, NEW k \in 0..N,
           N * q <= MaxUsd, t <= MaxUsd + Overrun
    PROVE  t + (k - 0) * (q + Overrun) <= 2 * MaxUsd + (N + w) * Overrun
<1>1. N \in Nat /\ MaxUsd \in Nat /\ Overrun \in Nat /\ k \in Nat
  BY Sizes
<1>2. 1 * Overrun <= w * Overrun /\ w * Overrun \in Nat /\ 1 * Overrun = Overrun
  BY <1>1, TimesOverrun
<1>3. t <= MaxUsd + w * Overrun
  BY <1>1, <1>2
<1>4. t + k * (q + Overrun) <= 2 * MaxUsd + (N + w) * Overrun
  BY <1>1, <1>3, Worst
<1> QED BY <1>1, <1>4
-----------------------------------------------------------------------------
\* Nothing is read of the results while the batch is submitted or worked on.
LEMMA Unread ==
    ASSUME BatchInv, step \in {"checking", "polling"}
    PROVE  seen = 0 /\ booked = 0 /\ total <= MaxUsd + Overrun
BY BatchParts DEF BatchInv, Booked, Uncalled

\* The steps of batch, of the API and of another thread, until the results are read.
LEMMA UnreadKeeps ==
    ASSUME BatchInv, step \in {"checking", "polling"},
           UNCHANGED <<reserved, pc, est, poolVars, reading>>,
           total' \in Nat, total' <= MaxUsd + Overrun,
           step' \in {"polling", "collecting", "raised"},
           quote' \in Estimates \cup {0}, N * quote' <= MaxUsd, waited' \in 0..MaxPolls,
           open' \in 0..N, bill' \in 0..N, open' + bill' <= N,
           step' # "polling" => open' = 0
    PROVE  BatchInv'
<1>1. seen' = 0 /\ booked' = 0 /\ workers' = workers
  BY Unread DEF reading, poolVars
<1>2. /\ N \in Nat \ {0} /\ MaxUsd \in Nat /\ Overrun \in Nat
      /\ workers' \in Nat \ {0} /\ Estimates \subseteq Nat
  BY <1>1, BatchParts, Sizes
<1>3. quote' \in Nat
  BY <1>2
<1>4. Booked'
  <2>1. 0 <= bill' /\ step' \notin {"returned", "checking", "direct", "fallback"}
    BY <1>2
  <2> QED BY <1>1, <2>1 DEF Booked
<1>5. BilledBounded'
  BY <1>1, <1>2, <1>3, NotYetBooked DEF BilledBounded
<1>6. {open', bill', seen', booked'} \subseteq 0..N
  BY <1>1, <1>2
<1>7. step' \in BatchSteps \ {"direct", "fallback"}
  BY DEF BatchSteps
<1>8. step \notin {"direct", "fallback"}
  OBVIOUS
<1> QED BY <1>4, <1>5, <1>6, <1>7, <1>8, UncalledStep

\* Entries that are open and entries that are billed, of n.
LEMMA Entries ==
    ASSUME NEW n \in Nat, NEW o \in Nat, NEW b \in Nat, o + b <= n
    PROVE  /\ o \in 0..n /\ b \in 0..n
           /\ o > 0 => o - 1 \in 0..n /\ (o - 1) + b <= n /\ (o - 1) + (b + 1) <= n
                      /\ b + 1 \in 0..n
           /\ \A c \in b..(b + o) : c \in 0..n /\ 0 + c <= n
OBVIOUS

LEMMA NoneOpen ==
    ASSUME NEW n \in Nat, NEW b \in 0..n
    PROVE  0 \in 0..n /\ 0 + b <= n
OBVIOUS

\* The estimates of the batch fit the cap when it is submitted.
LEMMA SubmitBatchKeeps ==
    ASSUME BatchInv, SubmitBatch
    PROVE  BatchInv'
<1>1. /\ step = "checking" /\ waited' = waited /\ total' = total
      /\ UNCHANGED <<reserved, pc, est, poolVars, reading>>
  BY DEF SubmitBatch, manyVars, poolVars
<1>2. /\ N \in Nat \ {0} /\ MaxUsd \in Nat /\ Overrun \in Nat
      /\ total \in Nat /\ total <= MaxUsd + Overrun
      /\ N * quote <= MaxUsd /\ open = 0 /\ bill = 0 /\ reserved = 0
  BY <1>1, Unread, BatchParts DEF Uncalled, BatchInv, Booked
<1>3. quote \in Estimates \cup {0} /\ waited \in 0..MaxPolls
  BY DEF BatchInv, BatchTypeOK
<1>4. PICK e \in Estimates :
        \/ Fits(N * e) /\ Goto("polling") /\ quote' = e /\ open' = N /\ UNCHANGED bill
        \/ Fits(N * e) /\ Goto("raised") /\ quote' = e /\ bill' \in 0..N /\ UNCHANGED open
        \/ ~ Fits(N * e) /\ Goto("raised") /\ UNCHANGED <<quote, remote>>
  BY DEF SubmitBatch
<1>5. e \in Nat /\ N * e \in Nat
  <2>1. e \in Nat
    BY Sizes
  <2>2. \A a, b \in Nat : a * b \in Nat
    OBVIOUS
  <2> QED BY <1>2, <2>1, <2>2
<1>6. Fits(N * e) => N * e <= MaxUsd
  BY <1>2, <1>5 DEF Fits
<1>7. /\ step' \in {"polling", "raised"}
      /\ quote' \in Estimates \cup {0} /\ N * quote' <= MaxUsd
      /\ open' \in 0..N /\ bill' \in 0..N /\ open' + bill' <= N
      /\ step' # "polling" => open' = 0
  <2>1. CASE Fits(N * e) /\ Goto("polling") /\ quote' = e /\ open' = N /\ UNCHANGED bill
    BY <1>2, <1>6, <2>1 DEF Goto
  <2>2. CASE Fits(N * e) /\ Goto("raised") /\ quote' = e /\ bill' \in 0..N /\ UNCHANGED open
    <3>1. open' = 0 /\ bill' \in 0..N /\ step' = "raised" /\ quote' = e
      BY <1>2, <2>2 DEF Goto
    <3>2. open' \in 0..N /\ open' + bill' <= N
      BY <1>2, <3>1, NoneOpen
    <3>3. N * quote' <= MaxUsd
      BY <1>6, <2>2, <3>1
    <3> QED BY <3>1, <3>2, <3>3
  <2>3. CASE ~ Fits(N * e) /\ Goto("raised") /\ UNCHANGED <<quote, remote>>
    BY <1>2, <1>3, <2>3 DEF Goto, remote
  <2> QED BY <1>4, <2>1, <2>2, <2>3
<1> QED BY <1>1, <1>2, <1>3, <1>7, UnreadKeeps

\* The API ends an entry, or batch polls once more.
LEMMA PollingKeeps ==
    ASSUME BatchInv, EndEntry \/ Poll
    PROVE  BatchInv'
<1>1. /\ step = "polling" /\ total' = total /\ quote' = quote
      /\ UNCHANGED <<reserved, pc, est, poolVars, reading>>
  BY DEF EndEntry, Poll, manyVars, poolVars
<1>2. /\ N \in Nat \ {0} /\ MaxUsd \in Nat /\ Overrun \in Nat
      /\ total \in Nat /\ total <= MaxUsd + Overrun
      /\ N * quote <= MaxUsd /\ open \in Nat /\ bill \in 0..N /\ open + bill <= N
  BY <1>1, Unread, BatchParts
<1>3. quote \in Estimates \cup {0} /\ waited \in 0..MaxPolls /\ MaxPolls \in Nat
  BY BatchCallsAssumption DEF BatchInv, BatchTypeOK
<1>4. /\ step' \in {"polling", "collecting"} /\ waited' \in 0..MaxPolls
      /\ open' \in 0..N /\ bill' \in 0..N /\ open' + bill' <= N
      /\ step' # "polling" => open' = 0
  <2>1. CASE EndEntry
    <3>1. /\ open > 0 /\ open' = open - 1 /\ bill' \in {bill, bill + 1}
          /\ step' = "polling" /\ waited' = waited
      BY <1>1, <2>1 DEF EndEntry
    <3>2. bill \in Nat
      BY <1>2
    <3>3. open' \in 0..N /\ bill' \in 0..N /\ open' + bill' <= N
      <4>1. CASE bill' = bill
        BY <1>2, <3>1, <3>2, <4>1, Entries
      <4>2. CASE bill' = bill + 1
        BY <1>2, <3>1, <3>2, <4>2, Entries
      <4> QED BY <3>1, <4>1, <4>2
    <3> QED BY <1>3, <3>1, <3>3
  <2>2. CASE Poll
    BY <1>1, <1>2, <1>3, <2>2 DEF Poll, Goto, remote
  <2> QED BY <2>1, <2>2
<1> QED BY <1>1, <1>2, <1>3, <1>4, UnreadKeeps

\* A call of another thread, while the batch holds nothing of the cap.
LEMMA MeanwhileKeeps ==
    ASSUME BatchInv, Meanwhile
    PROVE  BatchInv'
<1>1. /\ step = "polling" /\ step' = step /\ quote' = quote /\ waited' = waited
      /\ open' = open /\ bill' = bill
      /\ UNCHANGED <<reserved, pc, est, poolVars, reading>>
  BY DEF Meanwhile, batchVars, remote, reading
<1>2. /\ N \in Nat \ {0} /\ MaxUsd \in Nat /\ Overrun \in Nat /\ total \in Nat
      /\ N * quote <= MaxUsd /\ open \in Nat /\ bill \in 0..N /\ open + bill <= N
      /\ reserved = 0
  BY <1>1, BatchParts DEF Uncalled
<1>3. quote \in Estimates \cup {0} /\ waited \in 0..MaxPolls
  BY DEF BatchInv, BatchTypeOK
<1>4. PICK e \in Estimates : Fits(e) /\ \E u \in 1..(e + Overrun) : total' = total + u
  BY DEF Meanwhile
<1>5. e \in Nat
  BY Sizes
<1>6. PICK u \in 1..(e + Overrun) : total' = total + u
  BY <1>4
<1>7. total' \in Nat /\ total' <= MaxUsd + Overrun
  BY <1>2, <1>4, <1>5, <1>6 DEF Fits
<1>8. open \in 0..N
  BY <1>2
<1> QED BY <1>1, <1>2, <1>3, <1>7, <1>8, UnreadKeeps

\* An exception leaves batch, and entries nobody reads are billed.
LEMMA AbandonKeeps ==
    ASSUME BatchInv, step \in {"polling", "collecting"}, Abandon("raised"),
           UNCHANGED <<manyVars, quote, waited, reading>>
    PROVE  BatchInv'
<1>1. /\ total' = total /\ quote' = quote /\ waited' = waited /\ step' = "raised"
      /\ seen' = seen /\ booked' = booked /\ workers' = workers
      /\ open' = 0 /\ bill' \in bill..(bill + open)
      /\ UNCHANGED <<reserved, pc, est, poolVars, reading>>
  BY DEF Abandon, Goto, manyVars, poolVars, reading
<1>2. /\ N \in Nat \ {0} /\ MaxUsd \in Nat /\ Overrun \in Nat /\ total \in Nat
      /\ N * quote <= MaxUsd /\ open \in Nat /\ bill \in 0..N /\ open + bill <= N
      /\ seen \in Nat /\ booked = seen /\ seen <= bill
  BY BatchParts
<1>3. quote \in Estimates \cup {0} /\ waited \in 0..MaxPolls
  BY DEF BatchInv, BatchTypeOK
<1>4. bill' \in 0..N /\ open' \in 0..N /\ open' + bill' <= N
  <2>1. bill \in Nat
    BY <1>2
  <2>2. bill' \in 0..N /\ 0 + bill' <= N /\ 0 \in 0..N
    BY <1>1, <1>2, <2>1, Entries, NoneOpen
  <2> QED BY <1>1, <2>2
<1>5. CASE step = "polling"
  BY <1>1, <1>2, <1>3, <1>4, <1>5, Unread, UnreadKeeps
<1>6. CASE step = "collecting"
  <2>1. bill' = bill
    BY <1>1, <1>2, <1>6 DEF BatchInv, Booked
  <2>2. Booked'
    BY <1>1, <1>2, <2>1 DEF Booked
  <2>3. BilledBounded'
    BY <1>1, <2>1 DEF BatchInv, BilledBounded
  <2>4. {open', bill', seen', booked'} \subseteq 0..N
    BY <1>1, <1>2, <1>4
  <2> QED BY <1>1, <1>2, <1>3, <1>4, <1>6, <2>2, <2>3, <2>4, UncalledStep DEF BatchSteps
<1> QED BY <1>5, <1>6

\* A billed entry is recorded: what it was counted for at most becomes what it cost.
LEMMA BookEntryKeeps ==
    ASSUME BatchInv, BookEntry
    PROVE  BatchInv'
<1>1. /\ step = "collecting" /\ seen < bill /\ seen' = seen + 1 /\ booked' = booked + 1
      /\ step' \in {"collecting", "raised"}
      /\ quote' = quote /\ waited' = waited /\ open' = open /\ bill' = bill
      /\ workers' = workers
      /\ UNCHANGED <<reserved, pc, est, poolVars>>
  BY DEF BookEntry, Goto, remote, poolVars
<1>2. /\ N \in Nat \ {0} /\ MaxUsd \in Nat /\ Overrun \in Nat /\ total \in Nat
      /\ workers \in Nat /\ quote \in Nat
      /\ N * quote <= MaxUsd /\ open \in Nat /\ bill \in 0..N /\ open + bill <= N
      /\ seen \in Nat /\ booked = seen /\ seen <= bill
  BY BatchParts
<1>3. quote \in Estimates \cup {0} /\ waited \in 0..MaxPolls
  BY DEF BatchInv, BatchTypeOK
<1>4. PICK u \in 1..(quote + Overrun) : total' = total + u
  BY DEF BookEntry
<1>5. total' \in Nat /\ u <= quote + Overrun /\ u \in Nat
  BY <1>2, <1>4
<1>6. Booked'
  BY <1>1, <1>2 DEF BatchInv, Booked
<1>7. BilledBounded'
  <2>1. bill - booked \in Nat
    BY <1>2
  <2>2. (bill' - booked') * (quote + Overrun)
          = (bill - booked) * (quote + Overrun) - (quote + Overrun)
    <3>1. bill' - booked' = (bill - booked) - 1
      BY <1>1, <1>2
    <3>2. \A a, b \in Nat : (a - 1) * b = a * b - b
      OBVIOUS
    <3>3. quote + Overrun \in Nat
      BY <1>2
    <3> QED BY <2>1, <3>1, <3>2, <3>3
  <2>3. (bill - booked) * (quote + Overrun) \in Nat /\ (N + workers) * Overrun \in Nat
    <3>1. \A a, b \in Nat : a * b \in Nat
      OBVIOUS
    <3>2. quote + Overrun \in Nat /\ N + workers \in Nat
      BY <1>2
    <3> QED BY <1>2, <2>1, <3>1, <3>2
  <2>4. total + (bill - booked) * (quote + Overrun) <= 2 * MaxUsd + (N + workers) * Overrun
    BY DEF BatchInv, BilledBounded
  <2>5. total' + (bill' - booked') * (quote + Overrun) <= 2 * MaxUsd + (N + workers) * Overrun
    BY <1>2, <1>4, <1>5, <2>2, <2>3, <2>4
  <2> QED BY <1>1, <2>5 DEF BilledBounded
<1>8. {open', bill', seen', booked'} \subseteq 0..N /\ open' + bill' <= N
  BY <1>1, <1>2
<1> QED BY <1>1, <1>3, <1>5, <1>6, <1>7, <1>8, UncalledStep DEF BatchSteps

\* The results are read to the end.
LEMMA ReturnResultsKeeps ==
    ASSUME BatchInv, ReturnResults
    PROVE  BatchInv'
<1>1. /\ step = "collecting" /\ seen = bill /\ step' = "returned"
      /\ total' = total /\ quote' = quote /\ waited' = waited /\ open' = open /\ bill' = bill
      /\ seen' = seen /\ booked' = booked /\ workers' = workers
      /\ UNCHANGED <<reserved, pc, est, poolVars>>
  BY DEF ReturnResults, Goto, remote, reading, manyVars, poolVars
<1>2. /\ N \in Nat \ {0} /\ total \in Nat
      /\ N * quote <= MaxUsd /\ open \in Nat /\ bill \in 0..N /\ open + bill <= N
      /\ seen \in Nat /\ booked = seen /\ seen <= bill
  BY BatchParts
<1>3. quote \in Estimates \cup {0} /\ waited \in 0..MaxPolls
  BY DEF BatchInv, BatchTypeOK
<1>4. Booked'
  BY <1>1, <1>2 DEF BatchInv, Booked
<1>5. BilledBounded'
  BY <1>1 DEF BatchInv, BilledBounded
<1>6. {open', bill', seen', booked'} \subseteq 0..N /\ open' + bill' <= N
  BY <1>1, <1>2
<1> QED BY <1>1, <1>2, <1>3, <1>4, <1>5, <1>6, UncalledStep DEF BatchSteps

\* The time is up: the fallback starts the pool on a run with whatever was spent meanwhile.
LEMMA TimeOutKeeps ==
    ASSUME BatchInv, TimeOut, Starting' => PoolInv'
    PROVE  BatchInv'
<1>1. /\ step = "polling" /\ total' = total /\ quote' = quote /\ waited' = waited
      /\ workers' = workers /\ phase' = phase /\ job' = job /\ submitted' = submitted
      /\ awaiting' = awaiting /\ result' = result /\ pc' = pc /\ est' = est
      /\ reserved' = reserved /\ UNCHANGED reading
  BY DEF TimeOut, vars
<1>2. CASE Abandon("raised") /\ UNCHANGED main
  BY <1>1, <1>2, AbandonKeeps DEF manyVars, poolVars
<1>3. CASE Abandon("fallback") /\ main' = "submitting"
  <2>1. /\ N \in Nat \ {0} /\ MaxUsd \in Nat /\ Overrun \in Nat
        /\ total \in Nat /\ total <= MaxUsd + Overrun /\ Uncalled
        /\ workers \in Nat \ {0} /\ quote \in Nat
        /\ N * quote <= MaxUsd /\ open \in Nat /\ bill \in 0..N /\ open + bill <= N
        /\ seen = 0 /\ booked = 0 /\ waited = MaxPolls
    BY <1>1, Unread, BatchParts DEF TimeOut
  <2>2. step' = "fallback" /\ open' = 0 /\ bill' \in bill..(bill + open)
        /\ seen' = 0 /\ booked' = 0
    BY <1>1, <1>3, <2>1 DEF Abandon, Goto, reading
  <2>3. BatchTypeOK
    BY DEF BatchInv
  <2>4. bill' \in 0..N /\ open' \in 0..N /\ open' + bill' <= N
    <3>1. bill \in Nat
      BY <2>1
    <3>2. bill' \in 0..N /\ 0 + bill' <= N /\ 0 \in 0..N
      BY <2>1, <2>2, <3>1, Entries, NoneOpen
    <3> QED BY <2>2, <3>2
  <2>5. Starting'
    BY <1>1, <1>3, <2>1, <2>3 DEF Starting, Uncalled, BatchTypeOK, ManyTypeOK
  <2>6. PoolInv'
    BY <2>5
  <2>7. BatchTypeOK'
    <3>1. {open', bill', seen', booked'} \subseteq 0..N
      BY <2>1, <2>2, <2>4
    <3> QED BY <1>1, <2>2, <2>3, <2>4, <2>6, <3>1 DEF PoolInv, BatchTypeOK, BatchSteps
  <2>8. Booked'
    <3>1. 0 <= bill'
      BY <2>1, <2>4
    <3> QED BY <1>1, <2>1, <2>2, <3>1 DEF Booked
  <2>9. BilledBounded'
    BY <1>1, <2>1, <2>2, <2>4, NotYetBooked DEF BilledBounded
  <2> QED BY <1>3, <2>2, <2>6, <2>7, <2>8, <2>9 DEF BatchInv
<1> QED BY <1>2, <1>3 DEF TimeOut

\* The total of a pool that was called.
LEMMA PoolBound ==
    ASSUME PoolInv
    PROVE  total <= MaxUsd + workers * Overrun
<1>1. \A t, a, b, m, w \in Nat : t + a + b <= m + w => t <= m + w
  OBVIOUS
<1>2. total + Total(Callers, InFlight) + Cardinality(Support(Callers, InFlight)) * Overrun
        <= MaxUsd + workers * Overrun
  BY DEF PoolInv, PoolExposed
<1> QED BY <1>1, <1>2, PoolParts, Sizes

\* A step of the pool leaves the batch that came before it as it is.
LEMMA PoolStepKeeps ==
    ASSUME BatchInv, ManyNext, UNCHANGED batchVars, main # "uncalled", PoolInv',
           total' <= MaxUsd + workers' * Overrun
    PROVE  BatchInv'
<1>1. /\ step' = step /\ quote' = quote /\ waited' = waited /\ open' = open /\ bill' = bill
      /\ seen' = seen /\ booked' = booked
  BY DEF batchVars, remote, reading
<1>2. step \in {"direct", "fallback"} /\ BatchTypeOK
  BY DEF BatchInv
<1>3. /\ N \in Nat \ {0} /\ MaxUsd \in Nat /\ Overrun \in Nat /\ quote \in Nat
      /\ N * quote <= MaxUsd /\ bill \in 0..N /\ booked = 0
  BY <1>2, BatchParts DEF BatchInv, Booked
<1>4. ManyTypeOK' /\ main' # "uncalled"
  BY DEF PoolInv
<1>5. BatchTypeOK'
  BY <1>1, <1>2, <1>4 DEF BatchTypeOK
<1>6. total' \in Nat /\ workers' \in Nat
  BY <1>4, Sizes DEF ManyTypeOK, TypeOK
<1>7. total' + bill * (quote + Overrun) <= 2 * MaxUsd + (N + workers') * Overrun
  BY <1>3, <1>6, Worst
<1>8. BilledBounded'
  <2>1. bill - 0 = bill
    BY <1>3
  <2> QED BY <1>1, <1>3, <1>7, <2>1 DEF BilledBounded
<1>9. Booked'
  BY <1>1 DEF BatchInv, Booked
<1> QED BY <1>1, <1>2, <1>4, <1>5, <1>8, <1>9 DEF BatchInv

\* Every step keeps the inductive invariant.
LEMMA BatchKeeps == BatchInv /\ [BatchNext]_allVars => BatchInv'
<1>1. Starting' => PoolInv'
  BY PoolStarts, PTL
<1>2. PoolInv' => (total <= MaxUsd + workers * Overrun)'
  <2>1. PoolInv => total <= MaxUsd + workers * Overrun
    BY PoolBound
  <2> QED BY <2>1, PTL
<1> SUFFICES ASSUME BatchInv, [BatchNext]_allVars
             PROVE  BatchInv'
  OBVIOUS
<1>3. CASE Batch
  BY <1>1, <1>3, SubmitBatchKeeps, PollingKeeps, TimeOutKeeps, BookEntryKeeps,
     ReturnResultsKeeps DEF Batch
<1>4. CASE EndEntry
  BY <1>4, PollingKeeps
<1>5. CASE RequestFails
  BY <1>5, AbandonKeeps DEF RequestFails
<1>6. CASE Meanwhile
  BY <1>6, MeanwhileKeeps
<1>7. CASE ManyNext /\ UNCHANGED batchVars
  <2>1. main # "uncalled"
    BY <1>7, UncalledRests DEF BatchInv
  <2>2. PoolInv'
    BY <1>7, <2>1, PoolKeeps DEF BatchInv
  <2> QED BY <1>2, <1>7, <2>1, <2>2, PoolStepKeeps
<1>8. CASE UNCHANGED allVars
  <2>1. UNCHANGED <<total, reserved, pc, est>>
    BY <1>8 DEF allVars, manyVars
  <2>2. UNCHANGED <<job, workers, submitted, awaiting, main, phase, result>>
    BY <1>8 DEF allVars, manyVars, poolVars
  <2>3. UNCHANGED <<step, quote, waited, open, bill, seen, booked>>
    BY <1>8 DEF allVars, batchVars, remote, reading
  <2> QED BY <2>1, <2>2, <2>3
          DEF BatchInv, BatchTypeOK, ManyTypeOK, TypeOK, Uncalled, Booked, BilledBounded,
              PoolInv, IInv, EstMatchesPc, ReservationsExact, Exposed, InFlight,
              PoolExposed, Staffed, Working, Collected, Emptied, OverspendShows, JobStarts
<1>9. CASE BatchOver
  BY <1>8, <1>9 DEF BatchOver, allVars
<1> QED BY <1>3, <1>4, <1>5, <1>6, <1>7, <1>8, <1>9 DEF BatchNext

\* The pool called directly, and the batch.
LEMMA BatchStarts == BatchInit \/ BatchCalled => BatchInv
<1> SUFFICES ASSUME BatchInit \/ BatchCalled
             PROVE  BatchInv
  OBVIOUS
<1>1. /\ N \in Nat \ {0} /\ Items = 1..N /\ Items = Callers /\ N = Cardinality(Callers)
      /\ MaxUsd \in Nat /\ Overrun \in Nat /\ MaxPolls \in Nat
  BY Sizes, BatchCallsAssumption DEF N
<1>2. Init
  BY DEF BatchInit, BatchCalled, ManyInit
<1>3. TypeOK /\ total = 0 /\ reserved = 0
  BY <1>2 DEF Init, TypeOK, Steps
<1>4. workers \in Items
  <2>1. PICK n \in Concurrencies : workers = IF n < N THEN n ELSE N
    BY DEF BatchInit, BatchCalled, ManyInit, N
  <2>2. n \in Nat \ {0}
    BY RunManyAssumption
  <2> QED BY <1>1, <2>1, <2>2
<1>5. /\ job \in {"run_many", "guard_batch"} /\ submitted = 0 /\ awaiting = 1
      /\ main \in {"submitting", "uncalled"}
      /\ phase = [i \in Items |-> "queued"] /\ result = [i \in Items |-> "none"]
      /\ quote = 0 /\ waited = 0 /\ open = 0 /\ bill = 0 /\ seen = 0 /\ booked = 0
      /\ step \in {"direct", "checking"}
      /\ main = "uncalled" <=> step # "direct"
      /\ main = "uncalled" => job = "run_many"
  BY DEF BatchInit, BatchCalled, ManyInit
<1>6. ManyTypeOK
  BY <1>1, <1>3, <1>4, <1>5 DEF ManyTypeOK, Phases, MainSteps, N
<1>7. BatchTypeOK
  BY <1>1, <1>5, <1>6 DEF BatchTypeOK, BatchSteps
<1>8. ASSUME main = "uncalled"
      PROVE  Uncalled
  BY <1>1, <1>2, <1>3, <1>5, <1>8 DEF Uncalled, Init
<1>9. ASSUME main # "uncalled"
      PROVE  PoolInv
  <2>1. main = "submitting"
    BY <1>5, <1>9
  <2>2. Starting
    BY <1>1, <1>2, <1>3, <1>4, <1>5, <2>1 DEF Starting, Init
  <2> QED BY <2>2, PoolStarts
<1>10. Booked
  BY <1>1, <1>5 DEF Booked
<1>11. BilledBounded
  <2>1. workers \in Nat /\ 0 <= MaxUsd + workers * Overrun
    <3>1. workers \in Nat
      BY <1>1, <1>4
    <3> QED BY <1>1, <3>1, TimesOverrun
  <2>2. 0 + 0 * (0 + Overrun) <= 2 * MaxUsd + (N + workers) * Overrun
    BY <1>1, <2>1, Worst
  <2> QED BY <1>3, <1>5, <2>2 DEF BilledBounded
<1> QED BY <1>5, <1>7, <1>8, <1>9, <1>10, <1>11 DEF BatchInv

LEMMA BatchInductive == BatchSpec => []BatchInv
BY BatchStarts, BatchKeeps, PTL DEF BatchSpec
-----------------------------------------------------------------------------
\* Every variable of the pool, of batch and of the API's side keeps its type: the pool
\* never submits an item it was not given or awaits one past the last (llm.py:660-672),
\* and no entry is read or recorded that was not in the batch.
THEOREM BatchTypeCorrect == BatchSpec => []BatchTypeOK
<1>1. BatchInv => BatchTypeOK
  BY DEF BatchInv
<1> QED BY <1>1, BatchInductive, PTL

\* The cap of a pool, for any number of items and threads, called directly or after a
\* batch that timed out: one overrun per thread and no more.
THEOREM PoolCapHolds == BatchSpec => []PoolSpendBounded
<1>1. BatchInv => PoolSpendBounded
  BY PoolBound DEF BatchInv, PoolSpendBounded
<1> QED BY <1>1, BatchInductive, PTL

\* When _map is over, no thread is inside fn, nothing is queued and nothing reserved.
THEOREM PoolIsEmptied == BatchSpec => []NothingLeftBehind
<1>1. ASSUME BatchInv, main \in {"returned", "raised"}
      PROVE  /\ \A i \in Items : phase[i] \in {"done", "failed", "cancelled"}
             /\ reserved = 0
  <2>1. PoolInv
    BY <1>1 DEF BatchInv
  <2>2. /\ phase \in [Items -> Phases] /\ est \in [Callers -> Nat] /\ Items = Callers
        /\ EstMatchesPc /\ ReservationsExact
    BY <2>1, PoolParts, Sizes
  <2>3. \A i \in Items : phase[i] \notin {"queued", "guarding", "calling"}
    BY <1>1, <2>1 DEF PoolInv, Emptied, Working, Doing
  <2>4. \A i \in Items : phase[i] \in {"done", "failed", "cancelled"}
    BY <2>2, <2>3 DEF Phases
  <2>5. \A i \in Items : pc[i] = "idle"
    BY <2>1, <2>3 DEF PoolInv, Staffed
  <2>6. est = [c \in Callers |-> 0]
    BY <2>2, <2>5 DEF EstMatchesPc
  <2>7. Total(Callers, est) = 0
    BY <2>6, TotalZero
  <2> QED BY <2>2, <2>4, <2>7 DEF ReservationsExact
<1>2. BatchInv => NothingLeftBehind
  BY <1>1 DEF NothingLeftBehind
<1> QED BY <1>2, BatchInductive, PTL

\* _map returns only with every result and within the cap, and raises the exception of
\* the earliest item that has one.
THEOREM PoolReturnsAll == BatchSpec => []ReturnMeansAll
<1>1. ASSUME BatchInv, main = "returned"
      PROVE  total <= MaxUsd /\ \A i \in Items : phase[i] = "done"
  <2>1. PoolInv
    BY <1>1 DEF BatchInv
  <2>2. /\ Items = 1..N /\ N \in Nat \ {0} /\ awaiting \in 1..(N + 1)
        /\ total \in Nat /\ MaxUsd \in Nat
    BY <2>1, PoolParts, Sizes
  <2>3. awaiting \notin Items
    BY <1>1, <2>1 DEF PoolInv, Collected
  <2>4. \A i \in Items : i < awaiting
    BY <2>2, <2>3
  <2>5. \A i \in Items : phase[i] = "done"
    BY <2>1, <2>4 DEF PoolInv, Collected
  <2>6. \A i \in Items : pc[i] = "idle"
    BY <2>1, <2>5 DEF PoolInv, Staffed
  <2>7. 1 \in Items
    BY <2>2
  <2>8. total <= MaxUsd
    BY <2>1, <2>2, <2>5, <2>6, <2>7 DEF PoolInv, OverspendShows
  <2> QED BY <2>5, <2>8
<1>2. ASSUME BatchInv, main = "raised"
      PROVE  phase[awaiting] = "failed" /\ \A i \in 1..(awaiting - 1) : phase[i] = "done"
  <2>1. PoolInv
    BY <1>2 DEF BatchInv
  <2>2. Items = 1..N /\ N \in Nat \ {0} /\ awaiting \in Items
    BY <1>2, <2>1, Sizes DEF PoolInv, Collected
  <2>3. \A i \in 1..(awaiting - 1) : i \in Items /\ i < awaiting
    BY <2>2
  <2> QED BY <1>2, <2>1, <2>2, <2>3 DEF PoolInv, Collected
<1>3. BatchInv => ReturnMeansAll
  BY <1>1, <1>2 DEF ReturnMeansAll
<1> QED BY <1>3, BatchInductive, PTL

\* Whichever way batch returns, what it was billed is recorded, or it timed out, ran the
\* items again and recorded none of what the batch cost.
THEOREM BilledIsBooked == BatchSpec => []ReturnedIsBooked
<1>1. BatchInv => ReturnedIsBooked
  BY DEF BatchInv, Booked, BatchReturned, ReturnedIsBooked
<1> QED BY <1>1, BatchInductive, PTL

\* What the run is billed, recorded or not, stays within one more cap, one overrun per
\* entry and one per thread, however the batch ends.
THEOREM BillHolds == BatchSpec => []BilledBounded
<1>1. BatchInv => BilledBounded
  BY DEF BatchInv
<1> QED BY <1>1, BatchInductive, PTL
=============================================================================
