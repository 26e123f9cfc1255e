----------------------------- MODULE EvalSuites -----------------------------
(***************************************************************************)
(* The evaluation harness (evals.py): run_suites runs suites one after the *)
(* other under one spend cap, run_suite their cases under the suite's own  *)
(* CostTracker, _run_case a case's task and its scorers, any of which may  *)
(* call the model, several calls at a time.  Each suite that ends adds a   *)
(* line to history.jsonl, and compare sets the latest line of a suite      *)
(* against the one before it.  One scorer stands for all of a suite's, and *)
(* whether a case passed is independent of the score's value.  Left out:   *)
(* batches, which are BatchCalls's; --no-write; the rounding to six places *)
(* of means, whose order it keeps; and a line that is torn when the        *)
(* command dies inside its write, which compare skips.                     *)
(***************************************************************************)
EXTENDS Integers, SequencesExt

CONSTANTS Suites,      \* suites that may be given
          LoopSuites,  \* those whose task runs an AgentLoop
          MaxSuites,   \* bound on the suites given to a run, with repetitions
          NCases,      \* cases of a suite
          MaxCalls,    \* calls that may be in flight on a suite's tracker at a time
          SuiteCap,    \* the suite's max_usd
          TotalCaps,   \* values total_max_usd may have
          NoCap,       \* the one of them that is None
          Estimates,   \* results LLM._estimate_usd may have
          Overrun,     \* how far a true cost may pass its estimate
          Grades,      \* a score is one of 0/Grades, 1/Grades, ... 1
          Threshold,   \* compare's threshold, in hundredths
          MaxRuns,     \* bound on the runs of the command
          MaxLines     \* bound on the lines of history.jsonl

ASSUME EvalSuitesAssumption ==
    /\ LoopSuites \subseteq Suites
    /\ {MaxSuites, NCases, Grades} \subseteq Nat \ {0}
    /\ {SuiteCap, MaxCalls, Overrun, Threshold, MaxRuns, MaxLines} \subseteq Nat
    /\ TotalCaps \subseteq Nat \cup {NoCap}
    /\ NoCap \notin Nat
    /\ Estimates \subseteq Nat \ {0}

VARIABLES
    history,    \* history.jsonl
    run, sha,   \* the latest run of the command, and the commit it ran at
    total,      \* total_max_usd of the run
    list,       \* the suites the run was given
    at,         \* how many of them it has begun
    spent,      \* run_suites: usd of the suites that are done, as they reported it
    pc,         \* where the run is
    cap, usd,   \* max_usd and total_usd of the tracker of each suite of the list
    reserved,   \* its reserved_usd
    calls,      \* the calls in flight on it
    results,    \* the cases so far of the suite being run
    exhausted   \* run_suite's flag

command == <<run, sha, total, list>>
trackers == <<cap, usd, reserved, calls>>
report == <<results, exhausted>>
vars == <<history, command, at, spent, pc, trackers, report>>

Positions == 1..MaxSuites
Results == [skipped : BOOLEAN, passed : BOOLEAN, value : 0..Grades]
Rows == [suite : Suites, run : 1..MaxRuns, sha : 0..MaxRuns, results : Seq(Results),
         exhausted : BOOLEAN]

TypeOK ==
    /\ history \in Seq(Rows)
    /\ run \in 0..MaxRuns /\ sha \in 0..MaxRuns
    /\ total \in TotalCaps \cup {NoCap}
    /\ list \in Seq(Suites) /\ Len(list) <= MaxSuites
    /\ at \in 0..Len(list)
    /\ spent \in Nat
    /\ pc \in {"idle", "suite", "case", "task", "scoring"}
    /\ pc \notin {"idle", "suite"} => at > 0
    /\ cap \in [Positions -> Nat] /\ usd \in [Positions -> Nat]
    /\ reserved \in [Positions -> Nat]
    /\ calls \in [Positions -> 0..MaxCalls]
    /\ results \in Seq(Results) /\ Len(results) <= NCases
    /\ exhausted \in BOOLEAN

Nothing == [p \in Positions |-> 0]

Init ==
    /\ history = <<>>
    /\ run = 0 /\ sha = 0 /\ total = NoCap /\ list = <<>>
    /\ pc = "idle" /\ at = 0 /\ spent = 0
    /\ cap = Nothing /\ usd = Nothing /\ reserved = Nothing /\ calls = Nothing
    /\ results = <<>> /\ exhausted = FALSE
-----------------------------------------------------------------------------
\* agents-evals run S..., at the commit of the run before or at a new one.
StartRun ==
    /\ pc = "idle"
    /\ run < MaxRuns
    /\ run' = run + 1
    /\ sha' \in {sha, run'}
    /\ total' \in TotalCaps
    /\ \E n \in Positions : list' \in [1..n -> Suites]
    /\ pc' = "suite"
    /\ UNCHANGED <<history, at, spent, trackers, report>>

CapUnspent ==  \* mutant: the total cap bounds each suite, not their sum
    IF total = NoCap \/ SuiteCap <= total THEN SuiteCap ELSE total

\* The smaller of the suite's own cap and what the earlier suites left.
NextCap ==
    IF total = NoCap \/ SuiteCap <= total - spent THEN SuiteCap
    ELSE IF total >= spent THEN total - spent ELSE 0

\* run_suite begins: a tracker of its own.
StartSuite ==
    /\ pc = "suite"
    /\ at < Len(list) /\ Len(history) < MaxLines
    /\ at' = at + 1
    /\ cap' = [cap EXCEPT ![at'] = NextCap]
    /\ pc' = "case"
    /\ UNCHANGED <<history, command, spent, usd, reserved, calls, report>>

Result(r) == results' = Append(results, r)

Skipped == [skipped |-> TRUE, passed |-> FALSE, value |-> 0]
Score(ok, v) == Result([skipped |-> FALSE, passed |-> ok, value |-> v])

\* The next case: skipped once the cap has been reached, else its task starts.
StartCase ==
    /\ pc = "case"
    /\ Len(results) < NCases
    /\ IF exhausted \/ usd[at] >= cap[at]
       THEN exhausted' = TRUE /\ Result(Skipped) /\ UNCHANGED pc
       ELSE pc' = "task" /\ UNCHANGED report
    /\ UNCHANGED <<history, command, at, spent, trackers>>

\* The suite at p may call the model: its task and its scorers while they run, and, after
\* that and even after its report, tool threads that its loop abandoned.
Calling(p) ==
    \/ p = at /\ pc \in {"task", "scoring"}
    \/ p \in 1..at /\ list[p] \in LoopSuites /\ pc # "idle" /\ (p = at => results # <<>>)

\* A call finds room for the e it may cost, reserves it and is sent.
Call(p, e) ==
    /\ Calling(p)
    /\ calls[p] < MaxCalls
    /\ usd[p] + reserved[p] + e <= cap[p]
    /\ reserved' = [reserved EXCEPT ![p] = @ + e]
    /\ calls' = [calls EXCEPT ![p] = @ + 1]
    /\ UNCHANGED <<history, command, at, spent, pc, cap, usd, report>>

\* A call comes back, and its cost u, none when it failed, replaces the e it reserved: all
\* of what is reserved for the last one in flight, and else any part that leaves something
\* for each of the others.  What CostTracker does in two steps is one here: see Escrow.
CallEnds(p, e, u) ==
    /\ pc # "idle"
    /\ calls[p] > 0
    /\ IF calls[p] = 1 THEN e = reserved[p] ELSE e <= reserved[p] - (calls[p] - 1)
    /\ usd' = [usd EXCEPT ![p] = @ + u]
    /\ reserved' = [reserved EXCEPT ![p] = @ - e]
    /\ calls' = [calls EXCEPT ![p] = @ - 1]
    /\ UNCHANGED <<history, command, at, spent, pc, cap, report>>

\* A task and its scorers wait for the calls they start (run_many does), but for those of
\* threads that a loop abandons.
Joined == list[at] \in LoopSuites \/ calls[at] = 0

SkipForgotten ==  \* mutant: run_suite does not note that a case was skipped
    /\ Result(Skipped)
    /\ pc' = "case"
    /\ UNCHANGED exhausted

\* BudgetExceeded out of a task or a scorer, for the suite's cap, for room that other calls
\* have reserved or for a scope of the task's own: the case is skipped, and so are the
\* rest.
Skip ==
    /\ Result(Skipped)
    /\ exhausted' = TRUE
    /\ pc' = "case"

\* An AgentLoop takes BudgetExceeded for a reason to stop and returns what it has: what its
\* task does then is TaskEnds.
TaskRefused ==
    /\ pc = "task"
    /\ Joined
    /\ Skip
    /\ UNCHANGED <<history, command, at, spent, trackers>>

\* The task returns, or fails, which is a score of 0 for every scorer.
TaskEnds ==
    /\ pc = "task"
    /\ Joined
    /\ \/ pc' = "scoring" /\ UNCHANGED results
       \/ pc' = "case" /\ Score(FALSE, 0)
    /\ UNCHANGED <<history, command, at, spent, trackers, exhausted>>

\* A scorer that calls the model (LLMJudge) is refused a call.
ScorerRefused ==
    /\ pc = "scoring"
    /\ Joined
    /\ Skip
    /\ UNCHANGED <<history, command, at, spent, trackers>>

\* The scorers are done; one that failed has scored 0.
ScoreCase ==
    /\ pc = "scoring"
    /\ Joined
    /\ pc' = "case"
    /\ \E ok \in BOOLEAN, v \in 0..Grades : Score(ok, v)
    /\ UNCHANGED <<history, command, at, spent, trackers, exhausted>>

\* write_report: a line of history, and the suite's usd is added to what is spent.
WriteReport ==
    /\ pc = "case"
    /\ Len(results) = NCases
    /\ history' = Append(history, [suite |-> list[at], run |-> run, sha |-> sha,
                                   results |-> results, exhausted |-> exhausted])
    /\ spent' = spent + usd[at]
    /\ results' = <<>> /\ exhausted' = FALSE
    /\ pc' = "suite"
    /\ UNCHANGED <<command, at, trackers>>

\* The process is gone, and its trackers with it.
Over ==
    /\ pc' = "idle" /\ at' = 0 /\ spent' = 0
    /\ cap' = Nothing /\ usd' = Nothing /\ reserved' = Nothing /\ calls' = Nothing
    /\ results' = <<>> /\ exhausted' = FALSE
    /\ UNCHANGED <<history, command>>

EndRun ==
    /\ pc = "suite"
    /\ at = Len(list)
    /\ Over

\* The command dies (the job's timeout, a write that fails): suites that are done
\* keep their lines.
Abort ==
    /\ pc # "idle"
    /\ Over

Next ==
    \/ StartRun \/ StartSuite \/ StartCase
    \/ \E p \in 1..at : \E e \in Estimates : Call(p, e)
    \/ \E p \in 1..at : \E e \in 1..reserved[p] : \E u \in 0..(e + Overrun) : CallEnds(p, e, u)
    \/ TaskRefused \/ TaskEnds \/ ScorerRefused \/ ScoreCase
    \/ WriteReport \/ EndRun \/ Abort

Spec == Init /\ [][Next]_vars
-----------------------------------------------------------------------------
\* compare: the lines of a suite, and the last two of them.
Lines(s) == {k \in 1..Len(history) : history[k].suite = s}
IsLast(k, s) == k \in Lines(s) /\ \A i \in Lines(s) : i <= k
AreLastTwo(j, k, s) ==
    /\ IsLast(k, s)
    /\ j \in Lines(s) /\ j < k
    /\ \A i \in Lines(s) : i <= j \/ i = k

\* Without --suite: the suites whose latest line has the SHA of the file's last line.
Names == {s \in Suites : \E k \in Lines(s) : /\ IsLast(k, s)
                                             /\ history[k].sha = Last(history).sha}

Scored(row) == {i \in 1..Len(row.results) : ~ row.results[i].skipped}
Passed(row) == {i \in 1..Len(row.results) : row.results[i].passed}

\* As many points as the values of the scores add up to, in Grades.
Points(row) == {x \in (1..Len(row.results)) \X (1..Grades) : x[2] <= row.results[x[1]].value}

\* The size of new per scored case of row is less than that of old per scored case of
\* previous, of at most n each, by more than the threshold.
Drops(row, new, previous, old, n) ==
    100 * (Cardinality(old) * Cardinality(Scored(row))
           - Cardinality(new) * Cardinality(Scored(previous)))
      > Threshold * n * Cardinality(Scored(row)) * Cardinality(Scored(previous))

PassRateDrops(row, previous) == Drops(row, Passed(row), previous, Passed(previous), 1)
MeanDrops(row, previous) == Drops(row, Points(row), previous, Points(previous), Grades)

EmptyIsZero(row, previous) ==  \* mutant: a line without a scored case has a pass rate of 0
    \/ Scored(row) = {} /\ Passed(previous) # {}
    \/ PassRateDrops(row, previous) \/ MeanDrops(row, previous)

\* compare_entries: a line without a scored case has no pass rate and no scores, so no
\* regression.
Regression(row, previous) ==
    /\ Scored(row) # {} /\ Scored(previous) # {}
    /\ PassRateDrops(row, previous) \/ MeanDrops(row, previous)

\* The caps, for any number of calls at a time: a suite passes its own by at most one
\* overrun for each of the calls that may be in flight, whatever its loop left running; and
\* what the suites of a run report passes the total cap by no more than that, not by as
\* much for each suite (evals.py:677-698).
CapsKept ==
    /\ \A p \in Positions : usd[p] <= cap[p] + MaxCalls * Overrun
    /\ total # NoCap =>
        spent + (IF pc \in {"idle", "suite"} THEN 0 ELSE usd[at]) <= total + MaxCalls * Overrun

CutOff(row) ==
    /\ Len(row.results) = NCases
    /\ row.exhausted <=> Scored(row) # 1..NCases
    /\ \A i \in Scored(row) : 1..i \subseteq Scored(row)

\* "that case and the rest are skipped and the report says budget_exhausted"
\* (README.md:587): every case has a result, no case is scored after one that was
\* skipped, and the flag tells whether any was.
CapCutsTheRest == \A k \in 1..Len(history) : CutOff(history[k])

\* compare raises no false alarm: a regression it reports has two lines of that suite
\* behind it that both scored cases, the earlier one of no later run; and, unless one of
\* them was cut short by the cap, there is a case that passed and does not pass any more
\* when it is the pass rate that dropped, and one whose score is lower when it is the mean
\* (evals.py:797-861).
AlarmsAreReal ==
    \A s \in Suites : \A j, k \in Lines(s) :
        LET row == history[k]
            previous == history[j]
        IN AreLastTwo(j, k, s) /\ Regression(row, previous) =>
            /\ Scored(row) # {} /\ Scored(previous) # {}
            /\ previous.run <= row.run
            /\ ~ row.exhausted /\ ~ previous.exhausted =>
                /\ PassRateDrops(row, previous) => ~ Passed(previous) \subseteq Passed(row)
                /\ MeanDrops(row, previous) => \E i \in 1..NCases :
                        row.results[i].value < previous.results[i].value

\* "an old regression in a suite that wasn't re-run isn't reported again"
\* (evals.py:844).
OldRegressionsSilent ==
    \A s \in Names : \A j, k \in Lines(s) :
        AreLastTwo(j, k, s) /\ Regression(history[k], history[j]) =>
            history[k].run = Last(history).run

\* "caps the whole run across suites" (README.md:590).
RunCapped == total # NoCap => FoldFunction(+, 0, usd) <= total + MaxCalls * Overrun
=============================================================================
