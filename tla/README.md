# agents-core in TLA+

`agents-core` is the package behind a set of scheduled agents: a job fetches
data, asks a language model to write about it under a spending cap, checks what
it wrote and publishes JSON files on a data branch. This directory holds TLA+
models of the parts of it that have state, concurrency or failure, the TLC runs
that check them on small instances, and TLAPS proofs about the budgets, pools
and batches, the evaluation caps, the alerts and the downloads.

Paths below are relative to `src/src/agents_core/` unless they say otherwise.

## 1. Inventory

| Part | State | Operations | Talks to |
|---|---|---|---|
| Run budget (`costs.py`: `CostTracker`) | `total_usd`, `_reserved_usd`, a lock, `costs.jsonl` | `check`, `reserve`, `record`, `record_run` | every LLM call, shared by threads |
| Spend scope (`costs.py`: `SpendScope`) | `_start` | `spent`, `check` | reads the tracker without its lock |
| LLM calls (`llm.py`) | the tracker, a client | `_send`, `converse`, `complete`, `structured` | tracker, scope, API |
| Concurrent calls (`llm.py`: `_map`, `run_many`, `guard_batch`) | a thread pool, futures | submit, collect, shut down | one call per thread on the shared tracker |
| Batch API (`llm.py`: `batch`) | remote batch, deadline | submit, poll, cancel, collect | tracker (check, record), `run_many` as a fallback |
| Agent loop (`agent_loop.py`) | messages, trajectory, pending actions, steps, scope, tool threads | `run`, `_finish`, `_dispatch`, `execute_approved` | `converse`, tools on daemon threads, guard |
| Guards (`guards.py`) | none | `verify_numbers`, `fields_guard` | called by the loop, `_guarded`, `guard_batch` |
| HTTP (`http.py`) | `_budget.json`, `_last_request`, response cache, download sidecars | `request`, `download`, `_with_retries`, `_throttle` | used by fetch phases, tools, alerts |
| Runner and publishing (`runner.py`, `publish.py`, `agent.py`) | publish dir: extra files, `history/`, `latest.json`, `manifest-entry.json`, `costs-summary.json` | `run`, `publish_output`, `trim_history`, `write_manifest_entry`, `record_run` | previous run's output, restored by the workflow |
| Workflow (`src/.github/workflows/run-agent.yml`) | default branch, data branch | restore, run, commit, publish | runs `agents-run` |
| Alerts (`alerts.py`) | `ops_alerts.json`, GitHub issues | `ops_alert`, `_find_open_issue` | HTTP; the file is committed by the workflow |
| Evaluations (`evals.py`) | `history.jsonl`, reports, a total cap and one tracker per suite | `run_suites`, `run_suite`, `_run_case`, `compare` | loop, LLM |
| Tracing (`tracing.py`) | a tree of spans | `span`, `fit_trace`, `redact` | observes all the others |
| Settings, registry, schemas | none | look-up, validation | |

What is hard about them, and what makes each one right:

- **Budgets.** Threads check, send, record and release in any interleaving, and
  any step may raise. The counter of reservations must stay the sum of what is
  in flight, the total must stay under the cap, a scope under its own. An
  estimate is *not* quite a worst case: it prices all input as uncached input,
  while a cache write costs 1.25 times that, and it estimates tokens from
  characters. The models therefore let a true cost pass its estimate by
  `Overrun` and state every bound with it; `Overrun = 0` is the documented case.
- **Agent loop.** A response may hold any mix of tool uses and finish calls;
  tools hang and are abandoned while they run on. Every tool use must be
  answered once and in order, the trajectory must be replayable, the loop must
  end in time, and nothing may run or be published that was not approved or
  did not pass the guard.
- **Thread pool.** Results are read in the order of submission while threads
  fail in any order; no failure may be lost and no thread left running.
- **HTTP.** The daily count is a file, rewritten without a lock by threads and
  by successive processes, and not atomically.
- **Publishing.** A dozen files are written one after the other, any step may
  fail, the job may be killed, and the next run starts from what was pushed:
  one branch is pushed for the cost log, another for the output.

- **Batches.** A batch is checked against the cap but reserves nothing; it may time
  out half-way, be billed all the same, and be run again synchronously.
- **Downloads.** A file, its sidecar of validators and the server's content change
  one after the other; what an interrupted download leaves behind decides what a
  later "not modified" means.
- **Alerts.** The state file, the issue and the answer to the POST may each be lost
  on their own; nobody may be told twice while the issue is open, and nobody may be
  kept in the dark.
- **Evaluations.** The cap is hit inside a task, a scorer or a loop that does not
  raise; reports must stay complete, and comparisons free of false alarms.

PROJECT.json lists the hazards line by line, with the properties that cover them.

## 2. Modules

| Module | Models | Kind |
|---|---|---|
| `UnitSums` | sums over a finite set, as the size of a set of units | operators |
| `Escrow` | what the run budget promises: hold, settle, cancel | abstract specification |
| `CostTracker` | `CostTracker` and `LLM._send`, one action per critical section | component |
| `SpendScope` | `SpendScope` and `LLM.converse`; extends `CostTracker`, beside unscoped threads | composition |
| `RunMany` | `_map`, `run_many`, `guard_batch`; extends `CostTracker` | composition |
| `BatchCalls` | `LLM.batch` with its synchronous fallback; extends `RunMany` | composition |
| `AgentLoop` | `AgentLoop.run` and its tool threads | component |
| `HttpBudget` | `_with_retries`, `_throttle`, `_budget.json` | component |
| `HttpFiles` | `download` with its sidecar; extends `HttpBudget` | composition |
| `AgentRun` | the workflow job, `runner.run`, `publish.py`, over several runs | component |
| `OpsAlert` | `ops_alert` for one title, the state file, GitHub and its people | component |
| `EvalSuites` | `run_suites`, `run_suite`, `_run_case`, `history.jsonl`, `compare` | component |
| `CostTrackerProofs`, `SpendScopeProofs`, `BatchCallsProofs`, `AgentLoopProofs`, `HttpFilesProofs`, `AgentRunProofs`, `OpsAlertProofs`, `EvalSuitesProofs` | | theorems, each about the component of its name and what that extends |

### CostTracker, SpendScope

`total` and `reserved` are the tracker's fields; `pc` and `est` say where each
thread is inside `_send`. The code takes the lock in `reserve` (check and add),
in `record`, and in the `finally` of `reserve`: each is one action (`Reserve` or
`Refuse`, `Record`, `Release`). `Request` is the call that goes out between the first
two, when other threads may have overspent already; `ApiError` is the release after an
exception from the client. `record` may raise because the cap is passed, or because
`costs.jsonl` can not be written, after the cost was added; either way the
`finally` clause runs. `Escrow` is the same account with one step where the code
has two, a settled hold: the refinement maps a hold to a call that was let through
and is not recorded (`InFlight`). `SpendScope` splits `converse` where the code does:
`ScopeCheck` reads the tracker without the lock, `ConverseReserve` follows in a
later step.

### RunMany

Items are the tracker's callers. `phase` is the future of each item, `main` the
main thread between `submit`, `f.result()` of the item it awaits, and the
`finally` clause with `shutdown(wait=True, cancel_futures=True)`, whose emptying
of the queue runs item by item beside the threads. With one worker there is no
pool and the main thread starts the item it awaits.

### BatchCalls

`batch` before and around the pool: `SubmitBatch` is `check` on the sum of the
estimates and the creation of the batch, `Poll` and `TimeOut` the loop around
`retrieve`, `BookEntry` the record of one result, `RequestFails` any request of
`batch` that raises. The other side is the API: `open` entries it still works on
and `bill`, those that succeeded; `Abandon` leaves it to finish what it has. After a
time-out `step = "fallback"` hands all items to `RunMany`. Entries differ in nothing
but their fate, so they are counted. `Meanwhile` is one more thread of the run that
calls the model while the batch is polled. With `step = "direct"` the module is
`RunMany` alone: `run_many` or `guard_batch` called without a batch. `batch` may come
back by either way (`BatchReturned`): with the results it collected, or with those of
the fallback.

### AgentLoop

One loop with its own thread, the model as an adversary that answers with any
sequence of up to `MaxUses` uses, tools that return, fail, exit or hang, a guard
whose verdict is the kind of the finish call (`finishGood`, `finishBad`). The loop
is the only caller of its tracker here, so its scope's `spent` and the tracker's
total differ by what the run had spent before (`RunUsds` is what that left);
several callers of one scope are the subject of `SpendScope`. `asked` is history, the ids of every call of a tool that
requires approval; `Retries` are the values of `guard_retries`. Time passes in model
calls and in joins; the loop's own statements and the guard take none. The
parts of `_dispatch` that only format a message are left out.

### HttpBudget

One host. `file` is its entry of `_budget.json`, with date 0 for a file that is
absent, empty, or torn by a crash between truncation and write. `since` is the time
since `_last_request`; `gap` is the same time measured from the requests themselves,
redirects included, and `lag` how late after its attempt's beginning the last of them was
sent, so that `Spaced` does not rest on the code's own note. `uncounted` counts what
the code leaves uncounted: redirects followed inside one attempt (`Redirected`), which
are not throttled either, a redirect to where no connection opens (`TargetUnopened`) and
exceptions that leave the loop (`Escapes`). Midnight and a restart may come at any moment.

### HttpFiles

One thread, `D`, downloads one URL to one file, or makes other requests, on top of the
retry loop: `Stream`, `Replace`, `TruncateSidecar` and `WriteSidecar` are the order in
which the code moves a body to its place, `Break` is a connection or a disk that
fails in between. The content of the URL is its version; validators are those of a
version, and a 304 is the server's word that the version sent is the one it has. The
content may go back to an earlier version, with that version's validators. The
file may be removed and the process may die at any step; `torn` is history, that a
download ended between the move of the file and the write of its sidecar. Every step is one of
`HttpBudget`'s or leaves its variables alone (`FilesStepIsStep`, proved), so the budget
is that of `HttpBudget` still.

### OpsAlert

One title. `repo` and `local` are its day in the committed state file and in the
run's; `EndRun` commits the file or loses it, at any step of a call. `PostAttempt` has
GitHub process the POST or not, and the answer arrive or not, independently.
Time is in days and passes between calls; issues are commented on and closed by
people (`People`), not reopened. The search reads ten pages of a hundred issues; that
there are more open ones with the label is assumed not to happen. `posts` is history.

### EvalSuites

A run is given a list of suites, in any order and with repetitions. They share the total
cap, each with a tracker of its own whose `cap` is what is left (`NextCap`); a total cap
of 0 is a cap, `NoCap` is none. Nothing in the code makes the calls of a suite one at a
time: its tasks and scorers hold the suite's `LLM` and may use `run_many`, and the tool
threads that a loop abandons call on beside the next cases, the next suites and the
report. So up to `MaxCalls` calls are in flight on the tracker of each suite of the run;
they are counted (`calls`) and their reservations summed (`reserved`), since nothing else
tells them apart. `Calling` says which suites may call. A suite's cases are skipped when
`BudgetExceeded` leaves a task (`TaskRefused`) or a scorer (`ScorerRefused`); an agent
loop turns it into an answer, and its task goes on to the scorers (`TaskEnds`). One
scorer stands for all of a suite's; whether a case passed is independent of the value of
its score, 0 to `Grades`. `Abort` is a command that dies at any step. `AreLastTwo` picks
the lines of a suite that `compare` sets against each other, `Regression` is
`compare_entries` on the two, for the pass rate (`PassRateDrops`) and for the score's mean
(`MeanDrops`). Left out: batches (they are `BatchCalls`'), `--no-write`, the rounding of
means, and a torn history line, which `compare` skips.

### AgentRun

A job restores the data branch, runs the agent and pushes the cost log and then
the publish dir. `Restore` may start from nothing though there is a branch: the workflow
takes any failure of `git ls-remote` for a branch that does not exist. Every file of the
publish dir is written atomically and known by the run that wrote it and, for
`latest.json`, by the data it tells and the files it names. The cost log is appended to:
it is the set of runs with a readable line, and whether it ends in part of one (`torn`),
which the next line would be joined to. `Begin` covers the ways to end before the agent
runs, with the exit codes 0, 1 and 2. `Build` may find the previous entry unreadable
(`PreviousChange`). `Fail` may follow any step inside the `try` of `_run_traced`; `Killed`
is a process that dies or leaves by a `SystemExit` with the job going on
(`continue-on-error`), `JobDies` the job itself. `late`, `silent`, `forgot`, `owed` and
`quit` are history: the exceptions the properties have to name.

## 3. What the runs check

| Run | Result | Bounds |
|---|---|---|
| `spend_scope` | pass | 3 threads, 2 of them scoped; cap 7, scope 4, estimates 1 and 2, overrun 1 |
| `scope_overshoot` | violation | 2 scoped threads, overrun 0 |
| `agent_loop` | pass | 2 steps, 2 uses each, 2 ticks for the loop and for each tool, 0 or 1 guard retries, all other options, run cap below and above the loop's |
| `agent_loop_retry` | violation | the same with overrun 0 |
| `run_many` (`BatchCalls`) | pass | 4 items, concurrency 1, 2 and 5; cap 4, estimates 1 and 2, overrun 1; 1 poll |
| `run_many_first` | violation | 3 items, 2 threads |
| `http_budget` (`HttpFiles`) | pass | 1 thread, budget 2, 2 attempts, interval 2, 2 days, 1 restart and 1 uncounted request a day, 2 versions, back and forth |
| `http_shared` | violation | 2 threads, budget 2 |
| `agent_run` | pass | 3 runs, 2 days, 1 extra file, 2 data values, 1 snapshot kept; 2 faults of the kinds that histories note |
| `agent_run_failed` | violation | 1 run |
| `eval_suites` | pass | lists of 1 or 2 of 2 suites of 2 cases, one a loop suite; 2 calls in flight per suite; suite cap 2, total cap 3 or none, estimate 1, overrun 1; scores 0 and 1; 2 runs, 2 history lines |
| `ops_alert` | pass | 4 calls over 5 days, interval 2, 2 attempts, 3 issues |

**`spend_scope`.** `ReservationsExact` (the counter is the sum of the estimates in
flight), `SpendBounded` (the cap, up to one overrun per thread), `OwnSpendBounded`
(the scope, up to one estimate per other scoped thread: the price of the
unprotected check), `ReservationsReturned`, and the two refinements. Three threads are enough for one to be checked, one in flight and one
recording; the cap is passed, refused and reached exactly within the bounds.

**`agent_loop`.** `ConversationAnswered` (each tool use answered once and in order
whatever became of it), `TrajectoryComplete` (replayable, and nothing paid for is
missing but a response that broke the run's cap), `LoopSpendBounded`,
`ReturnsOnTime`, `NothingRunsUnapproved` (of all calls the model ever made of a tool that
requires approval, none starts unapproved and none is lost), `PublishedResultGuarded`,
`Terminates`. Two
steps of two uses reach every pair of consecutive outcomes, an abandoned tool beside
a second turn, both retries and every stop reason. Deadlock is not checked: a loop
that has stopped has nothing left to do.

**`run_many`.** `PoolSpendBounded` (the cap up to one overrun per *thread of the
pool*, which is stronger than one per item), `NothingLeftBehind` and `ReturnMeansAll`
of direct calls and of the fallback; `BilledBounded` (what the run is billed, recorded
or not: one cap for what is on the books and one for a batch nobody booked, plus the
overruns), `ReturnedIsBooked` (a batch that comes back has recorded every entry that was
billed, the unusable ones too; with one exception: when it comes back through the
fallback, nothing of the cancelled batch is recorded), `BatchEnds`. Four items on two threads leave items
queued while one fails; a batch of four can be cut after any number of entries.
Deadlock is checked: an ended call stutters.

**`http_budget`.** `BudgetKept` (with the terms for what the code does not count and
for what a restart may forget), `NeverOvercounts`, `CallsEnd`, `Spaced` (an attempt's
request goes out the interval after the process last sent one, and after one that
followed a redirect so much sooner as that was sent late in its attempt), and
`UnchangedIsCurrent`: a download that returns, with a body or with "not modified",
leaves the file at the version the server answered for, unless an earlier one was cut
short between the file and its sidecar (`torn`): then the old sidecar stays with the new
file, and TLC shows a server that goes back to the old version answer 304 for it. Two
versions are enough for one to be stale; a forced download, a removed file, a broken body, a restart between
the file and its sidecar and a retry of each all fall within two days of two requests.

**`agent_run`.** `LatestComplete`, `EntryMatchesLatest`, `LastChangeKept`,
`ExitCodeTold` (0 only with output, snapshot and entry in place, 1 when the entry says
failed, 2 only when nothing was touched), `SummaryComplete`. Three runs are the least that
lets a failed or killed run lie between two that succeed. `FewFaults`, a CONSTRAINT, leaves
out histories in which more than two runs failed late, failed silently or could not read
the entry; each such run is an exception a property names, two let one meet another, and
the proofs need no such bound. `Renamings` is a SYMMETRY: the model only compares data. Deadlock is
not checked: the runs are bounded.

**`eval_suites`.** `CapsKept` (a suite passes its cap, and what all suites report passes
the total, by at most one overrun for each call that may be in flight on *one* tracker;
the overruns do not add up over the suites), `CapCutsTheRest` (every line of history has a
result for every case, none is scored after one that was skipped, and the flag tells),
`AlarmsAreReal` (a regression has two scored lines of no later run behind it and, unless
the cap cut one of them short, a case that passed and does not any more if the pass rate
dropped, a case that scores lower if the mean did). Two lines are the least that can be
compared, of two runs or of a suite given twice to one; two calls at a time let the second
be sent while the first overspends.

**`ops_alert`.** `SuppressedMeansTold` (a day noted for a title, committed or not, has
an issue opened or updated less than an interval before it, so a title is silent for
less than two intervals) and `NoRepeatWhileOpen` (of two calls that alert within one
interval, the first one's issue has been closed). Five days hold two intervals and a
day between; three issues a duplicate and its successor. Type invariants of these two
modules are proved rather than run. Deadlock is not checked in either: runs, calls and
days are bounded.

**The violations** are disagreements between the code and what its docs or comments
say; PROJECT.json's findings quote both. Two callers of one scope overshoot it
together (`costs.py:200-203`); two finish calls of one response use up the guard's
retry before the model is told (`src/README.md:444-447`); a failed item does not
cancel what is queued behind an earlier one (`llm.py:658-659`); two threads of an
`Http` pass the daily budget (`http.py:80`); a run that fails after `latest.json` was
written has replaced it (`runner.py:8-10`).

Seven more disagreements are recorded without a run of their own. Three are stated as
definitions that TLC refutes as an invariant of the module's run: `OldRegressionsSilent`
of `EvalSuites` with `MaxRuns` and `MaxLines` 3 (a suite not run again is reported again
when another is at the same commit, `evals.py:844`), `RunCapped` of `EvalSuites` (what a
loop's abandoned threads spend after their suite's report is in no sum, so the total cap
does not cap the run, `src/README.md:590`) and `OneAlertPerInterval` of `OpsAlert` (a lost
answer or a lost state file alerts twice, `alerts.py:8`). Three are what a property has an
exception for: entries of a batch that are billed and never recorded, the second cap of
`BilledBounded` (`src/README.md:39-44`); runs that start from nothing because `ls-remote`
failed, `forgot` in `LastChangeKept` (`run-agent.yml:128-135`); a file beside an old
sidecar, `torn` in `UnchangedIsCurrent` (`http.py:328-329`). The last is a step of the
model: an agent loop that hits the suite's cap is scored, not skipped (`TaskEnds`,
`src/README.md:586`).

**Fairness.** Weak fairness of what runs anyway: a thread that has started (Python's
scheduler), a request that was sent (the SDK and httpx have timeouts), a clock. In
`AgentLoop` no fairness is given to tools: the loop's end must not depend on them. In
`CostTracker` nobody is obliged to start a call. `BatchSpec` has `batch`'s own thread
run on and its requests come back, and owes nothing of the API's entries: the batch
may never end. `FilesSpec` is `HttpBudget`'s fairness, with the steps of a download
among those of its thread; the server need not change, nobody need remove a file.
`AgentRun`, `Escrow`, `OpsAlert` and `EvalSuites` need none.

## 4. What is proved

TLAPS checks the following for every value of the constants, from their assumptions
alone: threads, callers and suites of any number (finitely many where they are
counted), amounts that are natural numbers, positive estimates, intervals and
attempts; an agent runs on at least one day and a response may use at least one tool.
TLC evaluates each assumption in the run of its module. Every safety invariant and
action property of the passing runs is proved; each inductive invariant was an invariant
of a TLC run first.

- `CostTrackerProofs`: what one changed term does to a sum, and bounds of sums (a
  recursive sum would need induction over data, which the provers do not offer; one that
  is the cardinality of a set of units needs only the facts of finite sets);
  `TypeCorrect`, `ReservationsCorrect`, `CapHolds` and `TrackerImplementsEscrow`. The bound on the total is
  not inductive: a `Record` adds to it whatever was in flight. The invariant `IInv`
  bounds what is *exposed* instead: the total, plus the estimates in flight, plus one
  overrun for each call in flight, is at most the cap plus one overrun for each
  caller. `Reserve` establishes it from `check`, `Record` turns an exposed estimate
  and overrun into a recorded cost, and the exact counter of reservations
  (`ReservationsExact`) makes what `check` reads the sum of what is in flight.
- `SpendScopeProofs`: `ScopeImplementsTracker` (scopes change nothing for the run
  budget, so `ScopedCapHolds` follows from the tracker's proof), `ScopeTypeCorrect` and
  `ScopeBudgetHolds`. The invariant bounds what the scope's calls have cost plus what
  it let through: when the scope lets `c` through, `own + e` fits its budget because
  the scope sees at least its own spend (`OwnSeen`), and each other scoped caller has
  at most one estimate outstanding.
- `BatchCallsProofs`: `BatchTypeCorrect`, `PoolCapHolds`, `PoolIsEmptied`,
  `PoolReturnsAll`, `BilledIsBooked` and `BillHolds`: every safety property of the
  `run_many` run. Each step of the pool is one of the tracker or leaves it alone
  (`PoolStepIsTrackers`), so `IInv` of `CostTrackerProofs` holds in it for free.
  `PoolExposed` narrows its exposure to one overrun per *thread*, which `Reserve` keeps
  because only an item that is worked on calls and there are threads for all of those
  (`Staffed`). `OverspendShows` is what makes a return trustworthy: a total past the cap
  has left a mark on an item that the main thread has yet to meet. `Starting` describes
  a pool before its first item, after a batch that timed out too, when other threads may
  have overspent already; `Worst` is the arithmetic of entries that are billed and not
  recorded.
- `AgentLoopProofs`: every safety property of the `agent_loop` run, for any number of
  steps, of tool uses in a response, any set of values of `guard_retries`, and any caps
  and times. `EveryUseAnswered`
  rests on `Divides`: in a turn, the results gathered and the uses left are those of the
  response, in its order, so that what is appended when none is left answers it.
  `TrajectoryWhole` needs the places of the responses in the conversation (`Replays`) and
  what was billed beside what was recorded (`MoneyKept`), from which `LoopBudgetHolds`
  follows as well: a request in flight fits the caps with its estimate.
  `DeadlineHolds` is not inductive without `joinUntil`: a join that has begun ends by a
  time that is itself bounded (`TimeKept`). `ApprovalHolds` needs the ids of the uses still
  to be handled to be new, and those the model asked of a tool that requires approval to
  be known by their kind (`UsesFresh`): an id that came twice could be started as one
  action and queued as another. `GuardHolds` needs that nothing but a stop writes an
  ending (`EndingLast`).
- `HttpFilesProofs`, first of the retry loop. `BudgetTypeCorrect` (no thread exceeds its
  attempts) and `CountsHold`, the bound of `NeverOvercounts`, hold for any number of
  threads that rewrite the file without a lock. A count adds one to the file when its
  request may long have been sent, so the bound alone is not inductive: `RoomLeft` says
  that the file, and every count about to be written, leaves room for all that is still
  owed. At midnight all of it is of another day (`DatesPast`), and what is owed is at most
  one per thread. `BudgetHolds` (`BudgetKept`) and `SpacingHolds` (`Spaced`) assume one
  thread (`Alone`), as the code needs it to: with two, the run `http_shared` has the
  budget passed. The check is made against the file, so the file must tell all that
  was sent: `Accounted` has every request of today in the file, owed to it, in the count
  about to be written (the file is empty between its two writes), or within what the code
  leaves uncounted. `SleepsEnough` has the sleep cover what is left of the interval since
  the latest attempt began, which is `gap + lag` or less.
- `HttpFilesProofs`, then of downloads: `FilesTypeCorrect` and `DownloadsAreCurrent`
  (`UnchangedIsCurrent`). A 304 is as good as the validators that were sent, and they as
  the sidecar that earlier downloads left: `Vouched` has a sidecar name the version of the
  file beside it, and so the validators of a download that has no answer yet, unless the
  two were torn apart; since content may come back, no order of versions helps. `Arrival`
  has the body be the file once it has moved, `Answer` a call that has its answer never
  make another attempt. `FilesRunTheLoop` carries over what is proved of the
  retry loop: `FilesCountsHold`, `FilesBudgetHolds`, `FilesSpacingHolds`.
- `AgentRunProofs`: every safety property of the `agent_run` run, for any number of runs
  and days, any set of extra files and any `history_keep`. What the branch shows is what
  the publish dir was at a commit, so the invariant says of the dir, at each step, what
  must hold if the job committed next. `FilesThere` (for `NoMissingFile`) has the files
  before the `latest.json` that names them. `EntriesTell` and `SnapshotKept` (for
  `EntryTrue`) have an entry that is not failed tell the truth, except while the steps
  between `latest.json` and the entry are under way (`Torn`); a trim leaves today's
  snapshot because no other is later (`SnapshotsPast`). `ChangesKnown` (for
  `ChangeRemembered`) follows the time of the last change through the entry that is read,
  built and written; `SincePast` has a run that starts from nothing be among those that
  forgot, and later than the change it lost. `CodeSettled` is `ExitCodeTrue` before the code is told. `CostsKept`
  and `SummariesWhole` (for `NoHoleInSummary`) have no run that is owed missing from the
  log when a summary is made of it.
- `OpsAlertProofs`: `AlertsTypeCorrect`, `SuppressionJustified`, `AlertsOnce`. Between the
  search and the POST nothing of `NoRepeatWhileOpen` speaks; `Aimed` says what the search
  made sure of, `NewestLast` why looking at the newest open issue is enough, `Recorded`
  that an issue is no older than what was posted to it.
- `EvalSuitesProofs`: `SuitesTypeCorrect`, `CapsHold`, `ReportsCutOff`, `AlarmsHold`.
  The caps are not inductive, since a call that ends adds its reservation and an overrun:
  `Exposed` bounds, of each tracker, what is spent plus what is reserved plus one overrun
  for each call in flight. `CapTaken` ties the cap of a suite to what its predecessors
  left: a suite that is left nothing lets no call through and adds no overrun of its own.
  `ResultsSound` is the report's property for the results so far. For `AlarmsHold`,
  `LinesInOrder` has the lines of the history in the order of their runs; of two lines
  that the cap did not cut short both scored every case, so a lower pass rate is a smaller
  set of cases that passed (`DropsLoses`), and a lower mean a smaller set of points, of
  which some case has lost one (`MeanLoses`).

Only model-checked: the liveness properties `ReservationsReturned`, `Terminates`,
`BatchEnds` and `CallsEnd` (fairness and ENABLED are beyond the provers), and the
refutations of section 3.

## 5. Plan

1. Done: run budget and scope, loop, pool, batch, HTTP budget and downloads, agent run,
   alerts, evaluations; proofs of the safety properties of all of them.
2. Next proofs: an abstract publisher (a branch that moves from one consistent publication
   to the next) that `AgentRun` implements; the budget of several threads of one `Http`,
   whose bound counts the lost updates.
3. Next modules: two writers of one `.part` file or of one `.tmp` file of the response
   cache (`http.py:355`, `591`); the number guard's matching rule against a
   reference definition on bounded decimals; `fit_trace`.

## 6. Not modelled

Prices and token counts (amounts are units), the text of prompts and messages, the
number guard's arithmetic (its verdict is an input), the response cache (a read before
and an atomic replace after a request), two downloads to one file, the scorers' own
arithmetic and the reports' markdown, tracing (it observes and does not decide),
settings, the registry, schema export, and the path filter of the evaluation workflow.
PROJECT.json gives the reason for each; those with a hazard of their own are in the
plan.
