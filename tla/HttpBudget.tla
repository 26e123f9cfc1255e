----------------------------- MODULE HttpBudget -----------------------------
(***************************************************************************)
(* Http._with_retries (http.py) for one host whose HostPolicy has a        *)
(* min_interval_seconds and a daily_budget: budget check, throttle, the    *)
(* request, its count in the _budget.json file, and the retry.  The file   *)
(* outlives the process and its write is a truncation and then a write.    *)
(* The threads share one Http (tools of an agent loop do, an abandoned one *)
(* beside the next); a thread that runs out of attempts raises.  The clock *)
(* is kept as the ticks since the latest request, days are UTC dates.      *)
(***************************************************************************)
EXTENDS Integers, FiniteSets

CONSTANTS Threads,      \* threads using the Http
          DailyBudget,  \* HostPolicy.daily_budget
          PolicyMax,    \* HostPolicy.max_attempts, 0 for None
          MinInterval,  \* HostPolicy.min_interval_seconds, in ticks
          MaxDay,       \* bound on the days
          MaxCrashes,   \* bound on the restarts of a day
          MaxUncounted  \* bound on the requests of a day the code does not count

ASSUME HttpBudgetAssumption ==
    /\ IsFiniteSet(Threads)
    /\ {PolicyMax, MinInterval, MaxCrashes, MaxUncounted} \subseteq Nat
    /\ {DailyBudget, MaxDay} \subseteq Nat \ {0}

VARIABLES
    day,     \* today
    file,    \* _budget.json for the host: date 0 when absent, empty or torn
    since,   \* ticks since _last_request[host], no more than MinInterval
    pc,      \* where each thread is in _with_retries
    try,     \* attempt of its for loop
    sleep,   \* ticks its throttle still sleeps
    tally,   \* what its _count_request will write
    verdict, \* what follows the count
    sent, uncounted, crashes,  \* history: of today, requests sent, those that no
                               \* _count_request follows, and restarts
    gap,     \* history: ticks since this process last sent a request, redirects included
    lag      \* history: how long after its attempt began that request was sent

file_ == <<day, file>>
clock == <<since, gap, lag>>
history == <<sent, uncounted, crashes>>
local == <<pc, try, sleep, tally, verdict>>
vars == <<day, file, since, pc, try, sleep, tally, verdict, sent, uncounted, crashes, gap, lag>>

Steps == {"idle", "attempt", "checked", "throttling", "sending", "unopened",
          "counting", "truncating", "writing"}
Counts == [date : 0..MaxDay, used : Nat]

\* HostPolicy.attempts for a host with a daily budget.
Attempts == IF PolicyMax > 0 THEN PolicyMax ELSE 1

TypeOK ==
    /\ day \in 1..MaxDay
    /\ file \in Counts
    /\ since \in 0..MinInterval /\ gap \in 0..MinInterval /\ lag \in 0..MinInterval
    /\ pc \in [Threads -> Steps]
    /\ try \in [Threads -> 1..Attempts]
    /\ sleep \in [Threads -> 0..MinInterval]
    /\ tally \in [Threads -> Counts]
    /\ verdict \in [Threads -> {"done", "retry"}]
    /\ {sent, uncounted, crashes} \subseteq Nat

None == [date |-> 0, used |-> 0]

Init ==
    /\ day = 1 /\ file = None
    /\ since = MinInterval /\ gap = MinInterval /\ lag = 0
    /\ pc = [t \in Threads |-> "idle"]
    /\ try = [t \in Threads |-> 1]
    /\ sleep = [t \in Threads |-> 0]
    /\ tally = [t \in Threads |-> None]
    /\ verdict = [t \in Threads |-> "done"]
    /\ sent = 0 /\ uncounted = 0 /\ crashes = 0

\* _budget_used: a file of another day, or that does not parse, counts nothing.
Used == IF file.date = day THEN file.used ELSE 0

Goto(t, step) == pc' = [pc EXCEPT ![t] = step]
-----------------------------------------------------------------------------
\* request or download, past the cache: the first attempt.
Call(t) ==
    /\ pc[t] = "idle"
    /\ Goto(t, "attempt")
    /\ try' = [try EXCEPT ![t] = 1]
    /\ UNCHANGED <<file_, clock, history, sleep, tally, verdict>>

CheckAtMost(t) ==  \* mutant: the budget test is off by one
    /\ pc[t] = "attempt"
    /\ IF Used > DailyBudget THEN Goto(t, "idle") ELSE Goto(t, "checked")
    /\ UNCHANGED <<file_, clock, history, try, sleep, tally, verdict>>

\* _check_budget, before every attempt: RequestBudgetExceeded leaves the loop.
CheckBudget(t) ==
    /\ pc[t] = "attempt"
    /\ IF Used >= DailyBudget THEN Goto(t, "idle") ELSE Goto(t, "checked")
    /\ UNCHANGED <<file_, clock, history, try, sleep, tally, verdict>>

\* _throttle reads the time of the host's latest request and sleeps the rest of the
\* interval, if any.
Throttle(t) ==
    /\ pc[t] = "checked"
    /\ Goto(t, "throttling")
    /\ sleep' = [sleep EXCEPT ![t] = MinInterval - since]
    /\ UNCHANGED <<file_, clock, history, try, tally, verdict>>

SendUnnoted(t) ==  \* mutant: a connection that fails is not noted as a request
    /\ pc[t] = "throttling"
    /\ sleep[t] = 0
    /\ gap' = 0 /\ lag' = 0
    /\ \/ Goto(t, "sending") /\ sent' = sent + 1 /\ since' = 0
       \/ Goto(t, "unopened") /\ UNCHANGED <<sent, since>>
    /\ UNCHANGED <<file_, uncounted, crashes, try, sleep, tally, verdict>>

\* The sleep is over; _throttle notes the time, and attempt_fn sends the request or
\* fails to open a connection for it.
Send(t) ==
    /\ pc[t] = "throttling"
    /\ sleep[t] = 0
    /\ since' = 0
    /\ gap' = 0 /\ lag' = 0
    /\ \/ Goto(t, "sending") /\ sent' = sent + 1
       \/ Goto(t, "unopened") /\ UNCHANGED sent
    /\ UNCHANGED <<file_, uncounted, crashes, try, sleep, tally, verdict>>

\* What _with_retries does next when it does not return: another attempt, or, when
\* none is left, HttpError.
Retry(t) ==
    IF try[t] < Attempts
    THEN Goto(t, "attempt") /\ try' = [try EXCEPT ![t] = @ + 1]
    ELSE Goto(t, "idle") /\ UNCHANGED try

RetryForever(t) ==  \* mutant: a connection that fails does not use up an attempt
    /\ pc[t] = "unopened"
    /\ Goto(t, "attempt")
    /\ UNCHANGED <<file_, clock, history, try, sleep, tally, verdict>>

CountUnopened(t) ==  \* mutant: every TransportError is counted
    /\ pc[t] = "unopened"
    /\ Goto(t, "counting")
    /\ verdict' = [verdict EXCEPT ![t] = "retry"]
    /\ UNCHANGED <<file_, clock, history, try, sleep, tally>>

\* One of _NOT_SENT_ERRORS: the attempt is used up, the budget is not.
NotSent(t) ==
    /\ pc[t] = "unopened"
    /\ Retry(t)
    /\ UNCHANGED <<file_, clock, history, sleep, tally, verdict>>

\* The attempt is over and counts: a response, an HttpError, or a retryable status
\* or transport error.  After the count the loop is done (a Retry-After that
\* time.sleep rejects ends it too) or tries again.
Answered(t) ==
    /\ pc[t] = "sending"
    /\ Goto(t, "counting")
    /\ \E v \in {"done", "retry"} : verdict' = [verdict EXCEPT ![t] = v]
    /\ UNCHANGED <<file_, clock, history, try, sleep, tally>>

\* The response redirects: follow_redirects sends one more request at once, without a
\* throttle or a note of it, and the attempt is counted once.
Redirected(t) ==
    /\ pc[t] = "sending"
    /\ uncounted < MaxUncounted
    /\ sent' = sent + 1
    /\ uncounted' = uncounted + 1
    /\ gap' = 0
    /\ lag' = IF gap + lag < MinInterval THEN gap + lag ELSE MinInterval
    /\ UNCHANGED <<file_, since, crashes, local>>

\* It redirects to where no connection opens: also one of _NOT_SENT_ERRORS, so the
\* request that was sent first is not counted either.
TargetUnopened(t) ==
    /\ pc[t] = "sending"
    /\ uncounted < MaxUncounted
    /\ uncounted' = uncounted + 1
    /\ Retry(t)
    /\ UNCHANGED <<file_, clock, sent, crashes, sleep, tally, verdict>>

\* attempt_fn raised what is neither _Retryable, HttpError nor TransportError
\* (too many redirects, a body that does not decode, a full disk): no count.
Escapes(t) ==
    /\ pc[t] = "sending"
    /\ uncounted < MaxUncounted
    /\ uncounted' = uncounted + 1
    /\ Goto(t, "idle")
    /\ UNCHANGED <<file_, clock, sent, crashes, try, sleep, tally, verdict>>

\* _count_request reads the file ...
ReadCount(t) ==
    /\ pc[t] = "counting"
    /\ tally' = [tally EXCEPT ![t] = [date |-> day, used |-> Used + 1]]
    /\ Goto(t, "truncating")
    /\ UNCHANGED <<file_, clock, history, try, sleep, verdict>>

\* ... and rewrites it: write_text empties it first.
Truncate(t) ==
    /\ pc[t] = "truncating"
    /\ file' = None
    /\ Goto(t, "writing")
    /\ UNCHANGED <<day, clock, history, try, sleep, tally, verdict>>

WriteUncapped(t) ==  \* mutant: the last attempt is followed by another
    /\ pc[t] = "writing"
    /\ file' = tally[t]
    /\ IF verdict[t] = "retry" THEN Goto(t, "attempt") /\ try' = [try EXCEPT ![t] = @ + 1]
                               ELSE Goto(t, "idle") /\ UNCHANGED try
    /\ UNCHANGED <<day, clock, history, sleep, tally, verdict>>

WriteCount(t) ==
    /\ pc[t] = "writing"
    /\ file' = tally[t]
    /\ IF verdict[t] = "retry" THEN Retry(t) ELSE Goto(t, "idle") /\ UNCHANGED try
    /\ UNCHANGED <<day, clock, history, sleep, tally, verdict>>

\* Time passes.  A thread sleeps at least as long as it asked for.
Tick ==
    /\ \/ since < MinInterval
       \/ gap < MinInterval
       \/ \E t \in Threads : sleep[t] > 0
    /\ since' = IF since < MinInterval THEN since + 1 ELSE since
    /\ gap' = IF gap < MinInterval THEN gap + 1 ELSE gap
    /\ sleep' = [t \in Threads |-> IF sleep[t] > 0 THEN sleep[t] - 1 ELSE 0]
    /\ UNCHANGED <<file_, lag, history, pc, try, tally, verdict>>

\* The UTC date changes, whatever the threads are doing.
Midnight ==
    /\ day < MaxDay
    /\ day' = day + 1
    /\ sent' = 0 /\ uncounted' = 0 /\ crashes' = 0
    /\ UNCHANGED <<file, clock, local>>

\* The process dies at any moment; the next one finds the file as it is.
Crash ==
    /\ crashes < MaxCrashes
    /\ crashes' = crashes + 1
    /\ pc' = [t \in Threads |-> "idle"]
    /\ sleep' = [t \in Threads |-> 0]
    /\ since' = MinInterval
    /\ gap' = MinInterval /\ lag' = 0
    /\ UNCHANGED <<file_, sent, uncounted, try, tally, verdict>>

Step(t) ==
    \/ CheckBudget(t) \/ Throttle(t) \/ Send(t)
    \/ NotSent(t) \/ TargetUnopened(t) \/ Answered(t) \/ Escapes(t)
    \/ ReadCount(t) \/ Truncate(t) \/ WriteCount(t)

Next ==
    \/ \E t \in Threads : Call(t) \/ Step(t) \/ Redirected(t)
    \/ Tick \/ Midnight \/ Crash

\* Threads run on, requests end (httpx has a timeout) and sleeps do.
Spec == Init /\ [][Next]_vars /\ WF_vars(Tick) /\ \A t \in Threads : WF_vars(Step(t))
-----------------------------------------------------------------------------
\* A client used by one thread keeps the budget through retries, midnight and
\* restarts: what a UTC day's requests pass it by is what the code leaves uncounted
\* (Redirected, TargetUnopened, Escapes), and at most the whole budget again for each
\* restart, which may find the file torn or a request not counted yet (http.py:483-547).
BudgetKept == sent <= DailyBudget * (1 + crashes) + uncounted

\* The file never holds more than was sent: connections that never opened are free
\* (http.py:16), and at midnight at most the request in flight moves to the new day.
NeverOvercounts == file.date = day => file.used <= sent + Cardinality(Threads)

\* An attempt of a client used by one thread sends its request min_interval_seconds after
\* the process last sent one to the host, retries and connections that fail included
\* (_throttle): but when that one followed a redirect, which is not throttled, so much
\* sooner as it was sent after its own attempt began.
Spaced ==
    [][\A t \in Threads : pc[t] = "throttling" /\ pc'[t] \in {"sending", "unopened"} =>
                            gap + lag >= MinInterval]_vars

\* Every request comes back, with a response or an exception.
CallsEnd == \A t \in Threads : pc[t] # "idle" ~> pc[t] = "idle"

\* "daily_budget caps requests actually sent per UTC day" (http.py:80).
CapsSent == sent <= DailyBudget
=============================================================================
