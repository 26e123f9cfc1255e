------------------------------ MODULE OpsAlert ------------------------------
(***************************************************************************)
(* ops_alert (alerts.py), for one title: a run of the agent that calls     *)
(* ctx.alert any number of times, the state file that the workflow commits *)
(* back after the run or fails to, and the repository's issues, which      *)
(* people close and comment on.  Requests to GitHub are retried (http.py). *)
(* Without a token or a repository ops_alert returns at once; that call    *)
(* changes nothing and is left out.                                        *)
(***************************************************************************)
EXTENDS Integers, Sequences

CONSTANTS MinInterval,  \* min_interval, in days
          MaxAttempts,  \* attempts of a POST under the host's policy
          MaxDay,       \* bound on the days
          MaxCalls,     \* bound on the calls of ctx.alert
          MaxIssues     \* bound on the issues with this title

ASSUME OpsAlertAssumption ==
    {MinInterval, MaxAttempts, MaxDay, MaxCalls, MaxIssues} \subseteq Nat \ {0}

VARIABLES
    day,
    repo, local,  \* the title's day in ops_alerts.json: committed, and of the run
    issues,       \* issues with this title and the label, oldest first
    posts,        \* history: the POSTs GitHub processed
    calls,        \* calls so far
    pc,           \* "off": no run; "idle": no call in progress
    target,       \* the issue to comment on; 0 opens a new one
    attempt

github == <<issues, posts>>
vars == <<day, repo, local, github, calls, pc, target, attempt>>

Issues == [open : BOOLEAN, updated : 1..MaxDay]
Posts == [call : 0..MaxCalls, day : 1..MaxDay, issue : Nat]

TypeOK ==
    /\ day \in 1..MaxDay
    /\ repo \in 0..day /\ local \in 0..day
    /\ issues \in Seq(Issues)
    /\ posts \in Seq(Posts)
    /\ calls \in 0..MaxCalls
    /\ pc \in {"off", "idle", "search", "post"}
    /\ target \in 0..Len(issues)
    /\ attempt \in 1..MaxAttempts

Init ==
    /\ day = 1
    /\ repo = 0 /\ local = 0
    /\ issues = <<>> /\ posts = <<>>
    /\ calls = 0
    /\ pc = "off"
    /\ target = 0 /\ attempt = 1
-----------------------------------------------------------------------------
\* A run starts from the committed file.
StartRun ==
    /\ pc = "off"
    /\ pc' = "idle"
    /\ local' = repo
    /\ UNCHANGED <<day, repo, github, calls, target, attempt>>

\* The run ends, or is killed at any step; its file is committed and pushed, or not.
EndRun ==
    /\ pc # "off"
    /\ pc' = "off"
    /\ repo' \in {local, repo}
    /\ UNCHANGED <<day, local, github, calls, target, attempt>>

RecentRestamps ==  \* mutant: a call that is suppressed renews the title's day
    /\ pc = "idle"
    /\ calls < MaxCalls
    /\ calls' = calls + 1
    /\ IF local # 0 /\ day - local < MinInterval
       THEN local' = day /\ UNCHANGED pc
       ELSE pc' = "search" /\ UNCHANGED local
    /\ UNCHANGED <<day, repo, github, target, attempt>>

\* ctx.alert: a title alerted within the interval is skipped without a request.
Alert ==
    /\ pc = "idle"
    /\ calls < MaxCalls
    /\ calls' = calls + 1
    /\ IF local # 0 /\ day - local < MinInterval THEN UNCHANGED pc ELSE pc' = "search"
    /\ UNCHANGED <<day, repo, local, github, target, attempt>>

\* The call ends and notes the day, unless the file cannot be written.
Note ==
    /\ pc' = "idle"
    /\ local' \in {day, local}

\* "failed": nothing is noted.
Fail ==
    /\ pc' = "idle"
    /\ UNCHANGED local

Post(n) ==
    /\ pc' = "post"
    /\ target' = n
    /\ attempt' = 1
    /\ UNCHANGED local

AgeIgnored(n) ==  \* mutant: the age of the open issue is not looked at
    Post(n)

\* An open issue is left alone when it was updated within the interval.
Found(n) ==
    \/ day - issues[n].updated < MinInterval /\ Note /\ UNCHANGED <<target, attempt>>
    \/ day - issues[n].updated >= MinInterval /\ Post(n)

Open == {n \in 1..Len(issues) : issues[n].open}

\* The search lists open issues, the newest first; it fails when its retries do.  It reads
\* ten pages of a hundred: that the label has no more open issues is assumed, for an issue
\* beyond them would not be found and its title alerted again.
Search ==
    /\ pc = "search"
    /\ \/ Fail /\ UNCHANGED <<target, attempt>>
       \/ Open = {} /\ Post(0)
       \/ \E n \in Open : (\A k \in Open : k <= n) /\ Found(n)
    /\ UNCHANGED <<day, repo, github, calls>>

Retry ==
    /\ attempt < MaxAttempts
    /\ attempt' = attempt + 1
    /\ UNCHANGED <<pc, local>>

GiveUp == Fail /\ UNCHANGED attempt

Update(n, o) == issues' = [issues EXCEPT ![n] = [open |-> o, updated |-> day]]

\* GitHub processes the POST: a new issue, or a comment.
Process ==
    LET n == IF target = 0 THEN Len(issues) + 1 ELSE target
    IN /\ n <= MaxIssues
       /\ posts' = Append(posts, [call |-> calls, day |-> day, issue |-> n])
       /\ IF target = 0
          THEN issues' = Append(issues, [open |-> TRUE, updated |-> day])
          ELSE Update(n, issues[n].open)

\* An attempt is answered, or its answer is lost after it was processed, or it was not
\* processed; the last two are retried, until an attempt fails for good.
PostAttempt ==
    /\ pc = "post"
    /\ \/ Process /\ Note /\ UNCHANGED attempt
       \/ /\ Process \/ UNCHANGED github
          /\ Retry \/ GiveUp
    /\ UNCHANGED <<day, repo, calls, target>>

\* Someone comments on an issue or closes it.
People ==
    /\ \E n \in 1..Len(issues) : \E o \in BOOLEAN :
        (o => issues[n].open) /\ Update(n, o)
    /\ UNCHANGED <<day, repo, local, posts, calls, pc, target, attempt>>

Tick ==
    /\ pc \in {"off", "idle"}
    /\ day < MaxDay
    /\ day' = day + 1
    /\ UNCHANGED <<repo, local, github, calls, pc, target, attempt>>

Next ==
    \/ StartRun \/ EndRun \/ Alert \/ Search \/ PostAttempt \/ People \/ Tick

Spec == Init /\ [][Next]_vars
-----------------------------------------------------------------------------
\* A title that is suppressed has been heard of: whenever the file, committed or local,
\* holds a day for it, one of its issues was opened or updated less than an interval
\* before that day or later, so an alert stays silent for less than two intervals
\* (alerts.py:103-112, 142-151).
SuppressedMeansTold ==
    \A d \in {repo, local} \ {0} :
        \E n \in 1..Len(issues) : d - issues[n].updated < MinInterval

\* Two calls that alert within one interval have had an issue closed in between: while the
\* issue an alert went to is open, none follows it in the interval, whatever became of
\* the state file and of the answers (alerts.py:10-18).
NoRepeatWhileOpen ==
    \A i, j \in 1..Len(posts) :
        posts[i].call < posts[j].call /\ posts[j].day - posts[i].day < MinInterval
            => ~ issues[posts[i].issue].open

\* "At most one alert per title per `min_interval`" (alerts.py:8).
OneAlertPerInterval ==
    \A i, j \in 1..Len(posts) : i < j => posts[j].day - posts[i].day >= MinInterval
=============================================================================
