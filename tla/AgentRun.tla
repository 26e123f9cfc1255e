------------------------------ MODULE AgentRun ------------------------------
(***************************************************************************)
(* One agent's runs, one after the other (the workflow's concurrency group *)
(* lets no two overlap): the job of run-agent.yml restores the data branch *)
(* into the publish dir, runner.run (runner.py) fetches, analyzes and      *)
(* publishes into it (publish.py), and the job commits the cost log and    *)
(* pushes the publish dir as the new data branch, whether the run failed   *)
(* or not.  Any step may raise, and the job may be cancelled at any step.  *)
(* The publish dir's files are written atomically, so a write that fails   *)
(* changes nothing; the cost log is appended to, and a write that fails    *)
(* may leave it with part of a line.  A file is known here by the run that *)
(* wrote it and what it says.                                              *)
(***************************************************************************)
EXTENDS Naturals, FiniteSets, TLC

CONSTANTS Names,        \* paths an AgentResult may publish beside latest.json
          Data,         \* what the agent's sources may say
          HistoryKeep,  \* Agent.history_keep
          MaxRuns,      \* bound on the runs
          MaxDay,       \* bound on the days
          MaxFaults     \* bound on the faults the histories note, for TLC alone

ASSUME AgentRunAssumption ==
    /\ {HistoryKeep, MaxRuns, MaxFaults} \subseteq Nat
    /\ MaxDay \in Nat \ {0}
    /\ "none" \notin Data

VARIABLES
    day,      \* UTC, of the latest output built
    run,      \* the run of the current or latest job
    pc,       \* the next step of the job, idle between jobs
    code,     \* exit code of agents-run, 1 for any but 0 and 2
    quit,     \* history: code of the agent has left the process by SystemExit(0)
    cur,      \* AgentOutput and ManifestEntry the run has built
    left,     \* extra files still to write
    dir,      \* the publish dir of the job's checkout
    costs,    \* data/costs.jsonl of the checkout: the runs it has a readable line of,
              \* and whether it ends in part of a line
    branch,   \* the data branch, the publish dir it was pushed from
    repoCosts,  \* data/costs.jsonl of the default branch
    late,     \* history: runs that failed after their latest.json was written
    silent,   \* history: failed runs whose failed entry was not written
    forgot,   \* history: runs that could not read the previous entry, though there was one
    owed      \* history: runs that record_run wrote down, without those whose log was lost
              \* with the job or by four failed pushes, or whose line joined part of another

clock == <<day, run>>
exit == <<code, quit>>
history == <<late, silent, forgot, owed>>
remote == <<branch, repoCosts>>
vars == <<clock, pc, exit, cur, left, dir, costs, remote, history>>

Runs == 0..MaxRuns
Steps == {"idle", "start", "agent", "files", "history", "latest", "trim", "entry",
          "failed", "record", "runfiles", "commit", "publish"}
Latests == [run : Runs, data : Data \cup {"none"}, names : SUBSET Names,
            day : 0..MaxDay, since : Runs]
Entries == [run : Runs, status : {"none", "ok", "failed"}, change : Runs]
Dirs == [latest : Latests, history : [1..MaxDay -> Runs], files : SUBSET Names,
         entry : Entries, summary : SUBSET Runs]
Logs == [runs : SUBSET Runs, torn : BOOLEAN]

TypeOK ==
    /\ day \in 1..MaxDay /\ run \in Runs /\ pc \in Steps /\ code \in 0..2
    /\ quit \in BOOLEAN
    /\ cur \in [latest : Latests, entry : Entries]
    /\ left \subseteq Names
    /\ dir \in Dirs /\ branch \in Dirs
    /\ costs \in Logs /\ repoCosts \in Logs
    /\ UNION {late, silent, forgot, owed} \subseteq Runs

NoLatest == [run |-> 0, data |-> "none", names |-> {}, day |-> 0, since |-> 0]
NoEntry == [run |-> 0, status |-> "none", change |-> 0]
Empty == [latest |-> NoLatest, history |-> [d \in 1..MaxDay |-> 0], files |-> {},
          entry |-> NoEntry, summary |-> {}]
Nothing == [latest |-> NoLatest, entry |-> NoEntry]
NoLog == [runs |-> {}, torn |-> FALSE]

Init ==
    /\ day = 1 /\ run = 0 /\ pc = "idle" /\ code = 0 /\ quit = FALSE
    /\ cur = Nothing /\ left = {}
    /\ dir = Empty /\ branch = Empty
    /\ costs = NoLog /\ repoCosts = NoLog
    /\ late = {} /\ silent = {} /\ forgot = {} /\ owed = {}

Snapshots == {d \in 1..MaxDay : dir.history[d] # 0}
-----------------------------------------------------------------------------
\* The job checks out the default branch and restores the data branch.  An ls-remote that
\* fails for whatever reason is taken for "no data branch yet": the run starts from nothing,
\* though there is a branch.
Restore ==
    /\ pc = "idle"
    /\ run < MaxRuns
    /\ run' = run + 1
    /\ pc' = "start"
    /\ code' = 0 /\ quit' = FALSE
    /\ \/ dir' = branch /\ UNCHANGED forgot
       \/ branch # Empty /\ dir' = Empty /\ forgot' = forgot \cup {run'}
    /\ costs' = repoCosts
    /\ cur' = Nothing
    /\ UNCHANGED <<day, left, remote, late, silent, owed>>

DryRunEntered ==  \* mutant: a dry run writes a manifest entry, with its own status
    /\ pc = "start"
    /\ \/ pc' = "agent" /\ UNCHANGED <<code, dir>>
       \/ /\ pc' = "commit" /\ code' = 0
          /\ dir' = [dir EXCEPT !.entry.run = run, !.entry.status = "dry_run"]
    /\ UNCHANGED <<clock, quit, cur, left, costs, remote, history>>

\* The run begins; or it is a dry run, which publishes and records nothing; or
\* configure_http raises out of run, before anything catches it (1); or the agent is not
\* registered (2).  The job goes on to commit and to publish.
Begin ==
    /\ pc = "start"
    /\ \/ pc' = "agent" /\ UNCHANGED code
       \/ pc' = "commit" /\ code' \in {0, 1, 2}
    /\ UNCHANGED <<clock, quit, cur, left, dir, costs, remote, history>>

\* analyze returned.  An agent compares its sources with previous_latest, which the
\* job restored, to set data_changed.
Changed(d) == dir.latest.data # d

\* History: the run that brought the data to the data branch.
Since(d) == IF branch.latest.data # d THEN run ELSE branch.latest.since

\* read_previous_manifest_entry, and the runs that could not: an entry that does not
\* validate (an older release may have written it) is read as none.
PreviousChange(change) ==
    \/ change = dir.entry.change /\ UNCHANGED forgot
    \/ dir.entry # NoEntry /\ change = 0 /\ forgot' = forgot \cup {run}

ChangeForgotten(d, names, today) ==  \* mutant: an unchanged run has no time of change
    /\ pc = "agent"
    /\ cur' = [latest |-> [run |-> run, data |-> d, names |-> names, day |-> today,
                           since |-> Since(d)],
               entry |-> [run |-> run, status |-> "ok",
                          change |-> IF Changed(d) THEN run ELSE 0]]
    /\ left' = names
    /\ pc' = "files"
    /\ day' = today
    /\ UNCHANGED <<run, exit, dir, costs, remote, history>>

\* analyze, build_output and manifest_entry_for: the time of the latest change is
\* now, or the previous entry's.  The day is read here alone: today, or any later day.
Build(d, names, today) ==
    /\ pc = "agent"
    /\ \E change \in Runs :
         /\ PreviousChange(change)
         /\ cur' = [latest |-> [run |-> run, data |-> d, names |-> names, day |-> today,
                                since |-> Since(d)],
                    entry |-> [run |-> run, status |-> "ok",
                               change |-> IF Changed(d) THEN run ELSE change]]
    /\ left' = names
    /\ pc' = "files"
    /\ day' = today
    /\ UNCHANGED <<run, exit, dir, costs, remote, late, silent, owed>>

\* publish_output writes the extra files one by one ...
WriteFile(n) ==
    /\ pc = "files"
    /\ n \in left
    /\ dir' = [dir EXCEPT !.files = @ \cup {n}]
    /\ left' = left \ {n}
    /\ UNCHANGED <<clock, pc, exit, cur, costs, remote, history>>

\* ... then the snapshot of the day the output says ...
WriteHistory ==
    /\ pc = "files"
    /\ left = {}
    /\ dir' = [dir EXCEPT !.history[cur.latest.day] = run]
    /\ pc' = "latest"
    /\ UNCHANGED <<clock, exit, cur, left, costs, remote, history>>

LatestEarly ==  \* mutant: latest.json is written before the files it names
    /\ pc = "files"
    /\ dir' = [dir EXCEPT !.latest = cur.latest]
    /\ pc' = "trim"
    /\ UNCHANGED <<clock, exit, cur, left, costs, remote, history>>

\* ... and latest.json last.
WriteLatest ==
    /\ pc = "latest"
    /\ dir' = [dir EXCEPT !.latest = cur.latest]
    /\ pc' = "trim"
    /\ UNCHANGED <<clock, exit, cur, left, costs, remote, history>>

TrimNewest ==  \* mutant: the list is sorted the other way round
    /\ pc = "trim"
    /\ IF Cardinality(Snapshots) > HistoryKeep
       THEN \E d \in Snapshots :
              /\ \A e \in Snapshots : e <= d
              /\ dir' = [dir EXCEPT !.history[d] = 0]
              /\ UNCHANGED pc
       ELSE pc' = "entry" /\ UNCHANGED dir
    /\ UNCHANGED <<clock, exit, cur, left, costs, remote, history>>

\* trim_history deletes the oldest snapshots beyond history_keep, one by one.
Trim ==
    /\ pc = "trim"
    /\ IF Cardinality(Snapshots) > HistoryKeep
       THEN \E d \in Snapshots :
              /\ \A e \in Snapshots : d <= e
              /\ dir' = [dir EXCEPT !.history[d] = 0]
              /\ UNCHANGED pc
       ELSE pc' = "entry" /\ UNCHANGED dir
    /\ UNCHANGED <<clock, exit, cur, left, costs, remote, history>>

\* write_manifest_entry, once everything it speaks of is in place.
WriteEntry ==
    /\ pc = "entry"
    /\ dir' = [dir EXCEPT !.entry = cur.entry]
    /\ pc' = "record"
    /\ UNCHANGED <<clock, exit, cur, left, costs, remote, history>>

FailExitsZero ==  \* mutant: the status of a failed run is not returned
    /\ pc \in {"agent", "files", "latest", "trim", "entry"}
    /\ pc' = "failed"
    /\ late' = IF pc \in {"trim", "entry"} THEN late \cup {run} ELSE late
    /\ UNCHANGED <<clock, exit, cur, left, dir, costs, remote, silent, forgot, owed>>

\* An append to the cost log that fails or is cut short may leave part of its line.
MayTear == costs' = costs \/ costs' = [costs EXCEPT !.torn = TRUE]

\* Any of it raises: the agent's own phases, a model call whose cost can not be logged,
\* the validation of the output, a path that is refused, a write or a deletion.  What was
\* written stays.
Fail ==
    /\ pc \in {"agent", "files", "latest", "trim", "entry"}
    /\ pc' = "failed"
    /\ code' = 1
    /\ late' = IF pc \in {"trim", "entry"} THEN late \cup {run} ELSE late
    /\ IF pc = "agent" THEN MayTear ELSE UNCHANGED costs
    /\ UNCHANGED <<clock, quit, cur, left, dir, remote, silent, forgot, owed>>

\* The except clause: failed_entry keeps what the previous entry says, and is
\* written, unless that raises too.
WriteFailedEntry ==
    /\ pc = "failed"
    /\ \/ /\ \E change \in Runs :
               /\ PreviousChange(change)
               /\ dir' = [dir EXCEPT !.entry = [run |-> run, status |-> "failed",
                                               change |-> change]]
          /\ UNCHANGED silent
       \/ /\ silent' = silent \cup {run}
          /\ UNCHANGED <<dir, forgot>>
    /\ pc' = "record"
    /\ UNCHANGED <<clock, exit, cur, left, costs, remote, late, owed>>

\* Steps in which code of the agent runs: its phases, and what validates and serializes
\* its models.
AgentSteps == {"start", "agent", "files", "latest", "runfiles"}

\* The process is killed, or leaves by what is no Exception (a SystemExit, which code of
\* the agent may raise with 0): whatever is written so far stays, and the job, told to
\* continue on error, goes on with it.
Killed ==
    /\ pc \in Steps \ {"idle", "commit", "publish"}
    /\ pc' = "commit"
    /\ \/ code' = 1 /\ UNCHANGED quit
       \/ pc \in AgentSteps /\ code' = 0 /\ quit' = TRUE
    /\ late' = IF pc \in {"trim", "entry"} THEN late \cup {run} ELSE late
    /\ silent' = IF pc \in {"record", "runfiles"} THEN silent ELSE silent \cup {run}
    /\ IF pc \in {"agent", "record"} THEN MayTear ELSE UNCHANGED costs
    /\ UNCHANGED <<clock, cur, left, dir, remote, forgot, owed>>

\* _write_run_files begins with record_run, outside any try: when it raises, the
\* process exits with a traceback and writes none of the rest.  A line appended to part
\* of another is joined to it, and the reader skips both (unless the line of a model
\* call has been joined to it before).
RecordRun ==
    /\ pc = "record"
    /\ \/ /\ \E joined \in {FALSE, costs.torn} :
               LET lines == IF joined THEN {} ELSE {run}
               IN  /\ costs' = [runs |-> costs.runs \cup lines, torn |-> FALSE]
                   /\ owed' = owed \cup lines
          /\ pc' = "runfiles"
          /\ UNCHANGED code
       \/ /\ pc' = "commit"
          /\ code' = 1
          /\ MayTear
          /\ UNCHANGED owed
    /\ UNCHANGED <<clock, quit, cur, left, dir, remote, late, silent, forgot>>

\* costs-summary.json is rolled up from the checkout's log; schema.json, trace.json
\* and trace.schema.json are written beside it.  A failure is logged, no more.
WriteRunFiles ==
    /\ pc = "runfiles"
    /\ \/ dir' = [dir EXCEPT !.summary = costs.runs]
       \/ UNCHANGED dir
    /\ pc' = "commit"
    /\ UNCHANGED <<clock, exit, cur, left, costs, remote, history>>

CommitOnSuccess ==  \* mutant: a failed run's cost log is not committed
    /\ pc = "commit"
    /\ repoCosts' = IF code = 0 THEN costs ELSE repoCosts
    /\ pc' = "publish"
    /\ UNCHANGED <<clock, exit, cur, left, dir, costs, branch, history>>

\* "Commit local run state", either way.  When all four pushes fail the step still
\* succeeds and the job goes on.
Commit ==
    /\ pc = "commit"
    /\ \/ repoCosts' = costs /\ UNCHANGED owed
       \/ UNCHANGED repoCosts /\ owed' = owed \ {run}
    /\ pc' = "publish"
    /\ UNCHANGED <<clock, exit, cur, left, dir, costs, branch, late, silent, forgot>>

\* The job is over and its checkout is gone.
Over ==
    /\ pc' = "idle"
    /\ code' = 0 /\ quit' = FALSE
    /\ cur' = Nothing
    /\ left' = {}
    /\ dir' = Empty
    /\ costs' = NoLog

\* "Publish data branch": the whole publish dir, as one forced commit; the step is skipped
\* when the dir has no file at all (it may have a trace.json or a schema.json alone).
Publish ==
    /\ pc = "publish"
    /\ \/ branch' = dir
       \/ dir = Empty /\ UNCHANGED branch
    /\ Over
    /\ UNCHANGED <<clock, repoCosts, history>>

\* A step of the job fails, or the job is cancelled, and takes a cost log that was
\* not pushed with it.
JobDies ==
    /\ pc # "idle"
    /\ Over
    /\ owed' = IF pc = "publish" THEN owed ELSE owed \ {run}
    /\ UNCHANGED <<clock, remote, late, silent, forgot>>

Next ==
    \/ Restore \/ Begin
    \/ \E d \in Data, names \in SUBSET Names, today \in day..MaxDay : Build(d, names, today)
    \/ \E n \in Names : WriteFile(n)
    \/ WriteHistory \/ WriteLatest \/ Trim \/ WriteEntry
    \/ Fail \/ WriteFailedEntry \/ Killed \/ RecordRun \/ WriteRunFiles
    \/ Commit \/ Publish \/ JobDies

Spec == Init /\ [][Next]_vars

\* Of the runs TLC explores, those with few faults of the kinds the histories note, and
\* one of each two that differ in the names of the data.
FewFaults == Cardinality(late) + Cardinality(silent) + Cardinality(forgot) <= MaxFaults
Renamings == Permutations(Data)
-----------------------------------------------------------------------------
\* Whatever failed on the way, the published latest.json names no missing file:
\* "a failure part-way through never leaves a new latest.json pointing at missing
\* files" (publish.py:20-21).
LatestComplete == branch.latest.names \subseteq branch.files

\* A manifest entry that is not marked failed speaks of the published latest.json,
\* and the history holds that very output (unless history_keep is zero) and no more
\* than history_keep snapshots (publish.py:93-118, runner.py:232-241); unless a later
\* run was killed, or failed and could not write its failed entry either.
EntryMatchesLatest ==
    branch.entry.status = "ok" /\ (\A r \in silent : r < branch.entry.run) =>
        /\ branch.entry.run = branch.latest.run
        /\ HistoryKeep > 0 => branch.history[branch.latest.day] = branch.latest.run
        /\ Cardinality({d \in 1..MaxDay : branch.history[d] # 0}) <= HistoryKeep

\* "manifest-entry.json keeps last_data_change_at across no-change runs"
\* (README.md:699), and across failed and lost ones: it is the run that brought the
\* published data to the branch, unless that run failed after it had written latest.json.
\* A run since then that could not read the previous entry (an ls-remote that failed, an
\* entry that does not validate) leaves none, or its own time, since it found nothing to
\* compare the data with.
LastChangeKept ==
    \/ branch.entry.change = branch.latest.since
    \/ branch.latest.since \in late
    \/ \E r \in forgot : branch.latest.since < r /\ branch.entry.change \in {0, r}

\* Unless code of the agent has raised SystemExit(0), agents-run exits with 0 only when its
\* output, snapshot and entry are in the publish dir (or nothing was to be published), and
\* with 1 when the manifest says failed for this run; with 2 it has touched nothing.
ExitCodeTold ==
    pc \in {"commit", "publish"} /\ ~ quit =>
        /\ code = 0 /\ cur # Nothing =>
             /\ dir.latest = cur.latest /\ dir.entry = cur.entry
             /\ HistoryKeep > 0 => dir.history[cur.latest.day] = run
        /\ dir.entry.run = run /\ dir.entry.status = "failed" => code = 1
        /\ code = 2 => dir \in {branch, Empty}

\* The published costs-summary.json has no holes: it counts every run recorded
\* before the last one it counts, failed runs included, save those whose log was lost
\* with their job or by four failed pushes, or whose line was appended to part of another
\* (costs.py:175-188, 238-242, run-agent.yml).
SummaryComplete ==
    \A r \in owed, s \in branch.summary : r <= s => r \in branch.summary

\* "Any exception ... fails the run: the previous latest.json is left untouched"
\* (runner.py:8-10).
FailedKeepsLatest == pc = "failed" => dir.latest.run # run
=============================================================================
