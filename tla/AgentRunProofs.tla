--------------------------- MODULE AgentRunProofs --------------------------
(***************************************************************************)
(* What an agent's runs publish is complete, says what it is and forgets   *)
(* nothing, for any number of runs and days, any extra files and any       *)
(* history_keep, whatever step of whichever run fails, is killed or is     *)
(* cancelled.                                                              *)
(***************************************************************************)
EXTENDS AgentRun, FiniteSetTheorems, TLAPS

\* The run has an output, and its entry is not in the publish dir yet.
Building == {"files", "latest", "trim", "entry"}
Unentered == Building \cup {"start", "agent", "failed"}
\* latest.json is still what the job restored.
Restored == {"start", "agent", "files", "latest"}
\* The publish dir is being written: it does not say yet what its entry says.
Torn == {"latest", "trim", "entry", "failed"}
\* The run's record may be in the checkout's cost log only.
Recorded == {"runfiles", "commit"}

\* Entries are of runs that were, and of this one only once it is written.
EntriesPast ==
    /\ branch.entry.run <= run /\ dir.entry.run <= run
    /\ pc # "idle" => branch.entry.run < run
    /\ pc \in Unentered => dir.entry.run < run

\* What the run has built is of this run and of a day that was.
BuiltNow ==
    /\ pc \in {"start", "agent"} => cur = Nothing
    /\ pc \in Building => /\ cur.latest.run = run /\ cur.latest.day \in 1..day
                          /\ cur.entry.run = run /\ cur.entry.status = "ok"
    /\ pc \in {"trim", "entry"} => dir.latest = cur.latest

\* latest.json, wherever it is, names files that are there.
Complete(d) == d.latest.names \subseteq d.files
FilesThere ==
    /\ Complete(dir) /\ Complete(branch)
    /\ pc = "files" => cur.latest.names \ left \subseteq dir.files
    /\ pc = "latest" => cur.latest.names \subseteq dir.files

\* No snapshot is of a day to come, nor of one after the day the output says.
SnapshotsOf(d) == {x \in 1..MaxDay : d.history[x] # 0}
SnapshotsPast ==
    /\ \A x \in SnapshotsOf(dir) \cup SnapshotsOf(branch) : x <= day
    /\ pc \in Building => \A x \in SnapshotsOf(dir) : x <= cur.latest.day

\* This run's snapshot is there and stays, and trimming leaves no more than it should.
SnapshotKept ==
    /\ pc \in {"latest", "trim", "entry"} /\ HistoryKeep > 0 =>
           dir.history[cur.latest.day] = run
    /\ pc = "entry" => Cardinality(SnapshotsOf(dir)) <= HistoryKeep

\* A directory whose entry is ok says what its latest.json and its history say.
Told(d) ==
    /\ d.entry.run = d.latest.run
    /\ HistoryKeep > 0 => d.history[d.latest.day] = d.latest.run
    /\ Cardinality(SnapshotsOf(d)) <= HistoryKeep
Spoken(d) == d.entry.status = "ok" /\ \A r \in silent : r < d.entry.run
EntriesTell ==
    /\ Spoken(branch) => Told(branch)
    /\ (pc \notin Torn /\ Spoken(dir)) => Told(dir)

\* The data is from no run to come, nor from this one while it has no latest.json, and a
\* run that knows nothing of the branch has forgotten it.
SincePast ==
    /\ branch.latest.since <= run /\ dir.latest.since <= run
    /\ pc # "idle" => branch.latest.since < run
    /\ pc \in Restored => dir.latest.since < run
    /\ pc = "failed" => dir.latest.since < run \/ dir.latest.since \in late
    /\ pc \in Building => cur.latest.since <= run
    /\ pc \in {"start", "agent"} => \/ dir = branch
                                    \/ dir = Empty /\ run \in forgot

\* The entry knows which run brought the data, unless that one failed too late or one
\* after it forgot.
Known(change, since) ==
    \/ change = since
    \/ since \in late
    \/ \E r \in forgot : since < r /\ change \in {0, r}
ChangesKnown ==
    /\ Known(branch.entry.change, branch.latest.since)
    /\ pc \notin {"trim", "entry"} => Known(dir.entry.change, dir.latest.since)
    /\ pc \in Building => /\ Known(cur.entry.change, cur.latest.since)
                          /\ \/ cur.latest.since = run
                             \/ Known(dir.entry.change, cur.latest.since)

\* The exit code is settled before it is told.
Outcome == {"record", "runfiles", "commit", "publish"}
CodeSettled ==
    /\ pc = "failed" => code = 1
    /\ code = 2 => pc \in {"commit", "publish"} /\ dir \in {branch, Empty}
    /\ pc \in Outcome /\ ~ quit =>
        /\ code = 0 /\ cur # Nothing =>
             /\ dir.latest = cur.latest /\ dir.entry = cur.entry
             /\ HistoryKeep > 0 => dir.history[cur.latest.day] = run
        /\ dir.entry.run = run /\ dir.entry.status = "failed" => code = 1

\* No run that is owed is missing where it should have been written.
CostsKept ==
    /\ \A r \in UNION {owed, costs.runs, repoCosts.runs, branch.summary, dir.summary} : r <= run
    /\ \A r \in owed : (r = run /\ pc \in Recorded) \/ r \in repoCosts.runs
    /\ pc # "idle" => repoCosts.runs \subseteq costs.runs
    /\ pc \in Recorded => owed \subseteq costs.runs

\* A summary leaves out no run before the last one it counts.
NoHoles(s) == \A r \in owed, last \in s : r <= last => r \in s
SummariesWhole ==
    /\ pc \notin {"idle", "commit", "publish"} => run \notin dir.summary
    /\ pc # "idle" => run \notin branch.summary
    /\ NoHoles(dir.summary) /\ NoHoles(branch.summary)

\* The inductive invariant.
IInv ==
    /\ TypeOK
    /\ EntriesPast /\ BuiltNow
    /\ FilesThere
    /\ SnapshotsPast /\ SnapshotKept /\ EntriesTell
    /\ SincePast /\ ChangesKnown
    /\ CodeSettled
    /\ CostsKept /\ SummariesWhole
-----------------------------------------------------------------------------
\* What nothing has been written to is well typed.
LEMMA NothingType ==
    /\ NoLatest \in Latests /\ NoEntry \in Entries
    /\ Empty \in Dirs /\ Nothing \in [latest : Latests, entry : Entries]
    /\ NoLog \in Logs
  BY AgentRunAssumption
  DEF NoLog, Logs, NoLatest, NoEntry, Empty, Nothing, Latests, Entries, Dirs, Runs

\* Every step keeps the types; a snapshot's day is one because the output's is.
LEMMA TypeStep ==
    ASSUME TypeOK, BuiltNow, [Next]_vars
    PROVE  TypeOK'
<1> DEFINE Plain == /\ day \in 1..MaxDay /\ run \in Runs /\ pc \in Steps /\ code \in 0..2
                    /\ quit \in BOOLEAN
                    /\ left \subseteq Names
           Output == cur \in [latest : Latests, entry : Entries]
           Written == dir \in Dirs /\ branch \in Dirs
           RunSets == /\ late \subseteq Runs /\ silent \subseteq Runs
                      /\ forgot \subseteq Runs /\ owed \subseteq Runs
           Logged == costs \in Logs /\ repoCosts \in Logs
<1>1. Plain /\ Output /\ Written /\ RunSets /\ Logged
  BY DEF TypeOK
<1>2. CASE Next
  <2> USE <1>1, <1>2, AgentRunAssumption, NothingType
      DEF Next, Restore, Begin, WriteFile, WriteHistory, WriteLatest, Trim, WriteEntry,
          Fail, WriteFailedEntry, Killed, RecordRun, WriteRunFiles, Commit, Publish, JobDies,
          Over, MayTear, PreviousChange, clock, exit, remote, history
  <2>1. CASE \E d \in Data, names \in SUBSET Names, today \in day..MaxDay :
               Build(d, names, today)
    <3>1. PICK d \in Data, names \in SUBSET Names, today \in day..MaxDay :
            Build(d, names, today)
      BY <2>1
    <3>2. PICK change \in Runs :
            /\ PreviousChange(change)
            /\ cur' = [latest |-> [run |-> run, data |-> d, names |-> names, day |-> today,
                                   since |-> Since(d)],
                       entry |-> [run |-> run, status |-> "ok",
                                  change |-> IF Changed(d) THEN run ELSE change]]
      BY <3>1 DEF Build
    <3>3. Since(d) \in Runs /\ today \in 0..MaxDay /\ today \in 1..MaxDay
      BY DEF Since, Dirs, Latests
    <3>4. cur' \in [latest : Latests, entry : Entries]
      BY <3>2, <3>3 DEF Latests, Entries
    <3>5. /\ day' = today /\ run' = run /\ pc' = "files" /\ left' = names
          /\ UNCHANGED <<code, quit, dir, costs, branch, repoCosts, late, silent, owed>>
      BY <3>1 DEF Build
    <3>6. forgot' \subseteq Runs
      BY <3>2
    <3>7. pc' \in Steps
      BY <3>5 DEF Steps
    <3> QED BY <3>3, <3>4, <3>5, <3>6, <3>7 DEF TypeOK
  <2>2. CASE ~ \E d \in Data, names \in SUBSET Names, today \in day..MaxDay :
                 Build(d, names, today)
    <3>1. Plain'
      <4>1. UNCHANGED day
        BY <2>2
      <4>2. run' \in Runs
        BY <2>2 DEF Runs
      <4>3. pc' \in Steps
        BY <2>2 DEF Steps
      <4>4. code' \in 0..2
        BY <2>2
      <4>5. quit' \in BOOLEAN
        BY <2>2
      <4>6. left' \subseteq Names
        BY <2>2
      <4> QED BY <4>1, <4>2, <4>3, <4>4, <4>5, <4>6
    <3>2. Output'
      BY <2>2
    <3>3. RunSets'
      <4>1. late' \subseteq Runs
        BY <2>2
      <4>2. silent' \subseteq Runs
        BY <2>2
      <4>3. forgot' \subseteq Runs
        BY <2>2 DEF Runs
      <4>4. owed' \subseteq Runs
        BY <2>2
      <4> QED BY <4>1, <4>2, <4>3, <4>4
    <3>4. Logged'
      <4>1. [costs EXCEPT !.torn = TRUE] \in Logs
        BY DEF Logs
      <4>2. CASE RecordRun
        <5>1. ASSUME NEW lines \in {{}, {run}}
              PROVE  [runs |-> costs.runs \cup lines, torn |-> FALSE] \in Logs
          BY DEF Logs
        <5> QED BY <4>1, <4>2, <5>1
      <4>3. CASE ~ RecordRun
        BY <2>2, <4>1, <4>3
      <4> QED BY <4>2, <4>3
    <3>5. Written'
      <4>1. ASSUME NEW x \in 1..MaxDay, NEW r \in Runs
            PROVE  [dir EXCEPT !.history[x] = r] \in Dirs
        BY DEF Dirs
      <4>2. ASSUME WriteHistory PROVE cur.latest.day \in 1..MaxDay
        BY <4>2 DEF BuiltNow, Building
      <4>3. CASE WriteHistory
        BY <4>1, <4>2, <4>3
      <4>4. CASE Trim
        BY <4>1, <4>4 DEF Snapshots, Runs
      <4>5. CASE \E n \in Names : WriteFile(n)
        <5>1. PICK n \in Names : dir' = [dir EXCEPT !.files = @ \cup {n}] /\ UNCHANGED branch
          BY <4>5
        <5>2. dir.files \cup {n} \subseteq Names
          BY DEF Dirs
        <5> QED BY <5>1, <5>2 DEF Dirs
      <4>6. CASE WriteLatest
        BY <4>6 DEF Dirs
      <4>7. CASE WriteEntry
        BY <4>7 DEF Dirs
      <4>8. CASE WriteFailedEntry
        <5>1. ASSUME NEW change \in Runs
              PROVE  [dir EXCEPT !.entry = [run |-> run, status |-> "failed",
                                            change |-> change]] \in Dirs
          BY DEF Dirs, Entries
        <5> QED BY <4>8, <5>1
      <4>9. CASE WriteRunFiles
        <5>1. [dir EXCEPT !.summary = costs.runs] \in Dirs
          BY DEF Dirs, Logs
        <5> QED BY <4>9, <5>1
      <4>10. CASE Restore \/ Publish \/ JobDies
        BY <4>10
      <4>11. CASE Begin \/ Fail \/ Killed \/ RecordRun \/ Commit
        BY <4>11
      <4> QED BY <2>2, <4>3, <4>4, <4>5, <4>6, <4>7, <4>8, <4>9, <4>10, <4>11
    <3> QED BY <3>1, <3>2, <3>3, <3>4, <3>5 DEF TypeOK
  <2> QED BY <2>1, <2>2
<1>3. CASE UNCHANGED vars
  BY <1>1, <1>3 DEF TypeOK, vars, clock, exit, remote, history
<1> QED BY <1>2, <1>3

\* The entry of a run appears only once the run has an outcome.
LEMMA EntriesPastStep ==
    ASSUME TypeOK, EntriesPast, BuiltNow, [Next]_vars
    PROVE  EntriesPast'
<1> USE DEF TypeOK, Dirs, Entries, Runs, Steps, EntriesPast, BuiltNow, Unentered, Building,
            vars, clock, exit, remote, history
<1>1. ASSUME Restore PROVE EntriesPast'
  BY <1>1 DEF Restore, Nothing, NoLatest, NoEntry, Empty
<1>2. ASSUME WriteEntry PROVE EntriesPast'
  BY <1>2 DEF WriteEntry
<1>3. ASSUME WriteFailedEntry PROVE EntriesPast'
  BY <1>3 DEF WriteFailedEntry
<1>4. ASSUME Publish PROVE EntriesPast'
  BY <1>4 DEF Publish, Over, Nothing, NoLatest, NoEntry, Empty
<1>5. ASSUME JobDies PROVE EntriesPast'
  BY <1>5 DEF JobDies, Over, Nothing, NoLatest, NoEntry, Empty
<1>6. CASE \/ Begin \/ (\E d \in Data, names \in SUBSET Names, today \in day..MaxDay :
                 Build(d, names, today))
           \/ (\E n \in Names : WriteFile(n)) \/ WriteHistory \/ WriteLatest \/ Trim
           \/ Fail \/ Killed \/ RecordRun \/ WriteRunFiles \/ Commit
           \/ UNCHANGED vars
  BY <1>6 DEF Begin, Build, WriteFile, WriteHistory, WriteLatest, Trim, Fail, Killed,
     RecordRun, WriteRunFiles, Commit
<1> QED BY <1>1, <1>2, <1>3, <1>4, <1>5, <1>6 DEF Next

\* What is built stays what it is until the job is over.
LEMMA BuiltNowStep ==
    ASSUME TypeOK, BuiltNow, [Next]_vars
    PROVE  BuiltNow'
<1> USE DEF TypeOK, Dirs, Runs, Steps, BuiltNow, Building, vars, clock, exit, remote, history
<1>1. ASSUME Restore PROVE BuiltNow'
  BY <1>1 DEF Restore, Nothing, NoLatest, NoEntry, Empty
<1>2. ASSUME NEW d \in Data, NEW names \in SUBSET Names, NEW today \in day..MaxDay,
              Build(d, names, today)
       PROVE  BuiltNow'
  BY <1>2 DEF Build
<1>3. ASSUME WriteLatest PROVE BuiltNow'
  BY <1>3 DEF WriteLatest
<1>4. ASSUME Publish PROVE BuiltNow'
  BY <1>4 DEF Publish, Over, Nothing, NoLatest, NoEntry, Empty
<1>5. ASSUME JobDies PROVE BuiltNow'
  BY <1>5 DEF JobDies, Over, Nothing, NoLatest, NoEntry, Empty
<1>6. CASE \/ Begin \/ (\E n \in Names : WriteFile(n)) \/ WriteHistory \/ Trim
           \/ WriteEntry \/ Fail \/ WriteFailedEntry \/ Killed \/ RecordRun
           \/ WriteRunFiles \/ Commit \/ UNCHANGED vars
  BY <1>6 DEF Begin, WriteFile, WriteHistory, Trim, WriteEntry, Fail, WriteFailedEntry,
     Killed, RecordRun, WriteRunFiles, Commit
<1> QED BY <1>1, <1>2, <1>3, <1>4, <1>5, <1>6 DEF Next

\* Extra files come before the latest.json that names them, and stay.
LEMMA FilesThereStep ==
    ASSUME TypeOK, FilesThere, BuiltNow, [Next]_vars
    PROVE  FilesThere'
<1> USE DEF TypeOK, Dirs, Steps, FilesThere, BuiltNow, Building, Complete, vars, clock,
            exit, remote, history
<1>1. ASSUME Restore PROVE FilesThere'
  BY <1>1 DEF Restore, Nothing, NoLatest, NoEntry, Empty
<1>2. ASSUME NEW d \in Data, NEW names \in SUBSET Names, NEW today \in day..MaxDay,
              Build(d, names, today)
       PROVE  FilesThere'
  BY <1>2 DEF Build
<1>3. ASSUME NEW n \in Names, WriteFile(n) PROVE FilesThere'
  BY <1>3 DEF WriteFile
<1>4. ASSUME WriteHistory PROVE FilesThere'
  BY <1>4 DEF WriteHistory
<1>5. ASSUME WriteLatest PROVE FilesThere'
  BY <1>5 DEF WriteLatest
<1>6. ASSUME Publish PROVE FilesThere'
  BY <1>6 DEF Publish, Over, Nothing, NoLatest, NoEntry, Empty
<1>7. ASSUME JobDies PROVE FilesThere'
  BY <1>7 DEF JobDies, Over, Nothing, NoLatest, NoEntry, Empty
<1>8. CASE \/ Begin \/ Trim \/ WriteEntry \/ Fail \/ WriteFailedEntry \/ Killed
           \/ RecordRun \/ WriteRunFiles \/ Commit \/ UNCHANGED vars
  BY <1>8 DEF Begin, Trim, WriteEntry, Fail, WriteFailedEntry, Killed, RecordRun,
     WriteRunFiles, Commit
<1> QED BY <1>1, <1>2, <1>3, <1>4, <1>5, <1>6, <1>7, <1>8 DEF Next

\* An empty publish dir holds no snapshot and speaks of nothing.
LEMMA EmptyFacts ==
    /\ SnapshotsOf(Empty) = {}
    /\ Empty.entry.status = "none" /\ Empty.entry.run = 0
  BY DEF SnapshotsOf, Empty, NoEntry

\* Snapshots are written for the day of the output, never for a later one.
LEMMA SnapshotsPastStep ==
    ASSUME TypeOK, BuiltNow, SnapshotsPast, [Next]_vars
    PROVE  SnapshotsPast'
<1> USE DEF TypeOK, Dirs, Steps, Runs, SnapshotsPast, SnapshotsOf, BuiltNow, Building,
            vars, clock, exit, remote, history
<1>1. ASSUME Restore PROVE SnapshotsPast'
  <2>1. (dir' = branch \/ dir' = Empty) /\ pc' = "start" /\ UNCHANGED <<branch, day>>
    BY <1>1 DEF Restore
  <2>2. SnapshotsOf(dir') \subseteq SnapshotsOf(branch)
    BY <2>1, EmptyFacts
  <2> QED BY <2>1, <2>2
<1>2. ASSUME NEW d \in Data, NEW names \in SUBSET Names, NEW today \in day..MaxDay,
              Build(d, names, today)
       PROVE  SnapshotsPast'
  BY <1>2 DEF Build
<1>3. ASSUME WriteHistory PROVE SnapshotsPast'
  BY <1>3 DEF WriteHistory
<1>4. ASSUME Trim PROVE SnapshotsPast'
  <2>1. SnapshotsOf(dir)' \subseteq SnapshotsOf(dir)
    <3>1. CASE UNCHANGED dir
      BY <3>1
    <3>2. CASE \E d \in Snapshots : dir' = [dir EXCEPT !.history[d] = 0]
      BY <3>2 DEF Snapshots
    <3> QED BY <1>4, <3>1, <3>2 DEF Trim
  <2> QED BY <1>4, <2>1 DEF Trim
<1>5. ASSUME Publish PROVE SnapshotsPast'
  BY <1>5 DEF Publish, Over, Nothing, NoLatest, NoEntry, Empty
<1>6. ASSUME JobDies PROVE SnapshotsPast'
  BY <1>6 DEF JobDies, Over, Nothing, NoLatest, NoEntry, Empty
<1>7. CASE \/ Begin \/ (\E n \in Names : WriteFile(n)) \/ WriteLatest \/ WriteEntry \/ Fail
           \/ WriteFailedEntry \/ Killed \/ RecordRun \/ WriteRunFiles \/ Commit
           \/ UNCHANGED vars
  BY <1>7 DEF Begin, WriteFile, WriteLatest, WriteEntry, Fail, WriteFailedEntry, Killed,
     RecordRun, WriteRunFiles, Commit
<1> QED BY <1>1, <1>2, <1>3, <1>4, <1>5, <1>6, <1>7 DEF Next

\* Snapshots can be counted.
LEMMA SnapshotsFinite == Cardinality(SnapshotsOf(dir)) \in Nat
<1>1. SnapshotsOf(dir) \subseteq 1..MaxDay /\ IsFiniteSet(1..MaxDay)
  BY AgentRunAssumption, FS_Interval DEF SnapshotsOf
<1> QED BY <1>1, FS_Subset, FS_CardinalityType

\* Trimming takes the oldest snapshot, which is this run's only when it is the only one:
\* and then there is nothing to trim.
LEMMA SnapshotKeptStep ==
    ASSUME TypeOK, BuiltNow, SnapshotsPast, SnapshotKept, [Next]_vars
    PROVE  SnapshotKept'
<1> USE DEF TypeOK, Dirs, Steps, Runs, SnapshotKept, SnapshotsOf, BuiltNow, Building, vars,
            clock, exit, remote, history
<1>1. ASSUME Restore PROVE SnapshotKept'
  BY <1>1 DEF Restore, Nothing, NoLatest, NoEntry, Empty
<1>2. ASSUME WriteHistory PROVE SnapshotKept'
  <2>1. 1..day \subseteq 1..MaxDay /\ cur.latest.day \in 1..day
    BY <1>2, AgentRunAssumption DEF WriteHistory
  <2>2. cur.latest.day \in 1..MaxDay /\ cur' = cur /\ run' = run /\ pc' = "latest"
    BY <1>2, <2>1 DEF WriteHistory
  <2>3. dir'.history = [dir.history EXCEPT ![cur.latest.day] = run]
    BY <1>2 DEF WriteHistory
  <2>4. dir'.history[cur.latest.day] = run
    BY <2>2, <2>3
  <2> QED BY <2>2, <2>4
<1>3. ASSUME WriteLatest PROVE SnapshotKept'
  BY <1>3 DEF WriteLatest
<1>4. ASSUME Trim PROVE SnapshotKept'
  <2>1. Snapshots = SnapshotsOf(dir) /\ Cardinality(Snapshots) \in Nat
    BY SnapshotsFinite DEF Snapshots
  <2>2. CASE Cardinality(Snapshots) > HistoryKeep
    <3>1. PICK d \in Snapshots : /\ \A e \in Snapshots : d <= e
                                /\ dir' = [dir EXCEPT !.history[d] = 0]
                                /\ pc' = "trim" /\ UNCHANGED <<run, cur>>
      BY <1>4, <2>2 DEF Trim
    <3>2. ASSUME HistoryKeep > 0 PROVE d # cur.latest.day
      <4> SUFFICES ASSUME d = cur.latest.day PROVE FALSE
        OBVIOUS
      <4>1. \A e \in Snapshots : e = d
        BY <1>4, <2>1, <3>1 DEF Trim, SnapshotsPast
      <4>2. Snapshots = {d}
        BY <4>1
      <4>3. Cardinality({d}) = 1
        BY FS_Singleton
      <4> QED BY <2>2, <3>2, <4>2, <4>3, AgentRunAssumption
    <3> QED BY <1>4, <3>1, <3>2 DEF Trim
  <2>3. CASE ~ (Cardinality(Snapshots) > HistoryKeep)
    BY <1>4, <2>1, <2>3, AgentRunAssumption DEF Trim
  <2> QED BY <2>2, <2>3
<1>5. ASSUME Publish PROVE SnapshotKept'
  BY <1>5 DEF Publish, Over, Nothing, NoLatest, NoEntry, Empty
<1>6. ASSUME JobDies PROVE SnapshotKept'
  BY <1>6 DEF JobDies, Over, Nothing, NoLatest, NoEntry, Empty
<1>7. CASE \/ Begin \/ (\E d \in Data, names \in SUBSET Names, today \in day..MaxDay :
                 Build(d, names, today))
           \/ (\E n \in Names : WriteFile(n)) \/ WriteEntry \/ Fail \/ WriteFailedEntry
           \/ Killed \/ RecordRun \/ WriteRunFiles \/ Commit \/ UNCHANGED vars
  BY <1>7 DEF Begin, Build, WriteFile, WriteEntry, Fail, WriteFailedEntry, Killed,
     RecordRun, WriteRunFiles, Commit
<1> QED BY <1>1, <1>2, <1>3, <1>4, <1>5, <1>6, <1>7 DEF Next

\* An entry is written once what it tells is in place; a run that leaves the directory
\* torn says failed, or is silent.
LEMMA EntriesTellStep ==
    ASSUME TypeOK, BuiltNow, EntriesPast, SnapshotKept, EntriesTell, [Next]_vars
    PROVE  EntriesTell'
<1> USE DEF TypeOK, Dirs, Entries, Steps, Runs, EntriesTell, Spoken, Told, SnapshotsOf,
            BuiltNow, Building, Torn, EntriesPast, Unentered, PreviousChange, vars, clock,
            exit, remote, history
<1>1. ASSUME Restore PROVE EntriesTell'
  <2>1. (dir' = branch \/ dir' = Empty) /\ pc' = "start" /\ UNCHANGED <<branch, silent>>
    BY <1>1 DEF Restore
  <2>2. Spoken(branch)' => Told(branch)'
    BY <2>1
  <2>3. Spoken(dir)' => Told(dir)'
    <3>1. CASE dir' = Empty
      BY <3>1, EmptyFacts
    <3>2. CASE dir' = branch
      BY <2>1, <3>2
    <3> QED BY <2>1, <3>1, <3>2
  <2> HIDE DEF Spoken, Told
  <2> QED BY <2>2, <2>3
<1>2. ASSUME NEW n \in Names, WriteFile(n) PROVE EntriesTell'
  BY <1>2 DEF WriteFile
<1>3. ASSUME WriteHistory PROVE EntriesTell'
  BY <1>3 DEF WriteHistory
<1>4. ASSUME WriteLatest PROVE EntriesTell'
  BY <1>4 DEF WriteLatest
<1>5. ASSUME Trim PROVE EntriesTell'
  BY <1>5 DEF Trim
<1>6. ASSUME WriteEntry PROVE EntriesTell'
  <2>1. /\ dir'.entry = cur.entry /\ dir'.latest = dir.latest /\ dir'.history = dir.history
        /\ dir.latest = cur.latest /\ cur.entry.run = run /\ cur.latest.run = run
    BY <1>6 DEF WriteEntry
  <2>2. SnapshotsOf(dir') = SnapshotsOf(dir)
    BY <2>1
  <2>3. Told(dir')
    BY <1>6, <2>1, <2>2 DEF WriteEntry, SnapshotKept
  <2> QED BY <1>6, <2>3 DEF WriteEntry
<1>7. ASSUME WriteFailedEntry PROVE EntriesTell'
  <2>1. CASE dir'.entry.status = "failed"
    BY <1>7, <2>1 DEF WriteFailedEntry
  <2>2. CASE UNCHANGED dir /\ silent' = silent \cup {run}
    <3>1. run \in silent' /\ dir' = dir
      BY <1>7, <2>2 DEF WriteFailedEntry
    <3>2. dir.entry.run < run /\ {dir.entry.run, run} \subseteq Nat
      BY <1>7, <2>2 DEF WriteFailedEntry
    <3>3. ~ (run < dir.entry.run)
      BY <3>2
    <3>4. ~ Spoken(dir)'
      BY <3>1, <3>3
    <3>5. Spoken(branch)' => Spoken(branch)
      BY <1>7, <2>2 DEF WriteFailedEntry
    <3> QED BY <1>7, <3>4, <3>5 DEF WriteFailedEntry
  <2> QED BY <1>7, <2>1, <2>2 DEF WriteFailedEntry
<1>8. ASSUME Killed PROVE EntriesTell'
  <2>1. Spoken(branch)' => Spoken(branch)
    BY <1>8 DEF Killed
  <2>2. CASE pc \in {"record", "runfiles"}
    BY <1>8, <2>2 DEF Killed
  <2>3. CASE pc \in Unentered
    <3>1. run \in silent' /\ dir' = dir
      BY <1>8, <2>3 DEF Killed
    <3>2. dir.entry.run < run /\ {dir.entry.run, run} \subseteq Nat
      BY <1>8, <2>3 DEF Killed
    <3>3. ~ (run < dir.entry.run)
      BY <3>2
    <3>4. ~ Spoken(dir)'
      BY <3>1, <3>3
    <3> QED BY <1>8, <2>1, <3>4 DEF Killed
  <2> QED BY <1>8, <2>2, <2>3 DEF Killed
<1>9. ASSUME WriteRunFiles PROVE EntriesTell'
  <2>1. dir'.entry = dir.entry /\ dir'.latest = dir.latest /\ dir'.history = dir.history
    BY <1>9 DEF WriteRunFiles
  <2>2. SnapshotsOf(dir') = SnapshotsOf(dir)
    BY <2>1
  <2> QED BY <1>9, <2>1, <2>2 DEF WriteRunFiles
<1>10. ASSUME Publish PROVE EntriesTell'
  <2>1. branch' \in {branch, dir} /\ pc \notin Torn /\ silent' = silent
    BY <1>10 DEF Publish
  <2>2. Spoken(branch)' => Told(branch)'
    <3>1. CASE branch' = branch
      <4>1. Spoken(branch) => Told(branch)
        OBVIOUS
      <4> QED BY <2>1, <3>1, <4>1
    <3>2. CASE branch' = dir
      <4>1. Spoken(dir) => Told(dir)
        BY <2>1
      <4> QED BY <2>1, <3>2, <4>1
    <3> QED BY <2>1, <3>1, <3>2
  <2>3. ~ Spoken(dir)'
    BY <1>10 DEF Publish, Over, NoEntry, Empty
  <2> QED BY <2>2, <2>3
<1>11. ASSUME JobDies PROVE EntriesTell'
  BY <1>11 DEF JobDies, Over, Nothing, NoLatest, NoEntry, Empty
<1>12. CASE \/ Begin \/ (\E d \in Data, names \in SUBSET Names, today \in day..MaxDay :
                 Build(d, names, today)) \/ Fail
            \/ RecordRun \/ Commit \/ UNCHANGED vars
  <2>1. CASE Begin \/ Fail \/ RecordRun \/ Commit \/ UNCHANGED vars
    BY ZenonT(30), <2>1 DEF Begin, Fail, RecordRun, Commit
  <2>2. CASE \E d \in Data, names \in SUBSET Names, today \in day..MaxDay :
               Build(d, names, today)
    <3>1. UNCHANGED <<dir, branch, silent>> /\ pc = "agent" /\ pc' = "files"
      BY <2>2 DEF Build
    <3> QED BY <3>1
  <2> QED BY <1>12, <2>1, <2>2
<1> QED BY <1>1, <1>2, <1>3, <1>4, <1>5, <1>6, <1>7, <1>8, <1>9, <1>10, <1>11, <1>12 DEF Next

\* What is published is from before the run that publishes next.
LEMMA SincePastStep ==
    ASSUME TypeOK, SincePast, BuiltNow, [Next]_vars
    PROVE  SincePast'
<1> USE DEF TypeOK, Dirs, Latests, Runs, Steps, SincePast, BuiltNow, Building, Restored,
            vars, clock, exit, remote, history
<1>1. ASSUME Restore PROVE SincePast'
  BY <1>1 DEF Restore, Nothing, NoLatest, NoEntry, Empty
<1>2. ASSUME NEW d \in Data, NEW names \in SUBSET Names, NEW today \in day..MaxDay,
             Build(d, names, today)
      PROVE  SincePast'
  <2>1. /\ cur'.latest.since = Since(d) /\ pc' = "files" /\ pc = "agent"
        /\ UNCHANGED <<run, dir, branch, late>>
    BY <1>2 DEF Build
  <2>2. Since(d) \in Nat /\ Since(d) <= run
    BY <2>1 DEF Since
  <2> QED BY <2>1, <2>2
<1>3. ASSUME WriteLatest PROVE SincePast'
  BY <1>3 DEF WriteLatest
<1>4. ASSUME Fail PROVE SincePast'
  BY <1>4 DEF Fail
<1>5. ASSUME Publish PROVE SincePast'
  BY <1>5 DEF Publish, Over, Nothing, NoLatest, NoEntry, Empty
<1>6. ASSUME JobDies PROVE SincePast'
  BY <1>6 DEF JobDies, Over, Nothing, NoLatest, NoEntry, Empty
<1>7. CASE \/ Begin \/ (\E n \in Names : WriteFile(n)) \/ WriteHistory \/ Trim
           \/ WriteEntry \/ WriteFailedEntry \/ Killed \/ RecordRun \/ WriteRunFiles
           \/ Commit \/ UNCHANGED vars
  BY ZenonT(30), <1>7 DEF Begin, WriteFile, WriteHistory, Trim, WriteEntry, WriteFailedEntry,
     Killed, RecordRun, WriteRunFiles, Commit
<1> QED BY <1>1, <1>2, <1>3, <1>4, <1>5, <1>6, <1>7 DEF Next

\* What is known stays known, and a run that forgets makes it known that it did.
LEMMA KnownStays ==
    ASSUME NEW change, NEW since, Known(change, since),
           late \subseteq late', forgot \subseteq forgot'
    PROVE  Known(change, since)'
  BY DEF Known

\* The time of the latest change is handed on from entry to entry.
LEMMA ChangesKnownStep ==
    ASSUME TypeOK, SincePast, ChangesKnown, BuiltNow, [Next]_vars
    PROVE  ChangesKnown'
<1> USE DEF TypeOK, Dirs, Steps, ChangesKnown, BuiltNow, Building, Known, vars, clock,
            exit, remote, history
<1>1. ASSUME Restore PROVE ChangesKnown'
  BY <1>1 DEF Restore, Nothing, NoLatest, NoEntry, Empty
<1>2. ASSUME NEW d \in Data, NEW names \in SUBSET Names, NEW today \in day..MaxDay,
              Build(d, names, today)
       PROVE  ChangesKnown'
  <2>1. PICK change \in Runs :
          /\ PreviousChange(change)
          /\ cur'.latest.since = Since(d)
          /\ cur'.entry.change = IF Changed(d) THEN run ELSE change
    BY <1>2 DEF Build
  <2>2. /\ pc' = "files" /\ pc = "agent" /\ UNCHANGED <<run, dir, branch, late>>
        /\ forgot \subseteq forgot'
    BY <1>2, <2>1 DEF Build, PreviousChange
  <2>3. /\ Known(branch.entry.change, branch.latest.since)'
        /\ Known(dir.entry.change, dir.latest.since)'
    BY <2>2
  <2>4. branch.latest.since < run /\ {branch.latest.since, run} \subseteq Nat
    BY <2>2 DEF SincePast, Latests, Runs
  <2>5. CASE dir = branch
    <3>1. Known(cur.entry.change, cur.latest.since)'
      <4>1. CASE Changed(d)
        BY <2>1, <2>5, <4>1 DEF Changed, Since
      <4>2. CASE ~ Changed(d)
        <5>1. cur'.latest.since = branch.latest.since /\ cur'.entry.change = change
          BY <2>1, <2>5, <4>2 DEF Changed, Since
        <5>2. CASE change = dir.entry.change
          BY <2>3, <2>5, <5>1, <5>2, <2>2
        <5>3. CASE change = 0 /\ run \in forgot'
          BY <2>4, <5>1, <5>3
        <5> QED BY <2>1, <5>2, <5>3 DEF PreviousChange
      <4> QED BY <4>1, <4>2
    <3>2. cur'.latest.since = run' \/ Known(dir.entry.change, cur.latest.since)'
      BY <2>1, <2>2, <2>3, <2>5 DEF Since
    <3> QED BY <2>2, <2>3, <3>1, <3>2
  <2>6. CASE dir = Empty /\ run \in forgot
    <3>1. Changed(d) /\ dir.entry.change = 0 /\ cur'.entry.change = run /\ run \in forgot'
      BY <2>1, <2>2, <2>6, AgentRunAssumption DEF Changed, Empty, NoLatest, NoEntry
    <3>2. cur'.latest.since = run \/ cur'.latest.since = branch.latest.since
      BY <2>1 DEF Since
    <3> QED BY <2>2, <2>3, <2>4, <3>1, <3>2
  <2> QED BY <2>2, <2>5, <2>6 DEF SincePast
<1>3. ASSUME WriteLatest PROVE ChangesKnown'
  BY <1>3 DEF WriteLatest
<1>4. ASSUME WriteEntry PROVE ChangesKnown'
  BY <1>4 DEF WriteEntry
<1>5. ASSUME Fail PROVE ChangesKnown'
  BY <1>5 DEF Fail
<1>6. ASSUME WriteFailedEntry PROVE ChangesKnown'
  <2>1. /\ pc = "failed" /\ pc' = "record" /\ late' = late /\ forgot \subseteq forgot'
        /\ branch' = branch /\ dir'.latest = dir.latest
    BY <1>6 DEF WriteFailedEntry, PreviousChange
  <2>2. Known(branch.entry.change, branch.latest.since)'
    BY <2>1
  <2>3. CASE dir' = dir
    BY <2>1, <2>2, <2>3
  <2>4. CASE \E change \in Runs : PreviousChange(change) /\ dir'.entry.change = change
    <3>1. PICK change \in Runs : PreviousChange(change) /\ dir'.entry.change = change
      BY <2>4
    <3>2. CASE change = dir.entry.change
      BY <2>1, <2>2, <3>1, <3>2
    <3>3. CASE change = 0 /\ run \in forgot'
      <4>1. dir.latest.since < run \/ dir.latest.since \in late
        BY <2>1 DEF SincePast
      <4>2. Known(dir.entry.change, dir.latest.since)'
        BY <2>1, <3>1, <3>3, <4>1
      <4> QED BY <2>1, <2>2, <4>2
    <3> QED BY <3>1, <3>2, <3>3 DEF PreviousChange
  <2> QED BY <1>6, <2>3, <2>4 DEF WriteFailedEntry
<1>7. ASSUME Killed PROVE ChangesKnown'
  BY <1>7 DEF Killed
<1>8. ASSUME Publish PROVE ChangesKnown'
  BY <1>8 DEF Publish, Over, Nothing, NoLatest, NoEntry, Empty
<1>9. ASSUME JobDies PROVE ChangesKnown'
  BY <1>9 DEF JobDies, Over, Nothing, NoLatest, NoEntry, Empty
<1>10. CASE \/ Begin \/ (\E n \in Names : WriteFile(n)) \/ WriteHistory \/ Trim
            \/ RecordRun \/ WriteRunFiles \/ Commit \/ UNCHANGED vars
  BY <1>10 DEF Begin, WriteFile, WriteHistory, Trim, RecordRun, WriteRunFiles, Commit
<1> QED BY <1>1, <1>2, <1>3, <1>4, <1>5, <1>6, <1>7, <1>8, <1>9, <1>10 DEF Next

\* The exit code agrees with what the publish dir says.
LEMMA CodeSettledStep ==
    ASSUME TypeOK, CodeSettled, SincePast, SnapshotKept, EntriesPast, BuiltNow, [Next]_vars
    PROVE  CodeSettled'
<1> USE DEF TypeOK, Dirs, Latests, Entries, Runs, Steps, CodeSettled, Outcome, BuiltNow, Building,
            EntriesPast, Unentered, vars, clock, exit, remote, history
<1>1. ASSUME Begin PROVE CodeSettled'
  <2>1. /\ cur' = Nothing /\ dir \in {branch, Empty} /\ dir.entry.run < run
        /\ {dir.entry.run, run} \subseteq Nat
    BY SMTT(30), <1>1 DEF Begin, SincePast
  <2>2. dir.entry.run # run
    BY SMTT(30), <2>1
  <2>3. pc' \in {"agent", "commit"} /\ UNCHANGED <<dir, branch, run>>
    BY <1>1 DEF Begin
  <2>4. pc' = "agent" => code' = code /\ pc = "start"
    BY <1>1 DEF Begin
  <2> HIDE DEF Dirs, Latests, Entries, BuiltNow, EntriesPast, TypeOK
  <2> QED BY <2>1, <2>2, <2>3, <2>4
<1>2. ASSUME WriteEntry PROVE CodeSettled'
  BY <1>2 DEF WriteEntry, SnapshotKept
<1>3. ASSUME Fail PROVE CodeSettled'
  BY <1>3 DEF Fail
<1>4. ASSUME WriteFailedEntry PROVE CodeSettled'
  BY <1>4 DEF WriteFailedEntry
<1>5. ASSUME Killed PROVE CodeSettled'
  <2>1. pc' = "commit" /\ (code' = 1 \/ quit')
    BY <1>5 DEF Killed
  <2>2. code' # 2
    BY SMTT(30), <1>5 DEF Killed
  <2> QED BY <2>1, <2>2
<1>6. ASSUME RecordRun PROVE CodeSettled'
  <2>1. /\ pc = "record" /\ pc' \in Outcome /\ UNCHANGED <<run, quit, cur, dir, branch>>
        /\ code' = code \/ code' = 1
    BY <1>6 DEF RecordRun
  <2>2. code # 2 /\ pc \in Outcome /\ pc # "failed"
    BY <2>1
  <2> HIDE DEF TypeOK, Dirs, Latests, Entries, BuiltNow, EntriesPast
  <2>3. CASE code' = code
    BY <2>1, <2>2, <2>3
  <2>4. CASE code' = 1
    BY <2>1, <2>2, <2>4
  <2> QED BY <2>1, <2>3, <2>4
<1>7. ASSUME Publish PROVE CodeSettled'
  BY <1>7 DEF Publish, Over, Nothing, NoLatest, NoEntry, Empty
<1>8. ASSUME JobDies PROVE CodeSettled'
  BY <1>8 DEF JobDies, Over, Nothing, NoLatest, NoEntry, Empty
<1>9. CASE \/ Restore \/ (\E d \in Data, names \in SUBSET Names, today \in day..MaxDay :
                 Build(d, names, today))
           \/ (\E n \in Names : WriteFile(n)) \/ WriteHistory \/ WriteLatest \/ Trim
  <2>1. /\ pc' \notin Outcome \cup {"failed"}
        /\ code' = 0 \/ (code' = code /\ pc \notin {"commit", "publish"})
    BY <1>9 DEF Restore, Build, WriteFile, WriteHistory, WriteLatest, Trim
  <2>2. code' # 2
    BY SMTT(30), <2>1
  <2> QED BY <2>1, <2>2
<1>10. ASSUME WriteRunFiles PROVE CodeSettled'
  <2>1. /\ pc = "runfiles" /\ pc' = "commit" /\ UNCHANGED <<run, code, quit, cur, branch>>
        /\ dir'.latest = dir.latest /\ dir'.entry = dir.entry /\ dir'.history = dir.history
    BY <1>10 DEF WriteRunFiles
  <2> QED BY <2>1
<1>11. ASSUME Commit \/ UNCHANGED vars PROVE CodeSettled'
  <2>1. /\ pc' = pc \/ (pc = "commit" /\ pc' = "publish")
        /\ UNCHANGED <<run, code, quit, cur, dir, branch>>
    BY <1>11 DEF Commit
  <2> QED BY <2>1
<1> QED BY <1>1, <1>2, <1>3, <1>4, <1>5, <1>6, <1>7, <1>8, <1>9, <1>10, <1>11 DEF Next

\* What record_run wrote down is in the log that the job pushes.
LEMMA CostsKeptStep ==
    ASSUME TypeOK, CostsKept, [Next]_vars
    PROVE  CostsKept'
<1> USE DEF TypeOK, Dirs, Runs, Logs, MayTear, Steps, CostsKept, Recorded, vars, clock, exit,
            remote, history
<1>1. ASSUME Restore PROVE CostsKept'
  BY <1>1 DEF Restore, Nothing, NoLatest, NoEntry, Empty, NoLog
<1>2. ASSUME RecordRun PROVE CostsKept'
  BY <1>2 DEF RecordRun
<1>3. ASSUME WriteRunFiles PROVE CostsKept'
  BY <1>3 DEF WriteRunFiles
<1>4. ASSUME Commit PROVE CostsKept'
  BY <1>4 DEF Commit
<1>5. ASSUME Publish PROVE CostsKept'
  BY <1>5 DEF Publish, Over, Nothing, NoLatest, NoEntry, Empty, NoLog
<1>6. ASSUME JobDies PROVE CostsKept'
  BY <1>6 DEF JobDies, Over, Nothing, NoLatest, NoEntry, Empty, NoLog
<1>7. CASE \/ Begin \/ (\E d \in Data, names \in SUBSET Names, today \in day..MaxDay :
                 Build(d, names, today))
           \/ (\E n \in Names : WriteFile(n)) \/ WriteHistory \/ WriteLatest \/ Trim
           \/ WriteEntry \/ Fail \/ WriteFailedEntry \/ Killed \/ UNCHANGED vars
  BY <1>7 DEF Begin, Build, WriteFile, WriteHistory, WriteLatest, Trim, WriteEntry, Fail,
     WriteFailedEntry, Killed
<1> QED BY <1>1, <1>2, <1>3, <1>4, <1>5, <1>6, <1>7 DEF Next

\* A summary counts every run in the log it is rolled up from.
LEMMA SummariesWholeStep ==
    ASSUME TypeOK, CostsKept, SummariesWhole, [Next]_vars
    PROVE  SummariesWhole'
<1> USE DEF TypeOK, Dirs, Runs, Logs, MayTear, Steps, CostsKept, Recorded, SummariesWhole,
            NoHoles, vars, clock, exit, remote, history
<1>1. ASSUME Restore PROVE SummariesWhole'
  BY <1>1 DEF Restore, Nothing, NoLatest, NoEntry, Empty, NoLog
<1>2. ASSUME RecordRun PROVE SummariesWhole'
  BY <1>2 DEF RecordRun
<1>3. ASSUME WriteRunFiles PROVE SummariesWhole'
  BY <1>3 DEF WriteRunFiles
<1>4. ASSUME Commit PROVE SummariesWhole'
  BY <1>4 DEF Commit
<1>5. ASSUME Publish PROVE SummariesWhole'
  BY <1>5 DEF Publish, Over, Nothing, NoLatest, NoEntry, Empty, NoLog
<1>6. ASSUME JobDies PROVE SummariesWhole'
  BY <1>6 DEF JobDies, Over, Nothing, NoLatest, NoEntry, Empty, NoLog
<1>7. CASE \/ Begin \/ (\E d \in Data, names \in SUBSET Names, today \in day..MaxDay :
                 Build(d, names, today))
           \/ (\E n \in Names : WriteFile(n)) \/ WriteHistory \/ WriteLatest \/ Trim
           \/ WriteEntry \/ Fail \/ WriteFailedEntry \/ Killed \/ UNCHANGED vars
  BY <1>7 DEF Begin, Build, WriteFile, WriteHistory, WriteLatest, Trim, WriteEntry, Fail,
     WriteFailedEntry, Killed
<1> QED BY <1>1, <1>2, <1>3, <1>4, <1>5, <1>6, <1>7 DEF Next
-----------------------------------------------------------------------------
\* The invariant holds in every state of every sequence of runs.
THEOREM Inductive == Spec => []IInv
<1>1. Init => IInv
  <2> SUFFICES ASSUME Init PROVE IInv
    OBVIOUS
  <2> USE DEF Init, Nothing, Empty, NoLatest, NoEntry
  <2>1. TypeOK
    <3>1. UNION {late, silent, forgot, owed} \subseteq Runs /\ 1 \in 1..MaxDay
      BY AgentRunAssumption
    <3> HIDE DEF Nothing, Empty, NoLatest, NoEntry
    <3>2. costs \in Logs /\ repoCosts \in Logs
      BY NothingType
    <3>3. cur \in [latest : Latests, entry : Entries] /\ dir \in Dirs /\ branch \in Dirs
      BY NothingType
    <3>4. run \in Runs /\ code \in 0..2
      BY AgentRunAssumption DEF Runs
    <3>5. pc \in Steps /\ quit \in BOOLEAN /\ left \subseteq Names
      BY DEF Steps
    <3> QED BY <3>1, <3>2, <3>3, <3>4, <3>5 DEF TypeOK
  <2>2. EntriesPast /\ BuiltNow /\ FilesThere
    BY DEF EntriesPast, BuiltNow, FilesThere, Complete, Unentered, Building
  <2>3. SnapshotsPast /\ SnapshotKept /\ EntriesTell
    BY DEF SnapshotsPast, SnapshotsOf, SnapshotKept, EntriesTell, Spoken, Building
  <2>4. SincePast /\ ChangesKnown /\ CodeSettled
    BY DEF SincePast, Restored, ChangesKnown, Known, CodeSettled, Outcome, Building
  <2>5. CostsKept /\ SummariesWhole
    BY DEF CostsKept, SummariesWhole, NoHoles, Recorded, NoLog
  <2> QED BY <2>1, <2>2, <2>3, <2>4, <2>5 DEF IInv
<1>2. IInv /\ [Next]_vars => IInv'
  BY TypeStep, EntriesPastStep, BuiltNowStep, FilesThereStep, SnapshotsPastStep, SnapshotKeptStep,
     EntriesTellStep, SincePastStep, ChangesKnownStep, CodeSettledStep, CostsKeptStep,
     SummariesWholeStep DEF IInv
<1> QED BY <1>1, <1>2, PTL DEF Spec

\* Every variable keeps its type, whatever fails (runner.py, publish.py).
THEOREM TypeCorrect == Spec => []TypeOK
<1>1. IInv => TypeOK
  BY DEF IInv
<1> QED BY <1>1, Inductive, PTL

\* The published latest.json names no missing file, for any set of extra files and
\* whatever run failed at whatever write (publish.py:20-21).
THEOREM NoMissingFile == Spec => []LatestComplete
<1>1. IInv => LatestComplete
  BY DEF IInv, FilesThere, Complete, LatestComplete
<1> QED BY <1>1, Inductive, PTL

\* An entry that is not marked failed speaks of the published latest.json and of a
\* history of at most history_keep snapshots, for every history_keep (publish.py:93-118).
THEOREM EntryTrue == Spec => []EntryMatchesLatest
<1>1. IInv => EntryMatchesLatest
  BY DEF IInv, EntriesTell, Spoken, Told, SnapshotsOf, EntryMatchesLatest
<1> QED BY <1>1, Inductive, PTL

\* The time of the latest change survives unchanged, failed and lost runs, however
\* many there are, up to a run that could not read the previous entry (README.md:699).
THEOREM ChangeRemembered == Spec => []LastChangeKept
<1>1. IInv => LastChangeKept
  BY DEF IInv, ChangesKnown, Known, LastChangeKept
<1> QED BY <1>1, Inductive, PTL

\* The exit code, 0, 1 or 2, says what the publish dir says, for any run whose process the
\* agent's code did not leave with an exit code of its own (runner.py:220-297).
THEOREM ExitCodeTrue == Spec => []ExitCodeTold
<1>1. IInv => ExitCodeTold
  BY DEF IInv, CodeSettled, Outcome, ExitCodeTold
<1> QED BY <1>1, Inductive, PTL

\* The published costs summary has no holes, for any number of runs, failed pushes
\* and cancelled jobs (costs.py:175-188, run-agent.yml).
THEOREM NoHoleInSummary == Spec => []SummaryComplete
<1>1. IInv => SummaryComplete
  BY DEF IInv, SummariesWhole, NoHoles, SummaryComplete
<1> QED BY <1>1, Inductive, PTL
=============================================================================
