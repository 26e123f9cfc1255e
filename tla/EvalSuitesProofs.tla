-------------------------- MODULE EvalSuitesProofs -------------------------
(***************************************************************************)
(* The spend caps of the evaluation harness hold, its reports are complete *)
(* and the regressions compare finds in them are real, for every number of *)
(* suites, cases, runs and calls at a time.                                *)
(***************************************************************************)
EXTENDS EvalSuites, SequenceTheorems, FiniteSetTheorems, TLAPS

InSuite == pc \notin {"idle", "suite"}

\* The tracker of each suite: what it has spent plus what its calls in flight may still
\* cost is bounded; without a cap it lets no call through; and those of the suites that
\* are to come have none yet.
Exposed ==
    \A p \in Positions :
        /\ usd[p] + reserved[p] + calls[p] * Overrun <= cap[p] + MaxCalls * Overrun
        /\ cap[p] = 0 => usd[p] = 0 /\ reserved[p] = 0
        /\ p > at => cap[p] = 0

\* A run that is under way has a number, and a suite under way takes its cap from what
\* its predecessors left: if they left nothing, it has none.
CapTaken ==
    /\ pc = "idle" => at = 0 /\ spent = 0
    /\ pc # "idle" => run >= 1
    /\ InSuite /\ total # NoCap => cap[at] = 0 \/ spent + cap[at] <= total
    /\ total # NoCap => spent <= total + MaxCalls * Overrun

\* The results of a suite so far: its flag is set exactly when one was skipped, none is
\* scored after it, and none starts.
ResultsSound ==
    /\ exhausted <=> \E i \in 1..Len(results) : results[i].skipped
    /\ \A i \in 1..Len(results) : ~ results[i].skipped => \A j \in 1..i : ~ results[j].skipped
    /\ pc \in {"task", "scoring"} => ~ exhausted /\ Len(results) < NCases
    /\ ~ InSuite => results = <<>>

\* The lines are in the order of their runs.
LinesInOrder ==
    /\ \A k \in 1..Len(history) : history[k].run <= run
    /\ \A j, k \in 1..Len(history) : j < k => history[j].run <= history[k].run

\* The inductive invariant.  The caps are not inductive: a call that ends adds what it had
\* reserved and an overrun; nor is what is written, which is what a suite has so far.
IInv ==
    /\ TypeOK
    /\ Exposed
    /\ CapTaken
    /\ ResultsSound
    /\ CapCutsTheRest
    /\ LinesInOrder

\* The constants.
LEMMA Constants ==
    /\ NCases \in Nat /\ NCases > 0 /\ MaxSuites \in Nat /\ MaxSuites > 0
    /\ Grades \in Nat /\ Grades > 0
    /\ MaxRuns \in Nat /\ Overrun \in Nat /\ SuiteCap \in Nat /\ MaxCalls \in Nat
    /\ MaxCalls * Overrun \in Nat
    /\ Threshold \in Nat
    /\ \A e \in Estimates : e \in Nat /\ e > 0
    /\ \A t \in TotalCaps \cup {NoCap} : t # NoCap => t \in Nat
<1>1. Overrun \in Nat /\ MaxCalls \in Nat
  BY EvalSuitesAssumption
<1>2. MaxCalls * Overrun \in Nat
  BY <1>1
<1> QED BY <1>1, <1>2, EvalSuitesAssumption

\* Fewer calls overrun by less.
LEMMA CallsOverrun ==
    ASSUME NEW a \in Nat, NEW b \in Nat, a <= b
    PROVE  a * Overrun \in Nat /\ b * Overrun \in Nat /\ a * Overrun <= b * Overrun
<1>1. \A k \in Nat : k * Overrun \in Nat
  BY Constants
<1>2. PICK d \in Nat : b = a + d
  <2>1. b - a \in Nat /\ b = a + (b - a)
    OBVIOUS
  <2> QED BY <2>1
<1>3. b * Overrun = a * Overrun + d * Overrun
  BY <1>2, Constants
<1> QED BY <1>1, <1>2, <1>3

\* What the steps compare.
LEMMA Parts ==
    ASSUME TypeOK
    PROVE  /\ total # NoCap => total \in Nat
           /\ spent \in Nat /\ at \in Nat /\ run \in Nat
           /\ Len(results) \in Nat /\ Len(history) \in Nat /\ Len(list) \in Nat
           /\ \A p \in 1..at : p \in Positions
           /\ InSuite => at \in Positions /\ list[at] \in Suites
           /\ \A p \in Positions : /\ p \in Nat
                                   /\ cap[p] \in Nat /\ usd[p] \in Nat /\ reserved[p] \in Nat
                                   /\ calls[p] \in Nat /\ calls[p] <= MaxCalls
                                   /\ calls[p] * Overrun \in Nat
<1>1. /\ spent \in Nat /\ run \in 0..MaxRuns /\ at \in 0..Len(list) /\ Len(list) <= MaxSuites
      /\ total \in TotalCaps \cup {NoCap}
      /\ list \in Seq(Suites) /\ history \in Seq(Rows) /\ results \in Seq(Results)
      /\ InSuite => at > 0
  BY DEF TypeOK, InSuite
<1>2. Len(results) \in Nat /\ Len(history) \in Nat /\ Len(list) \in Nat
  BY <1>1, LenProperties
<1>3. at \in Nat /\ run \in Nat
  BY <1>1, <1>2, Constants
<1>4. \A p \in 1..at : p \in Positions
  BY <1>1, <1>2, Constants DEF Positions
<1>5. InSuite => at \in Positions /\ at \in 1..Len(list)
  BY <1>1, <1>2, Constants DEF Positions
<1>6. InSuite => list[at] \in Suites
  BY <1>1, <1>5, ElementOfSeq
<1>7. \A p \in Positions : /\ p \in Nat
                           /\ cap[p] \in Nat /\ usd[p] \in Nat /\ reserved[p] \in Nat
                           /\ calls[p] \in Nat /\ calls[p] <= MaxCalls
  <2>1. MaxCalls \in Nat /\ MaxSuites \in Nat
    BY Constants
  <2> QED BY <2>1 DEF TypeOK, Positions
<1>8. \A p \in Positions : calls[p] * Overrun \in Nat
  BY <1>7, Constants, CallsOverrun
<1> QED BY <1>1, <1>2, <1>3, <1>4, <1>5, <1>6, <1>7, <1>8, Constants

\* The bounds on the trackers give those on the spend.
LEMMA CapsFollow ==
    ASSUME TypeOK, Exposed, CapTaken
    PROVE  /\ CapsKept
           /\ InSuite /\ total # NoCap => spent + usd[at] <= total + MaxCalls * Overrun
<1>1. ASSUME NEW p \in Positions
      PROVE  usd[p] <= cap[p] + MaxCalls * Overrun
  <2>1. /\ usd[p] \in Nat /\ reserved[p] \in Nat /\ cap[p] \in Nat
        /\ calls[p] * Overrun \in Nat /\ MaxCalls * Overrun \in Nat
    BY Parts, Constants
  <2>2. usd[p] + reserved[p] + calls[p] * Overrun <= cap[p] + MaxCalls * Overrun
    BY DEF Exposed
  <2> DEFINE c == calls[p] * Overrun
             m == MaxCalls * Overrun
  <2> HIDE DEF c, m
  <2>3. usd[p] + reserved[p] + c <= cap[p] + m /\ c \in Nat /\ m \in Nat
    BY <2>1, <2>2 DEF c, m
  <2>4. usd[p] <= cap[p] + m
    BY <2>1, <2>3
  <2> QED BY <2>4 DEF m
<1>2. ASSUME InSuite, total # NoCap
      PROVE  spent + usd[at] <= total + MaxCalls * Overrun
  <2>1. /\ at \in Positions /\ spent \in Nat /\ total \in Nat
        /\ usd[at] \in Nat /\ cap[at] \in Nat /\ MaxCalls * Overrun \in Nat
    BY <1>2, Parts, Constants
  <2>2. usd[at] <= cap[at] + MaxCalls * Overrun
    BY <1>1, <2>1
  <2>3. CASE cap[at] = 0
    <3>1. usd[at] = 0
      BY <2>1, <2>3 DEF Exposed
    <3>2. spent <= total + MaxCalls * Overrun
      BY <1>2 DEF CapTaken
    <3> QED BY <2>1, <3>1, <3>2
  <2>4. CASE spent + cap[at] <= total
    <3> DEFINE m == MaxCalls * Overrun
    <3> HIDE DEF m
    <3>1. m \in Nat /\ usd[at] <= cap[at] + m
      BY <2>1, <2>2 DEF m
    <3>2. spent + usd[at] <= total + m
      BY <2>1, <2>4, <3>1
    <3> QED BY <3>2 DEF m
  <2> QED BY <1>2, <2>3, <2>4 DEF CapTaken
<1>3. total # NoCap =>
        spent + (IF pc \in {"idle", "suite"} THEN 0 ELSE usd[at]) <= total + MaxCalls * Overrun
  <2>1. CASE InSuite
    BY <1>2, <2>1 DEF InSuite
  <2>2. CASE ~ InSuite
    <3>1. spent \in Nat /\ spent + 0 = spent
      BY Parts
    <3> QED BY <2>2, <3>1 DEF InSuite, CapTaken
  <2> QED BY <2>1, <2>2
<1> QED BY <1>1, <1>2, <1>3 DEF CapsKept

\* A tracker that is new lets every call overrun.
LEMMA NothingTyped ==
    /\ Nothing \in [Positions -> Nat] /\ Nothing \in [Positions -> 0..MaxCalls]
    /\ \A p \in Positions : Nothing[p] = 0
    /\ 0 * Overrun = 0
BY Constants DEF Nothing

LEMMA InitEstablishes == Init => IInv
<1> SUFFICES ASSUME Init
             PROVE  IInv
  OBVIOUS
<1>1. /\ history = <<>> /\ results = <<>> /\ list = <<>> /\ pc = "idle" /\ ~ exhausted
      /\ run = 0 /\ sha = 0 /\ total = NoCap /\ at = 0 /\ spent = 0
      /\ cap = Nothing /\ usd = Nothing /\ reserved = Nothing /\ calls = Nothing
  BY DEF Init
<1>2. TypeOK
  <2>1. /\ history \in Seq(Rows) /\ results \in Seq(Results) /\ list \in Seq(Suites)
        /\ Len(results) = 0 /\ Len(list) = 0
    BY <1>1
  <2>2. /\ run \in 0..MaxRuns /\ sha \in 0..MaxRuns /\ Len(results) <= NCases
        /\ Len(list) <= MaxSuites /\ at \in 0..Len(list) /\ spent \in Nat
    BY <1>1, <2>1, Constants
  <2>3. /\ cap \in [Positions -> Nat] /\ usd \in [Positions -> Nat]
        /\ reserved \in [Positions -> Nat] /\ calls \in [Positions -> 0..MaxCalls]
    BY <1>1, NothingTyped
  <2> QED BY <1>1, <2>1, <2>2, <2>3 DEF Init, TypeOK
<1>3. Exposed
  BY <1>1, NothingTyped, Constants DEF Exposed
<1>4. CapTaken
  BY <1>1 DEF CapTaken, InSuite
<1>5. ResultsSound /\ CapCutsTheRest /\ LinesInOrder
  BY <1>1 DEF ResultsSound, CapCutsTheRest, LinesInOrder, InSuite
<1> QED BY <1>2, <1>3, <1>4, <1>5 DEF IInv
-----------------------------------------------------------------------------

\* Calls touch the trackers alone.
LEMMA CallKeeps ==
    ASSUME TypeOK, Exposed, NEW p \in 1..at, NEW e \in Estimates, Call(p, e)
    PROVE  /\ TypeOK' /\ Exposed'
           /\ UNCHANGED <<history, command, at, spent, pc, cap, report>>
<1>1. p \in Positions /\ e \in Nat /\ e > 0
  BY Parts, Constants
<1>2. /\ usd[p] \in Nat /\ reserved[p] \in Nat /\ cap[p] \in Nat
      /\ calls[p] \in Nat /\ calls[p] < MaxCalls /\ MaxCalls \in Nat
      /\ usd[p] + reserved[p] + e <= cap[p]
  BY <1>1, Parts, Constants DEF Call
<1>3. /\ reserved' = [reserved EXCEPT ![p] = reserved[p] + e]
      /\ calls' = [calls EXCEPT ![p] = calls[p] + 1]
      /\ UNCHANGED <<history, run, sha, total, list, at, spent, pc, cap, usd, results, exhausted>>
  BY DEF Call, command, report
<1>4. reserved \in [Positions -> Nat] /\ calls \in [Positions -> 0..MaxCalls]
  BY DEF TypeOK
<1>5. reserved' \in [Positions -> Nat] /\ calls' \in [Positions -> 0..MaxCalls]
  BY <1>1, <1>2, <1>3, <1>4
<1>6. TypeOK'
  BY <1>3, <1>5 DEF TypeOK
<1>7. ASSUME NEW q \in Positions
      PROVE  /\ usd'[q] + reserved'[q] + calls'[q] * Overrun <= cap'[q] + MaxCalls * Overrun
             /\ cap'[q] = 0 => usd'[q] = 0 /\ reserved'[q] = 0
             /\ q > at' => cap'[q] = 0
  <2>1. CASE q = p
    <3>1. reserved'[q] = reserved[p] + e /\ calls'[q] = calls[p] + 1
      BY <1>1, <1>3, <1>4, <2>1
    <3>2. calls'[q] \in Nat /\ calls'[q] <= MaxCalls
      BY <1>2, <3>1
    <3>3. calls'[q] * Overrun <= MaxCalls * Overrun /\ calls'[q] * Overrun \in Nat
      BY <1>2, <3>2, CallsOverrun
    <3>4. cap[p] > 0
      BY <1>1, <1>2
    <3>5. usd[p] + (reserved[p] + e) <= cap[p]
      BY <1>1, <1>2
    <3> DEFINE c == calls'[q] * Overrun
               m == MaxCalls * Overrun
    <3> HIDE DEF c, m
    <3>6. c <= m /\ c \in Nat /\ m \in Nat
      BY <3>3, Constants DEF c, m
    <3>7. usd[p] + (reserved[p] + e) + c <= cap[p] + m
      BY <1>1, <1>2, <3>5, <3>6
    <3>8. usd'[q] = usd[p] /\ cap'[q] = cap[p] /\ at' = at
      BY <1>3, <2>1
    <3>9. usd'[q] + reserved'[q] + calls'[q] * Overrun <= cap'[q] + MaxCalls * Overrun
      BY <3>1, <3>7, <3>8 DEF c, m
    <3> QED BY <1>2, <2>1, <3>4, <3>8, <3>9 DEF Exposed
  <2>2. CASE q # p
    <3>1. reserved'[q] = reserved[q] /\ calls'[q] = calls[q]
      BY <1>1, <1>3, <1>4, <2>2
    <3> QED BY <1>3, <3>1 DEF Exposed
  <2> QED BY <2>1, <2>2
<1>8. Exposed'
  BY <1>7 DEF Exposed
<1> QED BY <1>3, <1>6, <1>8 DEF command, report

LEMMA CallEndsKeeps ==
    ASSUME TypeOK, Exposed, NEW p \in 1..at, NEW e \in 1..reserved[p], NEW u \in 0..(e + Overrun),
           CallEnds(p, e, u)
    PROVE  /\ TypeOK' /\ Exposed'
           /\ UNCHANGED <<history, command, at, spent, pc, cap, report>>
<1>1. p \in Positions /\ Overrun \in Nat
  BY Parts, Constants
<1>2. /\ usd[p] \in Nat /\ reserved[p] \in Nat /\ cap[p] \in Nat
      /\ calls[p] \in Nat /\ calls[p] > 0 /\ calls[p] <= MaxCalls /\ MaxCalls \in Nat
  BY <1>1, Parts, Constants DEF CallEnds
<1>3. e \in Nat /\ e > 0 /\ e <= reserved[p] /\ u \in Nat /\ u <= e + Overrun
  BY <1>1, <1>2
<1>4. /\ usd' = [usd EXCEPT ![p] = usd[p] + u]
      /\ reserved' = [reserved EXCEPT ![p] = reserved[p] - e]
      /\ calls' = [calls EXCEPT ![p] = calls[p] - 1]
      /\ UNCHANGED <<history, run, sha, total, list, at, spent, pc, cap, results, exhausted>>
  BY DEF CallEnds, command, report
<1>5. /\ usd \in [Positions -> Nat] /\ reserved \in [Positions -> Nat]
      /\ calls \in [Positions -> 0..MaxCalls]
  BY DEF TypeOK
<1>6. /\ usd' \in [Positions -> Nat] /\ reserved' \in [Positions -> Nat]
      /\ calls' \in [Positions -> 0..MaxCalls]
  <2>1. usd[p] + u \in Nat /\ reserved[p] - e \in Nat /\ calls[p] - 1 \in 0..MaxCalls
    BY <1>2, <1>3
  <2> QED BY <1>4, <1>5, <2>1
<1>7. TypeOK'
  BY <1>4, <1>6 DEF TypeOK
<1>8. ASSUME NEW q \in Positions
      PROVE  /\ usd'[q] + reserved'[q] + calls'[q] * Overrun <= cap'[q] + MaxCalls * Overrun
             /\ cap'[q] = 0 => usd'[q] = 0 /\ reserved'[q] = 0
             /\ q > at' => cap'[q] = 0
  <2>1. CASE q = p
    <3>1. /\ usd'[q] = usd[p] + u /\ reserved'[q] = reserved[p] - e
          /\ calls'[q] = calls[p] - 1 /\ cap'[q] = cap[p] /\ at' = at
      BY <1>1, <1>4, <1>5, <2>1
    <3>2. /\ usd[p] + reserved[p] + calls[p] * Overrun <= cap[p] + MaxCalls * Overrun
          /\ cap[p] # 0
      BY <1>1, <1>2, <1>3 DEF Exposed
    <3>3. (calls[p] - 1) * Overrun = calls[p] * Overrun - Overrun
      BY <1>1, <1>2
    <3> DEFINE c == calls[p] * Overrun
               m == MaxCalls * Overrun
    <3> HIDE DEF c, m
    <3>4. c \in Nat /\ m \in Nat /\ usd[p] + reserved[p] + c <= cap[p] + m
      BY <1>1, <3>2, Parts, Constants DEF c, m
    <3>5. (usd[p] + u) + (reserved[p] - e) + (c - Overrun) <= cap[p] + m
      BY <1>1, <1>2, <1>3, <3>4
    <3>6. usd'[q] + reserved'[q] + calls'[q] * Overrun <= cap'[q] + MaxCalls * Overrun
      BY <3>1, <3>3, <3>5 DEF c, m
    <3> QED BY <2>1, <3>1, <3>2, <3>6 DEF Exposed
  <2>2. CASE q # p
    <3>1. usd'[q] = usd[q] /\ reserved'[q] = reserved[q] /\ calls'[q] = calls[q]
      BY <1>1, <1>4, <1>5, <2>2
    <3> QED BY <1>4, <3>1 DEF Exposed
  <2> QED BY <2>1, <2>2
<1>9. Exposed'
  BY <1>8 DEF Exposed
<1> QED BY <1>4, <1>7, <1>9 DEF command, report
-----------------------------------------------------------------------------

\* A case's result is added to those of the suite.
LEMMA ResultAdds ==
    ASSUME TypeOK, NEW r \in Results, Result(r)
    PROVE  /\ results' \in Seq(Results)
           /\ Len(results) \in Nat /\ Len(results') = Len(results) + 1
           /\ \A i \in 1..Len(results) : results'[i] = results[i]
           /\ results'[Len(results) + 1] = r
BY Parts, AppendProperties DEF TypeOK, Result

\* The results a case may have.
LEMMA CaseResults ==
    /\ Skipped \in Results /\ Skipped.skipped
    /\ \A ok \in BOOLEAN, v \in 0..Grades : Score(ok, v) =>
            \E r \in Results : ~ r.skipped /\ Result(r)
<1>1. Skipped \in Results /\ Skipped.skipped
  <2>1. 0 \in 0..Grades
    BY Constants
  <2> QED BY <2>1 DEF Skipped, Results
<1>2. ASSUME NEW ok \in BOOLEAN, NEW v \in 0..Grades, Score(ok, v)
      PROVE  \E r \in Results : ~ r.skipped /\ Result(r)
  <2> DEFINE r == [skipped |-> FALSE, passed |-> ok, value |-> v]
  <2>1. r \in Results /\ ~ r.skipped
    BY DEF Results
  <2>2. Result(r)
    BY <1>2 DEF Score
  <2> HIDE DEF r
  <2> QED BY <2>1, <2>2
<1> QED BY <1>1, <1>2

\* A result that is added keeps the results in order, if it is a skip that sets the flag or
\* comes while the flag is not set.
LEMMA ResultSound ==
    ASSUME TypeOK, ResultsSound, NEW r \in Results, Result(r),
           \/ r.skipped /\ exhausted'
           \/ ~ r.skipped /\ ~ exhausted /\ ~ exhausted',
           pc' = "case"
    PROVE  ResultsSound'
<1>1. /\ Len(results) \in Nat
      /\ Len(results') = Len(results) + 1
      /\ \A i \in 1..Len(results) : results'[i] = results[i]
      /\ results'[Len(results) + 1] = r
  BY ResultAdds
<1>2. exhausted' <=> \E i \in 1..Len(results') : results'[i].skipped
  <2>1. CASE r.skipped /\ exhausted'
    <3>1. Len(results) + 1 \in 1..Len(results')
      BY <1>1
    <3> QED BY <1>1, <2>1, <3>1
  <2>2. CASE ~ r.skipped /\ ~ exhausted /\ ~ exhausted'
    <3>1. \A i \in 1..Len(results) : ~ results[i].skipped
      BY <2>2 DEF ResultsSound
    <3>2. ASSUME NEW i \in 1..Len(results')
          PROVE  ~ results'[i].skipped
      <4>1. i \in 1..Len(results) \/ i = Len(results) + 1
        BY <1>1
      <4> QED BY <1>1, <2>2, <3>1, <4>1
    <3> QED BY <2>2, <3>2
  <2> QED BY <2>1, <2>2
<1>3. ASSUME NEW i \in 1..Len(results'), ~ results'[i].skipped, NEW j \in 1..i
      PROVE  ~ results'[j].skipped
  <2>1. CASE i \in 1..Len(results)
    <3>1. j \in 1..Len(results)
      BY <1>1, <2>1
    <3> QED BY <1>1, <1>3, <2>1, <3>1 DEF ResultsSound
  <2>2. CASE i = Len(results) + 1
    <3>1. ~ exhausted'
      BY <1>1, <1>3, <2>2
    <3>2. j \in 1..Len(results')
      BY <1>1, <2>2
    <3> QED BY <1>2, <3>1, <3>2
  <2>3. i \in 1..Len(results) \/ i = Len(results) + 1
    BY <1>1
  <2> QED BY <2>1, <2>2, <2>3
<1> QED BY <1>2, <1>3 DEF ResultsSound, InSuite

\* The steps of a suite's cases: a case starts, is skipped or is scored.
CaseStep == StartCase \/ TaskRefused \/ TaskEnds \/ ScorerRefused \/ ScoreCase

LEMMA CaseStepCases ==
    ASSUME TypeOK, ResultsSound, CaseStep
    PROVE  /\ UNCHANGED <<history, command, at, spent, trackers>>
           /\ pc \in {"case", "task", "scoring"} /\ Len(results) < NCases
           /\ \/ Result(Skipped) /\ exhausted' = TRUE /\ pc' = "case"
              \/ /\ \E r \in Results : ~ r.skipped /\ Result(r)
                 /\ ~ exhausted /\ exhausted' = exhausted /\ pc' = "case"
              \/ /\ UNCHANGED <<results, exhausted>> /\ ~ exhausted
                 /\ pc' \in {"task", "scoring"}
<1>1. pc \in {"task", "scoring"} => ~ exhausted /\ Len(results) < NCases
  BY DEF ResultsSound
<1>2. CASE StartCase
  <2>1. CASE exhausted \/ usd[at] >= cap[at]
    BY <1>2, <2>1 DEF StartCase
  <2>2. CASE ~ (exhausted \/ usd[at] >= cap[at])
    BY <1>2, <2>2 DEF StartCase, report
  <2> QED BY <2>1, <2>2
<1>3. CASE TaskRefused \/ ScorerRefused
  BY <1>1, <1>3 DEF TaskRefused, ScorerRefused, Skip
<1>4. CASE TaskEnds
  <2>1. CASE pc' = "scoring" /\ UNCHANGED results
    BY <1>1, <1>4, <2>1 DEF TaskEnds
  <2>2. CASE pc' = "case" /\ Score(FALSE, 0)
    <3>1. 0 \in 0..Grades
      BY Constants
    <3>2. \E r \in Results : ~ r.skipped /\ Result(r)
      BY <2>2, <3>1, CaseResults
    <3> QED BY <1>1, <1>4, <2>2, <3>2 DEF TaskEnds
  <2> QED BY <1>4, <2>1, <2>2 DEF TaskEnds
<1>5. CASE ScoreCase
  <2>1. PICK ok \in BOOLEAN, v \in 0..Grades : Score(ok, v)
    BY <1>5 DEF ScoreCase
  <2>2. \E r \in Results : ~ r.skipped /\ Result(r)
    BY <2>1, CaseResults
  <2> QED BY <1>1, <1>5, <2>2 DEF ScoreCase
<1> QED BY <1>2, <1>3, <1>4, <1>5 DEF CaseStep

LEMMA CaseStepKeeps ==
    ASSUME TypeOK, Exposed, CapTaken, ResultsSound, CaseStep
    PROVE  /\ TypeOK' /\ Exposed' /\ CapTaken' /\ ResultsSound'
           /\ UNCHANGED <<history, run>>
<1>1. /\ UNCHANGED <<history, run, sha, total, list, at, spent, cap, usd, reserved, calls>>
      /\ pc \in {"case", "task", "scoring"} /\ pc' \in {"case", "task", "scoring"}
      /\ Len(results) < NCases
  BY CaseStepCases DEF command, trackers
<1>2. \/ \E r \in Results : /\ Result(r) /\ pc' = "case"
                            /\ \/ r.skipped /\ exhausted'
                               \/ ~ r.skipped /\ ~ exhausted /\ ~ exhausted'
      \/ UNCHANGED <<results, exhausted>> /\ ~ exhausted
  <2>1. CASE Result(Skipped) /\ exhausted' = TRUE /\ pc' = "case"
    BY <2>1, CaseResults
  <2>2. CASE /\ \E r \in Results : ~ r.skipped /\ Result(r)
             /\ ~ exhausted /\ exhausted' = exhausted /\ pc' = "case"
    <3>1. PICK r \in Results : ~ r.skipped /\ Result(r)
      BY <2>2
    <3> QED BY <2>2, <3>1
  <2>3. CASE UNCHANGED <<results, exhausted>> /\ ~ exhausted
    BY <2>3
  <2> QED BY <2>1, <2>2, <2>3, CaseStepCases
<1>3. exhausted' \in BOOLEAN
  BY CaseStepCases DEF TypeOK
<1>4. /\ results' \in Seq(Results) /\ Len(results') <= NCases
      /\ ResultsSound'
  <2>1. ASSUME NEW r \in Results, Result(r), pc' = "case",
               \/ r.skipped /\ exhausted'
               \/ ~ r.skipped /\ ~ exhausted /\ ~ exhausted'
        PROVE  results' \in Seq(Results) /\ Len(results') <= NCases /\ ResultsSound'
    <3>1. /\ results' \in Seq(Results)
          /\ Len(results) \in Nat /\ Len(results') = Len(results) + 1
      BY <2>1, ResultAdds
    <3>2. Len(results') <= NCases
      BY <1>1, <3>1, Constants
    <3> QED BY <2>1, <3>1, <3>2, ResultSound
  <2>2. CASE UNCHANGED <<results, exhausted>> /\ ~ exhausted
    <3>1. ResultsSound'
      BY <1>1, <2>2 DEF ResultsSound, InSuite
    <3> QED BY <2>2, <3>1 DEF TypeOK
  <2> QED BY <1>2, <2>1, <2>2
<1>5. TypeOK'
  BY <1>1, <1>3, <1>4 DEF TypeOK
<1>6. Exposed' /\ CapTaken'
  BY <1>1 DEF Exposed, CapTaken, InSuite
<1> QED BY <1>1, <1>4, <1>5, <1>6
-----------------------------------------------------------------------------

\* What is left for a suite.
LEMMA NextCapLeft ==
    ASSUME TypeOK
    PROVE  /\ NextCap \in Nat
           /\ total # NoCap => NextCap = 0 \/ spent + NextCap <= total
<1>1. spent \in Nat /\ SuiteCap \in Nat /\ (total # NoCap => total \in Nat)
  BY Parts, Constants
<1> QED BY <1>1 DEF NextCap

\* A run begins with nothing spent.
LEMMA StartRunKeeps ==
    ASSUME TypeOK, Exposed, CapTaken, ResultsSound, StartRun
    PROVE  TypeOK' /\ Exposed' /\ CapTaken' /\ ResultsSound'
<1>1. /\ run < MaxRuns /\ run' = run + 1 /\ sha' \in {sha, run'}
      /\ total' \in TotalCaps /\ pc = "idle" /\ pc' = "suite"
      /\ UNCHANGED <<history, at, spent, cap, usd, reserved, calls, results, exhausted>>
  BY DEF StartRun, trackers, report
<1>2. at = 0 /\ spent = 0
  BY <1>1 DEF CapTaken
<1>3. run' \in 0..MaxRuns /\ run' >= 1 /\ sha' \in 0..MaxRuns
  BY <1>1, Constants DEF TypeOK
<1>4. list' \in Seq(Suites) /\ Len(list') <= MaxSuites /\ at' \in 0..Len(list')
  <2>1. PICK n \in Positions : list' \in [1..n -> Suites]
    BY DEF StartRun
  <2>2. n \in Nat /\ n <= MaxSuites
    BY <2>1, Constants DEF Positions
  <2>3. list' \in Seq(Suites) /\ Len(list') = n
    BY <2>1, <2>2, SeqDef, LenProperties
  <2> QED BY <1>1, <1>2, <2>2, <2>3
<1>5. TypeOK'
  BY <1>1, <1>3, <1>4 DEF TypeOK
<1>6. Exposed'
  BY <1>1 DEF Exposed
<1>7. CapTaken'
  <2>1. total' # NoCap => spent' <= total' + MaxCalls * Overrun
    <3>1. total' # NoCap => total' \in Nat
      BY <1>1, Constants
    <3>2. spent' = 0 /\ MaxCalls * Overrun \in Nat
      BY <1>1, <1>2, Constants
    <3> QED BY <3>1, <3>2
  <2> QED BY <1>1, <1>3, <2>1 DEF CapTaken, InSuite
<1>8. ResultsSound'
  BY <1>1 DEF ResultsSound, InSuite
<1> QED BY <1>5, <1>6, <1>7, <1>8

\* A suite begins with a tracker of its own and what is left as its cap.
LEMMA StartSuiteKeeps ==
    ASSUME TypeOK, Exposed, CapTaken, ResultsSound, StartSuite
    PROVE  TypeOK' /\ Exposed' /\ CapTaken' /\ ResultsSound'
<1>1. /\ at < Len(list) /\ at' = at + 1 /\ pc = "suite" /\ pc' = "case"
      /\ cap' = [cap EXCEPT ![at'] = NextCap]
      /\ UNCHANGED <<history, run, sha, total, list, spent, usd, reserved, calls, results,
                     exhausted>>
  BY DEF StartSuite, command, report
<1>2. at' \in Positions /\ at' \in 0..Len(list) /\ at' > 0 /\ at \in Nat
  <2>1. at \in Nat /\ Len(list) \in Nat /\ MaxSuites \in Nat /\ Len(list) <= MaxSuites
    BY Parts, Constants DEF TypeOK
  <2> QED BY <1>1, <2>1 DEF Positions
<1>3. NextCap \in Nat /\ (total # NoCap => NextCap = 0 \/ spent + NextCap <= total)
  BY NextCapLeft
<1>4. cap \in [Positions -> Nat]
  BY DEF TypeOK
<1>5. cap' \in [Positions -> Nat] /\ cap'[at'] = NextCap
  BY <1>1, <1>2, <1>3, <1>4
<1>6. TypeOK'
  BY <1>1, <1>2, <1>5 DEF TypeOK
<1>7. ASSUME NEW q \in Positions
      PROVE  /\ usd'[q] + reserved'[q] + calls'[q] * Overrun <= cap'[q] + MaxCalls * Overrun
             /\ cap'[q] = 0 => usd'[q] = 0 /\ reserved'[q] = 0
             /\ q > at' => cap'[q] = 0
  <2>1. /\ calls[q] * Overrun \in Nat /\ MaxCalls * Overrun \in Nat
        /\ calls[q] * Overrun <= MaxCalls * Overrun /\ q \in Nat
    BY Parts, Constants, CallsOverrun
  <2>2. CASE q = at'
    <3>1. usd[q] = 0 /\ reserved[q] = 0
      BY <1>1, <1>2, <2>1, <2>2 DEF Exposed
    <3> DEFINE c == calls[q] * Overrun
               m == MaxCalls * Overrun
    <3> HIDE DEF c, m
    <3>2. c \in Nat /\ m \in Nat /\ c <= m
      BY <2>1 DEF c, m
    <3>3. usd[q] + reserved[q] + c <= NextCap + m
      BY <1>3, <3>1, <3>2
    <3>4. usd'[q] + reserved'[q] + calls'[q] * Overrun <= cap'[q] + MaxCalls * Overrun
      BY <1>1, <1>5, <2>2, <3>3 DEF c, m
    <3> QED BY <1>1, <2>1, <2>2, <3>1, <3>4
  <2>3. CASE q # at'
    <3>1. cap'[q] = cap[q]
      BY <1>1, <1>4, <2>3
    <3>2. q > at' => q > at
      BY <1>1, <1>2, <2>1
    <3> QED BY <1>1, <3>1, <3>2 DEF Exposed
  <2> QED BY <2>2, <2>3
<1>8. Exposed'
  BY <1>7 DEF Exposed
<1>9. CapTaken'
  BY <1>1, <1>3, <1>5 DEF CapTaken, InSuite
<1>10. ResultsSound'
  BY <1>1 DEF ResultsSound, InSuite
<1> QED BY <1>6, <1>8, <1>9, <1>10

\* A report is what the results of its suite were.
LEMMA ReportCutOff ==
    ASSUME TypeOK, CapTaken, ResultsSound, CapCutsTheRest, WriteReport
    PROVE  /\ history' \in Seq(Rows) /\ CapCutsTheRest'
           /\ Len(history') = Len(history) + 1
           /\ \A k \in 1..Len(history) : history'[k] = history[k]
           /\ history'[Len(history) + 1].run = run
<1> DEFINE row == [suite |-> list[at], run |-> run, sha |-> sha,
                   results |-> results, exhausted |-> exhausted]
<1>1. /\ history' = Append(history, row)
      /\ pc = "case" /\ InSuite
      /\ Len(results) = NCases
  BY DEF WriteReport, InSuite
<1>2. /\ run \in 1..MaxRuns /\ list[at] \in Suites /\ sha \in 0..MaxRuns
      /\ results \in Seq(Results) /\ exhausted \in BOOLEAN
  <2>1. run \in 0..MaxRuns /\ run >= 1 /\ MaxRuns \in Nat
    BY <1>1, Constants DEF CapTaken, TypeOK
  <2> QED BY <1>1, <2>1, Parts DEF TypeOK
<1>3. row \in Rows
  BY <1>2 DEF Rows
<1>4. CutOff(row)
  <2>1. Scored(row) = {i \in 1..NCases : ~ results[i].skipped}
    BY <1>1 DEF Scored
  <2>2. exhausted <=> \E i \in 1..NCases : results[i].skipped
    BY <1>1 DEF ResultsSound
  <2>3. exhausted <=> Scored(row) # 1..NCases
    BY <2>1, <2>2
  <2>4. ASSUME NEW i \in Scored(row), NEW j \in 1..i
        PROVE  j \in Scored(row)
    <3>1. i \in 1..NCases /\ ~ results[i].skipped /\ NCases \in Nat
      BY <2>1, Constants
    <3>2. j \in 1..NCases
      BY <3>1
    <3>3. ~ results[j].skipped
      BY <1>1, <3>1 DEF ResultsSound
    <3> QED BY <2>1, <3>2, <3>3
  <2>5. \A i \in Scored(row) : 1..i \subseteq Scored(row)
    BY <2>4
  <2> QED BY <1>1, <2>3, <2>5 DEF CutOff
<1>5. row.run = run
  OBVIOUS
<1> HIDE DEF row
<1>6. /\ history' \in Seq(Rows)
      /\ Len(history) \in Nat /\ Len(history') = Len(history) + 1
      /\ \A k \in 1..Len(history) : history'[k] = history[k]
      /\ history'[Len(history) + 1] = row
  BY <1>1, <1>3, AppendProperties, Parts DEF TypeOK
<1>7. ASSUME NEW k \in 1..Len(history')
      PROVE  CutOff(history'[k])
  <2>1. CASE k \in 1..Len(history)
    BY <1>6, <2>1 DEF CapCutsTheRest
  <2>2. CASE k = Len(history) + 1
    BY <1>4, <1>6, <2>2
  <2>3. k \in 1..Len(history) \/ k = Len(history) + 1
    BY <1>6
  <2> QED BY <2>1, <2>2, <2>3
<1> QED BY <1>5, <1>6, <1>7 DEF CapCutsTheRest

\* What a suite spent is added to what the run has spent.
LEMMA WriteReportKeeps ==
    ASSUME TypeOK, Exposed, CapTaken, ResultsSound, WriteReport, history' \in Seq(Rows)
    PROVE  TypeOK' /\ Exposed' /\ CapTaken' /\ ResultsSound'
<1>1. /\ spent' = spent + usd[at] /\ pc = "case" /\ InSuite /\ pc' = "suite" /\ ~ InSuite'
      /\ results' = <<>> /\ exhausted' = FALSE
      /\ UNCHANGED <<run, sha, total, list, at, cap, usd, reserved, calls>>
  BY DEF WriteReport, command, trackers, InSuite
<1>2. spent' \in Nat
  BY <1>1, Parts
<1>3. results' \in Seq(Results) /\ Len(results') <= NCases
  <2>1. results' \in Seq(Results) /\ Len(results') = 0
    BY <1>1
  <2> QED BY <2>1, Constants
<1>4. TypeOK'
  BY <1>1, <1>2, <1>3 DEF TypeOK
<1>5. Exposed'
  BY <1>1 DEF Exposed
<1>6. total # NoCap => spent + usd[at] <= total + MaxCalls * Overrun
  BY <1>1, CapsFollow
<1>7. CapTaken'
  BY <1>1, <1>6 DEF CapTaken
<1>8. ResultsSound'
  BY <1>1 DEF ResultsSound
<1> QED BY <1>4, <1>5, <1>7, <1>8

\* When the command is over nothing is left of its run but the lines it wrote.
LEMMA OverKeeps ==
    ASSUME TypeOK, Exposed, CapTaken, ResultsSound, Over
    PROVE  TypeOK' /\ Exposed' /\ CapTaken' /\ ResultsSound'
<1>1. /\ pc' = "idle" /\ at' = 0 /\ spent' = 0 /\ ~ InSuite'
      /\ cap' = Nothing /\ usd' = Nothing /\ reserved' = Nothing /\ calls' = Nothing
      /\ results' = <<>> /\ exhausted' = FALSE
      /\ UNCHANGED <<history, run, sha, total, list>>
  BY DEF Over, command, InSuite
<1>2. results' \in Seq(Results) /\ Len(results') <= NCases /\ at' \in 0..Len(list)
  <2>1. results' \in Seq(Results) /\ Len(results') = 0
    BY <1>1
  <2> QED BY <1>1, <2>1, Constants, Parts
<1>3. TypeOK'
  BY <1>1, <1>2, NothingTyped DEF TypeOK
<1>4. Exposed'
  BY <1>1, NothingTyped, Constants DEF Exposed
<1>5. total # NoCap => 0 <= total + MaxCalls * Overrun
  BY SMTT(30), Parts, Constants
<1>6. CapTaken'
  BY <1>1, <1>5 DEF CapTaken
<1>7. ResultsSound'
  BY <1>1 DEF ResultsSound
<1> QED BY <1>3, <1>4, <1>6, <1>7

\* A line is of the latest run.
LEMMA LinesKeep ==
    ASSUME TypeOK, CapTaken, ResultsSound, CapCutsTheRest, LinesInOrder,
           \/ UNCHANGED history /\ run' \in {run, run + 1}
           \/ WriteReport
    PROVE  LinesInOrder'
<1>1. /\ run \in Nat /\ Len(history) \in Nat
      /\ \A k \in 1..Len(history) : history[k].run \in Nat
  <2>1. \A k \in 1..Len(history) : history[k] \in Rows
    BY ElementOfSeq DEF TypeOK
  <2>2. \A r \in Rows : r.run \in Nat
    BY Constants DEF Rows
  <2> QED BY <2>1, <2>2, Parts
<1>2. /\ \A k \in 1..Len(history) : history[k].run <= run
      /\ \A j, k \in 1..Len(history) : j < k => history[j].run <= history[k].run
  BY DEF LinesInOrder
<1>3. CASE UNCHANGED history /\ run' \in {run, run + 1}
  <2>1. \A k \in 1..Len(history) : history[k].run <= run'
    BY <1>1, <1>2, <1>3
  <2> QED BY <1>2, <1>3, <2>1 DEF LinesInOrder
<1>4. CASE WriteReport
  <2> DEFINE n == Len(history) + 1
  <2>1. /\ Len(history') = n
        /\ \A k \in 1..Len(history) : history'[k] = history[k]
        /\ history'[n].run = run
        /\ run' = run
    BY <1>4, ReportCutOff DEF WriteReport, command
  <2>2. \A k \in 1..n : k \in 1..Len(history) \/ k = n
    BY <1>1
  <2>3. ASSUME NEW k \in 1..n
        PROVE  history'[k].run <= run
    <3>1. CASE k \in 1..Len(history)
      BY <1>2, <2>1, <3>1
    <3>2. CASE k = n
      BY <1>1, <2>1, <3>2
    <3> QED BY <2>2, <3>1, <3>2
  <2>4. ASSUME NEW j \in 1..n, NEW k \in 1..n, j < k
        PROVE  history'[j].run <= history'[k].run
    <3>1. j \in 1..Len(history)
      BY <1>1, <2>4
    <3>2. CASE k \in 1..Len(history)
      BY <1>2, <2>1, <2>4, <3>1, <3>2
    <3>3. CASE k = n
      BY <2>1, <2>3, <3>3
    <3> QED BY <2>2, <3>2, <3>3
  <2> HIDE DEF n
  <2> QED BY <2>1, <2>3, <2>4 DEF LinesInOrder
<1> QED BY <1>3, <1>4

LEMMA NextKeeps == IInv /\ [Next]_vars => IInv'
<1> SUFFICES ASSUME IInv, [Next]_vars
             PROVE  IInv'
  OBVIOUS
<1>1. TypeOK /\ Exposed /\ CapTaken /\ ResultsSound /\ CapCutsTheRest /\ LinesInOrder
  BY DEF IInv
<1>2. ASSUME UNCHANGED history, run' \in {run, run + 1},
             TypeOK' /\ Exposed' /\ CapTaken' /\ ResultsSound'
      PROVE  IInv'
  <2>1. CapCutsTheRest'
    BY <1>1, <1>2 DEF CapCutsTheRest
  <2>2. LinesInOrder'
    BY <1>1, <1>2, LinesKeep
  <2> QED BY <1>2, <2>1, <2>2 DEF IInv
<1>3. CASE StartRun
  <2>1. UNCHANGED history /\ run' \in {run, run + 1}
    BY <1>3 DEF StartRun
  <2> QED BY <1>1, <1>2, <1>3, <2>1, StartRunKeeps
<1>4. CASE StartSuite
  <2>1. UNCHANGED history /\ run' \in {run, run + 1}
    BY <1>4 DEF StartSuite, command
  <2> QED BY <1>1, <1>2, <1>4, <2>1, StartSuiteKeeps
<1>5. CASE CaseStep
  BY <1>1, <1>2, <1>5, CaseStepKeeps
<1>6. ASSUME TypeOK', Exposed', UNCHANGED <<history, command, at, spent, pc, cap, report>>
      PROVE  IInv'
  <2>1. UNCHANGED <<history, run, total, at, spent, pc, cap, results, exhausted>>
    BY <1>6 DEF command, report
  <2>2. CapTaken' /\ ResultsSound'
    BY <1>1, <2>1 DEF CapTaken, ResultsSound, InSuite
  <2> QED BY <1>2, <1>6, <2>1, <2>2
<1>7. CASE \E p \in 1..at : \E e \in Estimates : Call(p, e)
  <2>1. PICK p \in 1..at : \E e \in Estimates : Call(p, e)
    BY <1>7
  <2>2. PICK e \in Estimates : Call(p, e)
    BY <2>1
  <2> QED BY <1>1, <1>6, <2>2, CallKeeps
<1>8. CASE \E p \in 1..at : \E e \in 1..reserved[p] : \E u \in 0..(e + Overrun) : CallEnds(p, e, u)
  <2>1. PICK p \in 1..at :
            \E e \in 1..reserved[p] : \E u \in 0..(e + Overrun) : CallEnds(p, e, u)
    BY <1>8
  <2>2. PICK e \in 1..reserved[p] : \E u \in 0..(e + Overrun) : CallEnds(p, e, u)
    BY <2>1
  <2>3. PICK u \in 0..(e + Overrun) : CallEnds(p, e, u)
    BY <2>2
  <2> QED BY <1>1, <1>6, <2>3, CallEndsKeeps
<1>9. CASE WriteReport
  <2>1. history' \in Seq(Rows) /\ CapCutsTheRest'
    BY <1>1, <1>9, ReportCutOff
  <2>2. TypeOK' /\ Exposed' /\ CapTaken' /\ ResultsSound'
    BY <1>1, <1>9, <2>1, WriteReportKeeps
  <2>3. LinesInOrder'
    BY <1>1, <1>9, LinesKeep
  <2> QED BY <2>1, <2>2, <2>3 DEF IInv
<1>10. CASE EndRun \/ Abort
  <2>1. Over
    BY <1>10 DEF EndRun, Abort
  <2>2. UNCHANGED history /\ run' \in {run, run + 1}
    BY <2>1 DEF Over, command
  <2> QED BY <1>1, <1>2, <2>1, <2>2, OverKeeps
<1>11. CASE UNCHANGED vars
  <2>1. UNCHANGED <<history, run, sha, total, list, at, spent, pc, cap, usd, reserved, calls,
                    results, exhausted>>
    BY <1>11 DEF vars, command, trackers, report
  <2>2. TypeOK' /\ Exposed' /\ CapTaken' /\ ResultsSound'
    BY <1>1, <2>1 DEF TypeOK, Exposed, CapTaken, ResultsSound, InSuite
  <2> QED BY <1>2, <2>1, <2>2
<1> QED BY <1>3, <1>4, <1>5, <1>7, <1>8, <1>9, <1>10, <1>11 DEF Next, CaseStep

LEMMA Inductive == Spec => []IInv
BY InitEstablishes, NextKeeps, PTL DEF Spec
-----------------------------------------------------------------------------

\* Of as many cases, less was scored.
LEMMA LessOfAsMany ==
    ASSUME NEW n \in Nat, NEW p \in Nat, NEW q \in Nat, NEW h \in Nat, NEW g \in Nat,
           100 * (p * n - q * n) > h * g * n * n
    PROVE  p > q
<1>1. h * g \in Nat
  OBVIOUS
<1>2. (h * g) * n \in Nat
  BY <1>1
<1>3. ((h * g) * n) * n \in Nat
  BY <1>2
<1>4. 100 * (p * n - q * n) > 0
  BY <1>3
<1>5. p * n \in Nat /\ q * n \in Nat
  OBVIOUS
<1>6. p * n > q * n
  BY <1>4, <1>5
<1>7. ASSUME p <= q
      PROVE  p * n <= q * n
  <2>1. PICK d \in Nat : q = p + d
    <3>1. q - p \in Nat /\ q = p + (q - p)
      BY <1>7
    <3> QED BY <3>1
  <2>2. q * n = p * n + d * n /\ d * n \in Nat
    BY <2>1
  <2> QED BY <1>5, <2>2
<1> QED BY <1>5, <1>6, <1>7

\* What drops of two reports that scored every case was there before and is not any more.
LEMMA DropsLoses ==
    ASSUME NEW row, NEW previous, NEW new, NEW old, NEW g \in Nat,
           Scored(row) = 1..NCases, Scored(previous) = 1..NCases,
           IsFiniteSet(new), IsFiniteSet(old), Drops(row, new, previous, old, g)
    PROVE  ~ old \subseteq new
<1>1. NCases \in Nat /\ Threshold \in Nat
  BY Constants
<1>2. Cardinality(Scored(row)) = NCases /\ Cardinality(Scored(previous)) = NCases
  BY <1>1, FS_Interval
<1>3. Cardinality(old) \in Nat /\ Cardinality(new) \in Nat
  BY FS_CardinalityType
<1>4. 100 * (Cardinality(old) * NCases - Cardinality(new) * NCases)
        > Threshold * g * NCases * NCases
  BY <1>2 DEF Drops
<1>5. Cardinality(old) > Cardinality(new)
  BY <1>1, <1>3, <1>4, LessOfAsMany
<1>6. old \in SUBSET new => Cardinality(old) <= Cardinality(new)
  BY FS_Subset
<1> QED BY <1>3, <1>5, <1>6

\* A mean that drops has a case with a lower score behind it.
LEMMA MeanLoses ==
    ASSUME NEW row \in Rows, NEW previous \in Rows, CutOff(row), CutOff(previous),
           ~ row.exhausted, ~ previous.exhausted
    PROVE  /\ PassRateDrops(row, previous) => ~ Passed(previous) \subseteq Passed(row)
           /\ MeanDrops(row, previous) =>
                \E i \in 1..NCases : row.results[i].value < previous.results[i].value
<1>1. NCases \in Nat /\ Grades \in Nat
  BY Constants
<1>2. /\ Len(row.results) = NCases /\ Scored(row) = 1..NCases
      /\ Len(previous.results) = NCases /\ Scored(previous) = 1..NCases
  BY DEF CutOff, Rows
<1>3. \A i \in 1..NCases : row.results[i].value \in Nat /\ previous.results[i].value \in Nat
  <2>1. row.results \in Seq(Results) /\ previous.results \in Seq(Results)
    BY DEF Rows
  <2>2. \A i \in 1..NCases : row.results[i] \in Results /\ previous.results[i] \in Results
    BY <1>2, <2>1, ElementOfSeq
  <2> QED BY <1>1, <2>2 DEF Results
<1>4. IsFiniteSet(Passed(row)) /\ IsFiniteSet(Passed(previous))
  <2>1. IsFiniteSet(1..NCases)
    BY <1>1, FS_Interval
  <2>2. Passed(row) \in SUBSET (1..NCases) /\ Passed(previous) \in SUBSET (1..NCases)
    BY <1>2 DEF Passed
  <2> QED BY <2>1, <2>2, FS_Subset
<1>5. IsFiniteSet(Points(row)) /\ IsFiniteSet(Points(previous))
  <2>1. IsFiniteSet((1..NCases) \X (1..Grades))
    <3>1. IsFiniteSet(1..NCases) /\ IsFiniteSet(1..Grades)
      BY <1>1, FS_Interval
    <3> QED BY <3>1, FS_Product
  <2>2. /\ Points(row) \in SUBSET ((1..NCases) \X (1..Grades))
        /\ Points(previous) \in SUBSET ((1..NCases) \X (1..Grades))
    BY <1>2 DEF Points
  <2> QED BY <2>1, <2>2, FS_Subset
<1>6. PassRateDrops(row, previous) => ~ Passed(previous) \subseteq Passed(row)
  BY <1>2, <1>4, DropsLoses DEF PassRateDrops
<1>7. ASSUME MeanDrops(row, previous)
      PROVE  \E i \in 1..NCases : row.results[i].value < previous.results[i].value
  <2>1. ~ Points(previous) \subseteq Points(row)
    BY <1>1, <1>2, <1>5, <1>7, DropsLoses DEF MeanDrops
  <2>2. PICK x \in Points(previous) : x \notin Points(row)
    BY <2>1
  <2>3. /\ x \in (1..NCases) \X (1..Grades)
        /\ x[2] <= previous.results[x[1]].value
        /\ ~ x[2] <= row.results[x[1]].value
    BY <1>2, <2>2 DEF Points
  <2>4. x[1] \in 1..NCases /\ x[2] \in Nat
    BY <1>1, <2>3
  <2> QED BY <1>3, <2>3, <2>4
<1> QED BY <1>6, <1>7

\* Every variable of the harness keeps its type; a cap is never negative.
THEOREM SuitesTypeCorrect == Spec => []TypeOK
<1>1. IInv => TypeOK
  BY DEF IInv
<1> QED BY <1>1, Inductive, PTL

\* A suite passes its cap, and the suites of a run as they report it the total cap, by at
\* most one overrun for each call that may be in flight on a suite's tracker at a time.
THEOREM CapsHold == Spec => []CapsKept
<1>1. IInv => CapsKept
  BY CapsFollow DEF IInv
<1> QED BY <1>1, Inductive, PTL

\* Every report written is complete, and scores no case after a skipped one.
THEOREM ReportsCutOff == Spec => []CapCutsTheRest
<1>1. IInv => CapCutsTheRest
  BY DEF IInv
<1> QED BY <1>1, Inductive, PTL

\* A regression that compare reports, of the pass rate or of a mean, sets a line of a suite
\* against one that is no later and scored cases too; and if neither was cut short by the
\* cap, a case that passed does not pass any more, or one's score is lower.
THEOREM AlarmsHold == Spec => []AlarmsAreReal
<1>1. IInv => AlarmsAreReal
  <2> SUFFICES ASSUME IInv, NEW s \in Suites, NEW j \in Lines(s), NEW k \in Lines(s),
                      AreLastTwo(j, k, s), Regression(history[k], history[j])
               PROVE  /\ Scored(history[k]) # {} /\ Scored(history[j]) # {}
                      /\ history[j].run <= history[k].run
                      /\ ~ history[k].exhausted /\ ~ history[j].exhausted =>
                          /\ PassRateDrops(history[k], history[j]) =>
                                ~ Passed(history[j]) \subseteq Passed(history[k])
                          /\ MeanDrops(history[k], history[j]) =>
                                \E i \in 1..NCases :
                                  history[k].results[i].value < history[j].results[i].value
    BY DEF AlarmsAreReal
  <2>1. j \in 1..Len(history) /\ k \in 1..Len(history) /\ j < k
    BY DEF AreLastTwo, Lines
  <2>2. history[j] \in Rows /\ history[k] \in Rows
    BY <2>1, ElementOfSeq DEF IInv, TypeOK
  <2>3. CutOff(history[j]) /\ CutOff(history[k])
    BY <2>1 DEF IInv, CapCutsTheRest
  <2>4. history[j].run <= history[k].run
    BY <2>1 DEF IInv, LinesInOrder
  <2>5. Scored(history[k]) # {} /\ Scored(history[j]) # {}
    BY DEF Regression
  <2> QED BY <2>2, <2>3, <2>4, <2>5, MeanLoses
<1> QED BY <1>1, Inductive, PTL
=============================================================================
