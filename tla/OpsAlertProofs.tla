--------------------------- MODULE OpsAlertProofs --------------------------
(***************************************************************************)
(* A suppressed title has been heard of and an alert whose issue is open   *)
(* is not repeated, for every interval and every number of runs, calls,    *)
(* attempts and issues.                                                    *)
(***************************************************************************)
EXTENDS OpsAlert, SequenceTheorems, TLAPS

\* No issue is from the future, and what was posted to it is part of its history.
Recorded ==
    /\ \A n \in 1..Len(issues) : issues[n].updated <= day
    /\ \A i \in 1..Len(posts) :
        /\ posts[i].call <= calls
        /\ posts[i].issue \in 1..Len(issues)
        /\ posts[i].day <= issues[posts[i].issue].updated

\* The newest open issue is the one to look at: none of those opened after the one that
\* was posted to is older than that post.
NewestLast ==
    \A i \in 1..Len(posts) : \A n \in 1..Len(issues) :
        n > posts[i].issue /\ issues[n].open => posts[i].day <= issues[n].updated

\* A call that is about to post has made sure of it.
Aimed ==
    pc = "post" =>
        /\ \A n \in 1..Len(issues) : target # 0 /\ n > target => ~ issues[n].open
        /\ \A i \in 1..Len(posts) :
            posts[i].call < calls /\ day - posts[i].day < MinInterval
                => ~ issues[posts[i].issue].open

\* The inductive invariant.  NoRepeatWhileOpen alone is not inductive: it says nothing
\* of the time between the search and the post.
IInv ==
    /\ TypeOK
    /\ Recorded
    /\ NewestLast
    /\ Aimed
    /\ SuppressedMeansTold
    /\ NoRepeatWhileOpen

\* What any step does to the issues: none is lost, reopened or put back in time.
Grows ==
    /\ issues' \in Seq(Issues)
    /\ Len(issues) <= Len(issues')
    /\ \A n \in 1..Len(issues) :
        /\ issues'[n].open => issues[n].open
        /\ issues'[n].updated \in {issues[n].updated, day}
    /\ \A n \in 1..Len(issues') : n > Len(issues) => issues'[n].updated = day

\* The types of what the steps compare.
LEMMA Parts ==
    ASSUME TypeOK
    PROVE  /\ day \in Nat /\ MinInterval \in Nat \ {0}
           /\ repo \in Nat /\ local \in Nat /\ calls \in Nat
           /\ Len(issues) \in Nat /\ Len(posts) \in Nat
           /\ \A n \in 1..Len(issues) : issues[n].open \in BOOLEAN /\ issues[n].updated \in Nat
           /\ \A i \in 1..Len(posts) : /\ posts[i].call \in Nat /\ posts[i].day \in Nat
                                       /\ posts[i].issue \in Nat
<1>1. /\ day \in Nat /\ MinInterval \in Nat \ {0}
      /\ repo \in Nat /\ local \in Nat /\ calls \in Nat
      /\ Len(issues) \in Nat /\ Len(posts) \in Nat
  BY OpsAlertAssumption DEF TypeOK
<1>2. ASSUME NEW n \in 1..Len(issues)
      PROVE  issues[n].open \in BOOLEAN /\ issues[n].updated \in Nat
  <2>1. issues[n] \in Issues
    BY <1>2, ElementOfSeq DEF TypeOK
  <2> QED BY <2>1 DEF Issues
<1>3. ASSUME NEW i \in 1..Len(posts)
      PROVE  posts[i].call \in Nat /\ posts[i].day \in Nat /\ posts[i].issue \in Nat
  <2>1. posts[i] \in Posts
    BY <1>3, ElementOfSeq DEF TypeOK
  <2> QED BY <2>1 DEF Posts
<1> QED BY <1>1, <1>2, <1>3

LEMMA InitEstablishes == Init => IInv
<1> SUFFICES ASSUME Init
             PROVE  IInv
  OBVIOUS
<1>1. issues = <<>> /\ posts = <<>> /\ repo = 0 /\ local = 0 /\ pc = "off"
  BY DEF Init
<1>2. TypeOK
  BY OpsAlertAssumption DEF Init, TypeOK
<1>3. Recorded /\ NewestLast /\ Aimed /\ SuppressedMeansTold /\ NoRepeatWhileOpen
  BY <1>1 DEF Recorded, NewestLast, Aimed, SuppressedMeansTold, NoRepeatWhileOpen
<1> QED BY <1>2, <1>3 DEF IInv

\* Someone's comment or closing.
LEMMA PeopleGrow ==
    ASSUME IInv, People
    PROVE  Grows /\ Len(issues') = Len(issues)
<1>1. TypeOK
  BY DEF IInv
<1>2. PICK n \in 1..Len(issues), o \in BOOLEAN : (o => issues[n].open) /\ Update(n, o)
  BY DEF People
<1>3. issues \in Seq(Issues) /\ [open |-> o, updated |-> day] \in Issues
  BY <1>1, <1>2 DEF TypeOK, Issues
<1>4. /\ issues' \in Seq(Issues)
      /\ Len(issues') = Len(issues)
      /\ \A k \in 1..Len(issues) :
          issues'[k] = IF k = n THEN [open |-> o, updated |-> day] ELSE issues[k]
  BY <1>2, <1>3, ExceptSeq DEF Update
<1> QED BY <1>2, <1>3, <1>4 DEF Grows

\* The issue a POST goes to.
Hit == IF target = 0 THEN Len(issues) + 1 ELSE target

\* A POST that GitHub processes goes to the issue meant, or opens one more.
LEMMA ProcessGrow ==
    ASSUME IInv, Process
    PROVE  /\ Grows
           /\ Hit \in 1..Len(issues')
           /\ issues'[Hit].updated = day
           /\ \A k \in 1..Len(issues') : k > Hit => k <= Len(issues) /\ target # 0
           /\ posts' = Append(posts, [call |-> calls, day |-> day, issue |-> Hit])
<1>1. TypeOK /\ issues \in Seq(Issues) /\ Len(issues) \in Nat
  BY DEF IInv, TypeOK
<1>2. posts' = Append(posts, [call |-> calls, day |-> day, issue |-> Hit])
  BY DEF Process, Hit
<1>3. CASE target = 0
  <2>1. issues' = Append(issues, [open |-> TRUE, updated |-> day])
    BY <1>3 DEF Process
  <2>2. [open |-> TRUE, updated |-> day] \in Issues
    BY <1>1 DEF TypeOK, Issues
  <2>3. /\ issues' \in Seq(Issues)
        /\ Len(issues') = Len(issues) + 1
        /\ \A k \in 1..Len(issues) : issues'[k] = issues[k]
        /\ issues'[Len(issues) + 1].updated = day
    BY <1>1, <2>1, <2>2, AppendProperties
  <2>4. Grows
    BY <1>1, <2>3 DEF Grows
  <2>5. Hit \in 1..Len(issues') /\ Hit = Len(issues) + 1
    BY <1>1, <1>3, <2>3 DEF Hit
  <2> QED BY <1>1, <1>2, <2>3, <2>4, <2>5
<1>4. CASE target # 0
  <2>1. target \in 1..Len(issues) /\ Hit = target
    BY <1>1, <1>4 DEF TypeOK, Hit
  <2>2. issues' = [issues EXCEPT ![target] = [open |-> issues[target].open, updated |-> day]]
    BY <1>4 DEF Process, Update
  <2>3. issues[target] \in Issues
    BY <1>1, <2>1, ElementOfSeq
  <2>4. [open |-> issues[target].open, updated |-> day] \in Issues
    BY <1>1, <2>3 DEF TypeOK, Issues
  <2>5. /\ issues' \in Seq(Issues)
        /\ Len(issues') = Len(issues)
        /\ \A k \in 1..Len(issues) :
            issues'[k] = IF k = target THEN [open |-> issues[target].open, updated |-> day]
                                       ELSE issues[k]
    BY <1>1, <2>1, <2>2, <2>4, ExceptSeq
  <2>6. Grows
    BY <1>1, <2>5 DEF Grows
  <2> QED BY <1>1, <1>2, <2>1, <2>5, <2>6
<1> QED BY <1>3, <1>4

\* An entry of the file stays vouched for while the issues grow.
LEMMA ToldKept ==
    ASSUME IInv, Grows, NEW d \in {repo, local} \ {0}
    PROVE  \E n \in 1..Len(issues') : d - issues'[n].updated < MinInterval
<1>1. TypeOK
  BY DEF IInv
<1>2. PICK n \in 1..Len(issues) : d - issues[n].updated < MinInterval
  BY <1>1 DEF IInv, SuppressedMeansTold
<1>3. n \in 1..Len(issues') /\ issues'[n].updated \in {issues[n].updated, day}
  BY <1>1, <1>2 DEF Grows, TypeOK
<1>4. issues[n].updated \in Nat /\ issues[n].updated <= day
  BY <1>1, <1>2, Parts DEF IInv, Recorded
<1>5. d \in Nat /\ day \in Nat /\ MinInterval \in Nat
  BY <1>1, OpsAlertAssumption DEF TypeOK
<1>6. d - issues'[n].updated < MinInterval
  BY <1>2, <1>3, <1>4, <1>5
<1> QED BY <1>3, <1>6

\* People disturb nothing: what has been posted stays older than its issue's update.
LEMMA PeopleKeep ==
    ASSUME IInv, People
    PROVE  IInv'
<1>1. /\ Grows /\ Len(issues') = Len(issues)
      /\ UNCHANGED <<day, repo, local, posts, calls, pc, target, attempt>>
  BY PeopleGrow DEF People
<1>2. TypeOK /\ Recorded /\ NewestLast /\ Aimed /\ NoRepeatWhileOpen
  BY DEF IInv
<1>3. TypeOK'
  BY <1>1, <1>2 DEF TypeOK, Grows
<1>4. \A n \in 1..Len(issues) :
        /\ issues[n].updated \in Nat /\ day \in Nat
        /\ issues[n].updated <= issues'[n].updated
        /\ issues'[n].updated <= day
  BY <1>1, <1>2, Parts DEF Recorded, Grows
<1>5. \A i \in 1..Len(posts) : posts[i].day \in Nat /\ posts[i].issue \in Nat
  BY <1>2, Parts
<1>6. Recorded'
  <2>1. \A n \in 1..Len(issues') : issues'[n].updated <= day'
    BY <1>1, <1>4
  <2>2. ASSUME NEW i \in 1..Len(posts)
        PROVE  /\ posts[i].call <= calls
               /\ posts[i].issue \in 1..Len(issues')
               /\ posts[i].day <= issues'[posts[i].issue].updated
    <3>1. /\ posts[i].call <= calls
          /\ posts[i].issue \in 1..Len(issues)
          /\ posts[i].day <= issues[posts[i].issue].updated
      BY <1>2, <2>2 DEF Recorded
    <3>2. issues'[posts[i].issue].updated \in {issues[posts[i].issue].updated, day}
      BY <1>1, <3>1 DEF Grows
    <3> QED BY <1>1, <1>4, <1>5, <3>1, <3>2
  <2> QED BY <1>1, <2>1, <2>2 DEF Recorded
<1>7. NewestLast'
  <2>1. ASSUME NEW i \in 1..Len(posts), NEW n \in 1..Len(issues),
               n > posts[i].issue, issues'[n].open
        PROVE  posts[i].day <= issues'[n].updated
    <3>1. issues[n].open
      BY <1>1, <2>1 DEF Grows
    <3>2. posts[i].day <= issues[n].updated
      BY <1>2, <2>1, <3>1 DEF NewestLast
    <3>3. issues'[n].updated \in {issues[n].updated, day}
      BY <1>1 DEF Grows
    <3> QED BY <1>4, <1>5, <3>2, <3>3
  <2> QED BY <1>1, <2>1 DEF NewestLast
<1>8. Aimed'
  BY <1>1, <1>2 DEF Aimed, Grows, Recorded
<1>9. NoRepeatWhileOpen'
  BY <1>1, <1>2 DEF NoRepeatWhileOpen, Grows, Recorded
<1>10. SuppressedMeansTold'
  BY <1>1, ToldKept DEF SuppressedMeansTold
<1> QED BY <1>3, <1>6, <1>7, <1>8, <1>9, <1>10 DEF IInv

\* Steps that leave GitHub alone disturb only what speaks of the call or the file.
LEMMA QuietKeep ==
    ASSUME IInv, UNCHANGED github, TypeOK', calls <= calls', day <= day'
    PROVE  Recorded' /\ NewestLast' /\ NoRepeatWhileOpen'
<1>1. TypeOK /\ Recorded /\ NewestLast /\ NoRepeatWhileOpen
  BY DEF IInv
<1>2. issues' = issues /\ posts' = posts
  BY DEF github
<1>3. day \in Nat /\ day' \in Nat /\ calls \in Nat /\ calls' \in Nat
  BY <1>1 DEF TypeOK
<1>4. \A n \in 1..Len(issues) : issues[n].updated \in Nat
  BY <1>1, Parts
<1>5. \A i \in 1..Len(posts) : posts[i].call \in Nat
  BY <1>1, Parts
<1>6. Recorded'
  BY <1>1, <1>2, <1>3, <1>4, <1>5 DEF Recorded
<1>7. NewestLast' /\ NoRepeatWhileOpen'
  BY <1>1, <1>2 DEF NewestLast, NoRepeatWhileOpen
<1> QED BY <1>6, <1>7

\* Beginning and ending a run, a call that begins and the passing of days.
LEMMA RunKeeps ==
    ASSUME IInv, StartRun \/ EndRun \/ Alert \/ Tick
    PROVE  IInv'
<1>1. TypeOK /\ SuppressedMeansTold
  BY DEF IInv
<1>2. UNCHANGED github /\ calls <= calls' /\ day <= day' /\ pc' # "post"
  BY <1>1 DEF StartRun, EndRun, Alert, Tick, TypeOK
<1>3. TypeOK'
  <2>1. issues' = issues /\ posts' = posts /\ UNCHANGED <<target, attempt>>
    BY DEF StartRun, EndRun, Alert, Tick, github
  <2>2. {MaxCalls, MaxDay} \subseteq Nat
    BY OpsAlertAssumption
  <2>3. day' \in 1..MaxDay /\ calls' \in 0..MaxCalls
    BY <1>1, <2>2 DEF StartRun, EndRun, Alert, Tick, TypeOK
  <2>4. repo' \in 0..day' /\ local' \in 0..day'
    BY <1>1, <1>2, <2>3 DEF StartRun, EndRun, Alert, Tick, TypeOK
  <2>5. pc' \in {"off", "idle", "search", "post"}
    BY <1>1 DEF StartRun, EndRun, Alert, Tick, TypeOK
  <2> QED BY <1>1, <2>1, <2>3, <2>4, <2>5 DEF TypeOK
<1>4. repo' \in {repo, local} /\ local' \in {repo, local} /\ issues' = issues
  BY DEF StartRun, EndRun, Alert, Tick, github
<1>5. SuppressedMeansTold'
  BY <1>1, <1>4 DEF SuppressedMeansTold
<1>6. Aimed'
  BY <1>2 DEF Aimed
<1> QED BY <1>2, <1>3, <1>5, <1>6, QuietKeep DEF IInv

\* The search finds the newest open issue, which is at least as young as what any post
\* within the interval has left open.
LEMMA SearchKeeps ==
    ASSUME IInv, Search
    PROVE  IInv'
<1>1. TypeOK /\ Recorded /\ NewestLast /\ SuppressedMeansTold
  BY DEF IInv
<1>2. UNCHANGED <<day, repo, issues, posts, calls>> /\ UNCHANGED github
  BY DEF Search, github
<1>3. day \in Nat /\ calls \in Nat /\ MinInterval \in Nat \ {0} /\ Len(issues) \in Nat
  BY <1>1, Parts
<1>4. CASE Fail /\ UNCHANGED <<target, attempt>>
  <2>1. TypeOK' /\ Aimed'
    BY <1>1, <1>2, <1>4 DEF Fail, TypeOK, Aimed
  <2>2. SuppressedMeansTold'
    BY <1>1, <1>2, <1>4 DEF Fail, SuppressedMeansTold
  <2> QED BY <1>2, <1>3, <2>1, <2>2, QuietKeep DEF IInv
<1>5. ASSUME NEW n \in Open, \A k \in Open : k <= n,
             day - issues[n].updated < MinInterval, Note, UNCHANGED <<target, attempt>>
      PROVE  IInv'
  <2>1. TypeOK' /\ Aimed'
    BY <1>1, <1>2, <1>5 DEF Note, TypeOK, Aimed
  <2>2. SuppressedMeansTold'
    BY <1>1, <1>2, <1>5 DEF Note, SuppressedMeansTold, Open
  <2> QED BY <1>2, <1>3, <2>1, <2>2, QuietKeep DEF IInv
<1>6. ASSUME NEW n \in 0..Len(issues), Post(n),
             n = 0 => Open = {},
             n # 0 => /\ n \in Open
                      /\ \A k \in Open : k <= n
                      /\ day - issues[n].updated >= MinInterval
      PROVE  IInv'
  <2>1. TypeOK'
    BY <1>1, <1>2, <1>6, OpsAlertAssumption DEF Post, TypeOK
  <2>2. SuppressedMeansTold'
    BY <1>1, <1>2, <1>6 DEF Post, SuppressedMeansTold
  <2>3. \A k \in 1..Len(issues) : issues[k].open => n # 0 /\ k <= n
    BY <1>6 DEF Open
  <2>4. ASSUME NEW i \in 1..Len(posts), day - posts[i].day < MinInterval,
               issues[posts[i].issue].open
        PROVE  FALSE
    <3>1. posts[i].issue \in 1..Len(issues) /\ posts[i].day <= issues[posts[i].issue].updated
      BY <1>1 DEF Recorded
    <3>2. n # 0 /\ posts[i].issue <= n /\ n \in 1..Len(issues)
      BY <1>6, <2>3, <2>4, <3>1
    <3>3. issues[n].open
      BY <1>6, <2>3, <2>4, <3>1, <3>2 DEF Open
    <3>4. posts[i].day <= issues[n].updated
      BY <1>1, <3>1, <3>2, <3>3 DEF NewestLast
    <3>5. posts[i].day \in Nat /\ issues[n].updated \in Nat
      BY <1>1, <3>2, Parts
    <3> QED BY <1>3, <1>6, <2>4, <3>2, <3>4, <3>5
  <2>5. Aimed'
    <3>1. target' = n
      BY <1>6 DEF Post
    <3>2. \A k \in 1..Len(issues) : target' # 0 /\ k > target' => ~ issues[k].open
      BY <1>3, <2>3, <3>1
    <3> QED BY <1>2, <2>4, <3>2 DEF Aimed
  <2> QED BY <1>2, <1>3, <2>1, <2>2, <2>5, QuietKeep DEF IInv
<1>7. CASE Open = {} /\ Post(0)
  BY <1>3, <1>6, <1>7
<1>8. CASE \E n \in Open : (\A k \in Open : k <= n) /\ Found(n)
  <2>1. PICK n \in Open : (\A k \in Open : k <= n) /\ Found(n)
    BY <1>8
  <2>2. n \in 1..Len(issues)
    BY DEF Open
  <2> QED BY <1>3, <1>5, <1>6, <2>1, <2>2 DEF Found
<1> QED BY <1>4, <1>7, <1>8 DEF Search

\* An attempt that GitHub processes adds a post, and only to an issue that no issue opened
\* later is open beside; one that it does not process only moves the call.
LEMMA PostKeeps ==
    ASSUME IInv, PostAttempt
    PROVE  IInv'
<1>1. TypeOK /\ Recorded /\ NewestLast /\ Aimed /\ SuppressedMeansTold /\ NoRepeatWhileOpen
  BY DEF IInv
<1>2. pc = "post" /\ UNCHANGED <<day, repo, calls, target>>
  BY DEF PostAttempt
<1>3. day \in Nat /\ calls \in Nat /\ MinInterval \in Nat \ {0} /\ Len(issues) \in Nat
  BY <1>1, Parts
<1>4. /\ pc' \in {"post", "idle"}
      /\ local' \in {day, local}
      /\ attempt' \in 1..MaxAttempts
  <2>1. MaxAttempts \in Nat
    BY OpsAlertAssumption
  <2> QED BY <1>1, <1>2, <2>1 DEF PostAttempt, Note, Retry, GiveUp, Fail, TypeOK
<1>5. CASE UNCHANGED github /\ local' = local
  <2>1. issues' = issues /\ posts' = posts
    BY <1>5 DEF github
  <2>2. TypeOK' /\ Aimed' /\ SuppressedMeansTold'
    BY <1>1, <1>2, <1>4, <1>5, <2>1 DEF TypeOK, Aimed, SuppressedMeansTold
  <2> QED BY <1>2, <1>3, <1>5, <2>2, QuietKeep DEF IInv
<1>6. CASE Process
  <2> DEFINE new == [call |-> calls, day |-> day, issue |-> Hit]
  <2>1. /\ Grows
        /\ Hit \in 1..Len(issues') /\ issues'[Hit].updated = day
        /\ \A k \in 1..Len(issues') : k > Hit => k <= Len(issues) /\ target # 0
        /\ posts' = Append(posts, new)
    BY <1>6, ProcessGrow
  <2>2. issues' \in Seq(Issues) /\ Len(issues') \in Nat /\ Len(issues) <= Len(issues')
    BY <2>1 DEF Grows
  <2>3. new \in Posts
    <3>1. Hit \in Nat
      BY <2>1, <2>2
    <3> QED BY <1>1, <3>1 DEF TypeOK, Posts
  <2>4. /\ posts' \in Seq(Posts)
        /\ Len(posts) \in Nat
        /\ Len(posts') = Len(posts) + 1
        /\ \A i \in 1..Len(posts) : posts'[i] = posts[i]
        /\ posts'[Len(posts) + 1] = new
    BY <1>1, <2>1, <2>3, AppendProperties DEF TypeOK
  <2>5. \A i \in 1..Len(posts') : i \in 1..Len(posts) \/ posts'[i] = new
    BY <2>4
  <2>6. ASSUME NEW n \in 1..Len(issues)
        PROVE  /\ issues'[n].open => issues[n].open
               /\ issues[n].updated \in Nat
               /\ issues[n].updated <= issues'[n].updated
               /\ issues'[n].updated <= day
               /\ issues'[n].updated \in Nat
    <3>1. issues[n].updated \in Nat /\ issues[n].updated <= day
      BY <1>1, Parts DEF Recorded
    <3>2. /\ issues'[n].open => issues[n].open
          /\ issues'[n].updated \in {issues[n].updated, day}
      BY <2>1 DEF Grows
    <3> QED BY <1>3, <3>1, <3>2
  <2>7. \A n \in 1..Len(issues') : n \notin 1..Len(issues) => issues'[n].updated = day
    BY <1>3, <2>1, <2>2 DEF Grows
  <2>8. ASSUME NEW i \in 1..Len(posts)
        PROVE  /\ posts[i].call \in Nat /\ posts[i].call <= calls
               /\ posts[i].issue \in 1..Len(issues)
               /\ posts[i].day \in Nat /\ posts[i].day <= day
               /\ posts[i].day <= issues'[posts[i].issue].updated
    <3>1. posts[i].call \in Nat /\ posts[i].day \in Nat
      BY <1>1, Parts
    <3>2. /\ posts[i].call <= calls
          /\ posts[i].issue \in 1..Len(issues)
          /\ posts[i].day <= issues[posts[i].issue].updated
      BY <1>1 DEF Recorded
    <3>3. PICK n \in 1..Len(issues) : n = posts[i].issue
      BY <3>2
    <3>4. /\ issues[n].updated \in Nat /\ issues'[n].updated \in Nat
          /\ issues[n].updated <= issues'[n].updated
          /\ issues'[n].updated <= day
      BY <2>6
    <3>5. posts[i].day <= day /\ posts[i].day <= issues'[n].updated
      BY <1>3, <3>1, <3>2, <3>3, <3>4
    <3> QED BY <3>1, <3>2, <3>3, <3>5
  <2>9. TypeOK'
    BY <1>1, <1>2, <1>3, <1>4, <2>2, <2>4 DEF TypeOK
  <2>10. Recorded'
    <3>1. \A n \in 1..Len(issues') : issues'[n].updated <= day
      BY <1>3, <2>6, <2>7
    <3>2. ASSUME NEW i \in 1..Len(posts')
          PROVE  /\ posts'[i].call <= calls
                 /\ posts'[i].issue \in 1..Len(issues')
                 /\ posts'[i].day <= issues'[posts'[i].issue].updated
      <4>1. CASE i \in 1..Len(posts)
        BY <1>3, <2>2, <2>4, <2>8, <4>1
      <4>2. CASE posts'[i] = new
        BY <1>3, <2>1, <4>2
      <4> QED BY <2>5, <4>1, <4>2
    <3> QED BY <1>2, <3>1, <3>2 DEF Recorded
  <2>11. ASSUME NEW n \in 1..Len(issues'), n > Hit, issues'[n].open
         PROVE  FALSE
    <3>1. n \in 1..Len(issues) /\ target # 0 /\ Hit = target
      BY <1>3, <2>1, <2>2, <2>11 DEF Hit
    <3> QED BY <1>1, <1>2, <2>6, <2>11, <3>1 DEF Aimed
  <2>12. NewestLast'
    <3>1. ASSUME NEW i \in 1..Len(posts'), NEW n \in 1..Len(issues'),
                 n > posts'[i].issue, issues'[n].open
          PROVE  posts'[i].day <= issues'[n].updated
      <4>1. CASE i \in 1..Len(posts) /\ n \in 1..Len(issues)
        <5>1. issues[n].open /\ posts'[i] = posts[i]
          BY <2>4, <2>6, <3>1, <4>1
        <5>2. posts[i].day <= issues[n].updated
          BY <1>1, <3>1, <4>1, <5>1 DEF NewestLast
        <5> QED BY <2>6, <2>8, <4>1, <5>1, <5>2
      <4>2. CASE i \in 1..Len(posts) /\ n \notin 1..Len(issues)
        BY <2>4, <2>7, <2>8, <4>2
      <4>3. CASE posts'[i] = new
        BY <2>11, <3>1, <4>3
      <4> QED BY <2>5, <4>1, <4>2, <4>3
    <3> QED BY <3>1 DEF NewestLast
  <2>13. Aimed'
    <3>1. \A n \in 1..Len(issues') : target' # 0 /\ n > target' => ~ issues'[n].open
      BY <1>2, <2>11 DEF Hit
    <3>2. ASSUME NEW i \in 1..Len(posts'), posts'[i].call < calls,
                 day - posts'[i].day < MinInterval
          PROVE  ~ issues'[posts'[i].issue].open
      <4>1. i \in 1..Len(posts) /\ posts'[i] = posts[i]
        BY <1>3, <2>4, <2>5, <3>2
      <4>2. ~ issues[posts[i].issue].open
        BY <1>1, <1>2, <3>2, <4>1 DEF Aimed
      <4> QED BY <2>6, <2>8, <4>1, <4>2
    <3> QED BY <1>2, <3>1, <3>2 DEF Aimed
  <2>14. NoRepeatWhileOpen'
    <3>1. ASSUME NEW i \in 1..Len(posts'), NEW j \in 1..Len(posts'),
                 posts'[i].call < posts'[j].call,
                 posts'[j].day - posts'[i].day < MinInterval
          PROVE  ~ issues'[posts'[i].issue].open
      <4>1. i \in 1..Len(posts) /\ posts'[i] = posts[i]
        <5>1. posts'[j].call <= calls /\ posts'[j].call \in Nat
          BY <1>3, <2>4, <2>5, <2>8
        <5> QED BY <1>3, <2>4, <2>5, <3>1, <5>1
      <4>2. CASE j \in 1..Len(posts)
        <5>1. posts'[j] = posts[j]
          BY <2>4, <4>2
        <5>2. ~ issues[posts[i].issue].open
          BY <1>1, <3>1, <4>1, <4>2, <5>1 DEF NoRepeatWhileOpen
        <5> QED BY <2>6, <2>8, <4>1, <5>2
      <4>3. CASE posts'[j] = new
        <5>1. ~ issues[posts[i].issue].open
          BY <1>1, <1>2, <3>1, <4>1, <4>3 DEF Aimed
        <5> QED BY <2>6, <2>8, <4>1, <5>1
      <4> QED BY <2>5, <4>2, <4>3
    <3> QED BY <3>1 DEF NoRepeatWhileOpen
  <2>15. SuppressedMeansTold'
    <3>1. ASSUME NEW d \in {repo', local'} \ {0}
          PROVE  \E n \in 1..Len(issues') : d - issues'[n].updated < MinInterval
      <4>1. CASE d \in {repo, local}
        BY <2>1, <4>1, ToldKept
      <4>2. CASE d = day
        BY <1>3, <2>1, <4>2
      <4> QED BY <1>2, <1>4, <4>1, <4>2
    <3> QED BY <3>1 DEF SuppressedMeansTold
  <2> QED BY <2>9, <2>10, <2>12, <2>13, <2>14, <2>15 DEF IInv
<1> QED BY <1>5, <1>6 DEF PostAttempt, Retry, GiveUp, Fail

LEMMA NextKeeps == IInv /\ [Next]_vars => IInv'
<1> SUFFICES ASSUME IInv, [Next]_vars
             PROVE  IInv'
  OBVIOUS
<1>1. CASE StartRun \/ EndRun \/ Alert \/ Tick
  BY <1>1, RunKeeps
<1>2. CASE Search
  BY <1>2, SearchKeeps
<1>3. CASE PostAttempt
  BY <1>3, PostKeeps
<1>4. CASE People
  BY <1>4, PeopleKeep
<1>5. CASE UNCHANGED vars
  BY <1>5 DEF vars, github, IInv, TypeOK, Recorded, NewestLast, Aimed,
              SuppressedMeansTold, NoRepeatWhileOpen
<1> QED BY <1>1, <1>2, <1>3, <1>4, <1>5 DEF Next

LEMMA Inductive == Spec => []IInv
BY InitEstablishes, NextKeeps, PTL DEF Spec

\* Every variable of the alerts keeps its type.
THEOREM AlertsTypeCorrect == Spec => []TypeOK
<1>1. IInv => TypeOK
  BY DEF IInv
<1> QED BY <1>1, Inductive, PTL

\* Whenever the state file suppresses a title, one of its issues was updated less than an
\* interval before the day noted, however files, answers and runs are lost.
THEOREM SuppressionJustified == Spec => []SuppressedMeansTold
<1>1. IInv => SuppressedMeansTold
  BY DEF IInv
<1> QED BY <1>1, Inductive, PTL

\* No call alerts again within the interval while the issue it alerted on is open.
THEOREM AlertsOnce == Spec => []NoRepeatWhileOpen
<1>1. IInv => NoRepeatWhileOpen
  BY DEF IInv
<1> QED BY <1>1, Inductive, PTL
=============================================================================
