--------------------------- MODULE HttpFilesProofs -------------------------
(***************************************************************************)
(* First the retry loop: the request count never passes what was sent by   *)
(* more than the requests in flight at midnight, for every number of       *)
(* threads and every budget; and one thread alone keeps the budget of each *)
(* day and the interval between requests.  Then downloads: one that        *)
(* returns leaves the file at the version the server has answered for, for *)
(* any number of threads, versions, failures and restarts, and what is     *)
(* proved of the retry loop holds of a client that downloads.              *)
(***************************************************************************)
EXTENDS HttpFiles, FiniteSetTheorems, TLAPS

\* Threads that owe the file a count.
Owes == {"sending", "counting"}
Owed(p) == {t \in Threads : p[t] \in Owes}
Owing == Cardinality(Owed(pc))

Writes == {"truncating", "writing"}

\* No count is from the future.
DatesPast ==
    /\ file.date <= day
    /\ \A t \in Threads : tally[t].date <= day

\* A count of today, in the file or about to be written, leaves room for all that is owed.
RoomLeft ==
    /\ file.date = day => file.used + Owing <= sent + Cardinality(Threads)
    /\ \A t \in Threads : pc[t] \in Writes /\ tally[t].date = day =>
        tally[t].used + Owing <= sent + Cardinality(Threads)

\* The inductive invariant.  The bound on the file alone is not inductive: a count adds
\* one to it when its request may long have been sent.
IInv == TypeOK /\ DatesPast /\ RoomLeft
-----------------------------------------------------------------------------
\* The threads that owe a count are finitely many.
LEMMA OwedSize ==
    ASSUME NEW p
    PROVE  /\ IsFiniteSet(Owed(p))
           /\ Cardinality(Owed(p)) \in Nat /\ Cardinality(Threads) \in Nat
           /\ Cardinality(Owed(p)) <= Cardinality(Threads)
<1>1. IsFiniteSet(Threads) /\ Owed(p) \in SUBSET Threads
  BY HttpBudgetAssumption DEF Owed
<1>2. IsFiniteSet(Owed(p)) /\ Cardinality(Owed(p)) <= Cardinality(Threads)
  BY <1>1, FS_Subset
<1> QED BY <1>1, <1>2, FS_CardinalityType

\* One thread that moves changes their number by at most one.
LEMMA OwedMoves ==
    ASSUME NEW p \in [Threads -> Steps], NEW t \in Threads, NEW s \in Steps,
           NEW q, q = [p EXCEPT ![t] = s]
    PROVE  /\ Cardinality(Owed(q)) <= Cardinality(Owed(p)) + 1
           /\ p[t] \in Owes \/ s \notin Owes => Cardinality(Owed(q)) <= Cardinality(Owed(p))
           /\ p[t] \in Owes /\ s \notin Owes => Cardinality(Owed(q)) = Cardinality(Owed(p)) - 1
<1>1. IsFiniteSet(Owed(p)) /\ Cardinality(Owed(p)) \in Nat
  BY OwedSize
<1>2. CASE s \in Owes
  <2>1. Owed(q) = Owed(p) \cup {t}
    BY <1>2 DEF Owed
  <2>2. t \in Owed(p) <=> p[t] \in Owes
    BY DEF Owed
  <2>3. Cardinality(Owed(p) \cup {t}) = IF t \in Owed(p) THEN Cardinality(Owed(p))
                                        ELSE Cardinality(Owed(p)) + 1
    BY <1>1, FS_AddElement
  <2>4. CASE p[t] \in Owes
    <3>1. Cardinality(Owed(q)) = Cardinality(Owed(p))
      BY <2>1, <2>2, <2>3, <2>4
    <3> QED BY <1>1, <1>2, <2>4, <3>1
  <2>5. CASE p[t] \notin Owes
    <3>1. Cardinality(Owed(q)) = Cardinality(Owed(p)) + 1
      BY <2>1, <2>2, <2>3, <2>5
    <3> QED BY <1>1, <1>2, <2>5, <3>1
  <2> QED BY <2>4, <2>5
<1>3. CASE s \notin Owes
  <2>1. Owed(q) = Owed(p) \ {t}
    BY <1>3 DEF Owed
  <2>2. t \in Owed(p) <=> p[t] \in Owes
    BY DEF Owed
  <2>3. Cardinality(Owed(p) \ {t}) = IF t \in Owed(p) THEN Cardinality(Owed(p)) - 1
                                     ELSE Cardinality(Owed(p))
    BY <1>1, FS_RemoveElement
  <2>4. CASE p[t] \in Owes
    <3>1. Cardinality(Owed(q)) = Cardinality(Owed(p)) - 1
      BY <2>1, <2>2, <2>3, <2>4
    <3> QED BY <1>1, <1>3, <2>4, <3>1
  <2>5. CASE p[t] \notin Owes
    <3>1. Cardinality(Owed(q)) = Cardinality(Owed(p))
      BY <2>1, <2>2, <2>3, <2>5
    <3> QED BY <1>1, <1>3, <2>5, <3>1
  <2> QED BY <2>4, <2>5
<1> QED BY <1>2, <1>3

\* The types of what the steps compare.
LEMMA Parts ==
    ASSUME TypeOK
    PROVE  /\ day \in Nat /\ file.date \in Nat /\ file.used \in Nat
           /\ sent \in Nat /\ uncounted \in Nat /\ crashes \in Nat
           /\ Owing \in Nat /\ Cardinality(Threads) \in Nat
           /\ \A t \in Threads : tally[t].date \in Nat /\ tally[t].used \in Nat
<1>1. /\ day \in Nat /\ file.date \in Nat /\ file.used \in Nat
      /\ sent \in Nat /\ uncounted \in Nat /\ crashes \in Nat
  BY HttpBudgetAssumption DEF TypeOK, Counts
<1>2. \A t \in Threads : tally[t].date \in Nat /\ tally[t].used \in Nat
  BY HttpBudgetAssumption DEF TypeOK, Counts
<1> QED BY <1>1, <1>2, OwedSize DEF Owing

LEMMA AttemptsType == Attempts \in Nat \ {0}
BY HttpBudgetAssumption DEF Attempts

LEMMA InitEstablishes == Init => IInv
<1> SUFFICES ASSUME Init
             PROVE  IInv
  OBVIOUS
<1>1. TypeOK
  BY HttpBudgetAssumption, AttemptsType DEF Init, TypeOK, None, Counts, Steps
<1>2. DatesPast /\ file.date # day /\ \A t \in Threads : pc[t] \notin Writes
  BY DEF Init, DatesPast, None, Writes
<1> QED BY <1>1, <1>2 DEF IInv, RoomLeft

\* Goto and Retry move one thread to a step of the program.
LEMMA GotoMoves ==
    ASSUME TypeOK, NEW t \in Threads, NEW s \in Steps, Goto(t, s)
    PROVE  pc' \in [Threads -> Steps] /\ pc' = [pc EXCEPT ![t] = s]
BY DEF TypeOK, Goto

LEMMA RetryMoves ==
    ASSUME TypeOK, NEW t \in Threads, Retry(t)
    PROVE  /\ try' \in [Threads -> 1..Attempts]
           /\ \E s \in {"attempt", "idle"} : Goto(t, s)
<1>1. CASE try[t] < Attempts /\ Goto(t, "attempt") /\ try' = [try EXCEPT ![t] = @ + 1]
  <2>1. try[t] + 1 \in 1..Attempts
    BY <1>1, AttemptsType DEF TypeOK
  <2> QED BY <1>1, <2>1 DEF TypeOK
<1>2. CASE Goto(t, "idle") /\ UNCHANGED try
  BY <1>2 DEF TypeOK
<1> QED BY <1>1, <1>2 DEF Retry

\* Arithmetic of a count that keeps its room.
LEMMA Carry ==
    ASSUME NEW used \in Nat, NEW n \in Nat, NEW owed \in Nat, NEW owed2 \in Nat,
           NEW requests \in Nat, NEW requests2 \in Nat,
           used + owed <= requests + n, owed2 + requests <= owed + requests2
    PROVE  used + owed2 <= requests2 + n
OBVIOUS

LEMMA AddRight ==
    ASSUME NEW a \in Nat, NEW b \in Nat, NEW c \in Nat, a <= b
    PROVE  a + c <= b + c
OBVIOUS

\* A step that reads and writes no count, and owes one more only with a request sent.
LEMMA QuietKeeps ==
    ASSUME IInv, TypeOK', day' = day, tally' = tally, file' \in {file, None},
           Owing' + sent <= Owing + sent',
           \A t \in Threads : pc'[t] \in Writes => pc[t] \in Writes
    PROVE  IInv'
<1>1. /\ day \in Nat /\ file.date \in Nat /\ file.used \in Nat /\ sent \in Nat /\ Owing \in Nat
      /\ Cardinality(Threads) \in Nat
      /\ \A t \in Threads : tally[t].date \in Nat /\ tally[t].used \in Nat
  BY Parts DEF IInv
<1>2. sent' \in Nat /\ Owing' \in Nat
  BY OwedSize DEF TypeOK, Owing
<1>3. day > 0 /\ None.date = 0
  BY <1>1 DEF IInv, TypeOK, None
<1>4. DatesPast'
  BY <1>1, <1>3 DEF IInv, DatesPast
<1>5. file'.date = day' => file'.used + Owing' <= sent' + Cardinality(Threads)
  <2> SUFFICES ASSUME file'.date = day'
               PROVE  file.used + Owing' <= sent' + Cardinality(Threads) /\ file' = file
    OBVIOUS
  <2>1. file' = file /\ file.date = day
    BY <1>3
  <2>2. file.used + Owing <= sent + Cardinality(Threads)
    BY <2>1 DEF IInv, RoomLeft
  <2>3. file.used + Owing' <= sent' + Cardinality(Threads)
    BY <1>1, <1>2, <2>2, Carry
  <2> QED BY <2>1, <2>3
<1>6. ASSUME NEW t \in Threads, pc'[t] \in Writes, tally'[t].date = day'
      PROVE  tally'[t].used + Owing' <= sent' + Cardinality(Threads)
  <2>1. tally[t].used + Owing <= sent + Cardinality(Threads)
    BY <1>6 DEF IInv, RoomLeft
  <2>2. tally[t].used \in Nat
    BY <1>1
  <2>3. tally[t].used + Owing' <= sent' + Cardinality(Threads)
    BY <1>1, <1>2, <2>1, <2>2, Carry
  <2> QED BY <2>3
<1> QED BY <1>4, <1>5, <1>6 DEF IInv, RoomLeft

\* One thread moves, counts nothing and owes no more than it did.
LEMMA MoveKeeps ==
    ASSUME IInv, TypeOK', NEW t \in Threads, NEW s \in Steps \ Writes, Goto(t, s),
           day' = day, tally' = tally, file' = file, sent' = sent,
           pc[t] \in Owes \/ s \notin Owes
    PROVE  IInv'
<1>1. pc \in [Threads -> Steps] /\ pc' = [pc EXCEPT ![t] = s]
  BY DEF IInv, TypeOK, Goto
<1>2. Owing' <= Owing
  BY <1>1, OwedMoves DEF Owing
<1>3. \A u \in Threads : pc'[u] \in Writes => pc[u] \in Writes
  BY <1>1
<1>4. Owing \in Nat /\ sent \in Nat /\ Owing' \in Nat
  BY Parts, OwedSize DEF IInv, Owing
<1>5. Owing' + sent <= Owing + sent
  BY <1>2, <1>4, AddRight
<1>6. Owing' + sent <= Owing + sent'
  BY <1>5
<1> QED BY <1>3, <1>6, QuietKeeps
-----------------------------------------------------------------------------
\* One step per action of a thread: what it does to the types and to the counts.
LEMMA StepKeeps ==
    ASSUME IInv, NEW t \in Threads, Call(t) \/ Step(t) \/ Redirected(t)
    PROVE  IInv'
<1> USE DEF file_, clock, history, local
<1>1. TypeOK /\ pc \in [Threads -> Steps]
  BY DEF IInv, TypeOK
<1>2. /\ day \in Nat /\ file.date \in Nat /\ file.used \in Nat
      /\ sent \in Nat /\ uncounted \in Nat /\ Owing \in Nat /\ Cardinality(Threads) \in Nat
      /\ \A u \in Threads : tally[u].date \in Nat /\ tally[u].used \in Nat
  BY <1>1, Parts
<1>3. {"idle", "attempt", "checked", "throttling", "unopened"} \subseteq (Steps \ Writes) \ Owes
      /\ {"sending", "counting"} \subseteq (Steps \ Writes) \cap Owes
      /\ {"truncating", "writing"} \subseteq (Steps \cap Writes) \ Owes
  BY DEF Steps, Writes, Owes
<1>4. CASE Call(t)
  <2>1. Goto(t, "attempt") /\ day' = day /\ tally' = tally /\ file' = file /\ sent' = sent
    BY <1>4 DEF Call
  <2>2. TypeOK'
    BY <1>1, <1>3, <1>4, <2>1, GotoMoves, AttemptsType DEF Call, TypeOK
  <2> QED BY <1>3, <2>1, <2>2, MoveKeeps
<1>5. CASE CheckBudget(t)
  <2>1. PICK s \in {"idle", "checked"} : Goto(t, s)
    BY <1>5 DEF CheckBudget
  <2>2. TypeOK'
    BY <1>1, <1>3, <1>5, <2>1, GotoMoves DEF CheckBudget, TypeOK
  <2> QED BY <1>3, <1>5, <2>1, <2>2, MoveKeeps DEF CheckBudget
<1>6. CASE Throttle(t)
  <2>1. MinInterval - since \in 0..MinInterval
    BY <1>1, HttpBudgetAssumption DEF TypeOK
  <2>2. TypeOK'
    BY <1>1, <1>3, <1>6, <2>1, GotoMoves DEF Throttle, TypeOK
  <2> QED BY <1>3, <1>6, <2>2, MoveKeeps DEF Throttle
<1>7. CASE Send(t)
  <2>1. 0 \in 0..MinInterval /\ since' = 0 /\ gap' = 0 /\ lag' = 0
    BY <1>7, HttpBudgetAssumption DEF Send
  <2>2. CASE Goto(t, "sending") /\ sent' = sent + 1
    <3>1. pc' \in [Threads -> Steps] /\ pc' = [pc EXCEPT ![t] = "sending"]
      BY <1>1, <1>3, <2>2, GotoMoves
    <3>2. TypeOK'
      BY <1>1, <1>2, <1>7, <2>1, <2>2, <3>1 DEF Send, TypeOK
    <3>3. Owing' <= Owing + 1
      BY <1>1, <1>3, <3>1, OwedMoves DEF Owing
    <3>4. Owing' + sent <= Owing + sent'
      BY <1>2, <2>2, <3>3, OwedSize DEF Owing
    <3>5. \A u \in Threads : pc'[u] \in Writes => pc[u] \in Writes
      BY <1>1, <1>3, <3>1
    <3> QED BY <1>7, <3>2, <3>4, <3>5, QuietKeeps DEF Send
  <2>3. CASE Goto(t, "unopened") /\ UNCHANGED sent
    <3>1. TypeOK'
      BY <1>1, <1>3, <1>7, <2>1, <2>3, GotoMoves DEF Send, TypeOK
    <3> QED BY <1>3, <1>7, <2>3, <3>1, MoveKeeps DEF Send
  <2> QED BY <1>7, <2>2, <2>3 DEF Send
<1>8. CASE NotSent(t)
  <2>1. try' \in [Threads -> 1..Attempts] /\ \E s \in {"attempt", "idle"} : Goto(t, s)
    BY <1>1, <1>8, RetryMoves DEF NotSent
  <2>2. PICK s \in {"attempt", "idle"} : Goto(t, s)
    BY <2>1
  <2>3. TypeOK'
    BY <1>1, <1>3, <1>8, <2>1, <2>2, GotoMoves DEF NotSent, TypeOK
  <2> QED BY <1>3, <1>8, <2>2, <2>3, MoveKeeps DEF NotSent
<1>9. CASE Answered(t)
  <2>1. verdict' \in [Threads -> {"done", "retry"}]
    BY <1>1, <1>9 DEF Answered, TypeOK
  <2>2. TypeOK'
    BY <1>1, <1>3, <1>9, <2>1, GotoMoves DEF Answered, TypeOK
  <2> QED BY <1>3, <1>9, <2>2, MoveKeeps DEF Answered
<1>10. CASE Redirected(t)
  <2>1. TypeOK'
    <3>1. gap' \in 0..MinInterval /\ lag' \in 0..MinInterval
      BY <1>1, <1>10, HttpBudgetAssumption DEF Redirected, TypeOK
    <3> QED BY <1>1, <1>2, <1>10, <3>1 DEF Redirected, TypeOK
  <2>2. Owing' = Owing /\ sent' = sent + 1
    BY <1>10 DEF Redirected, Owing
  <2>3. Owing' + sent <= Owing + sent'
    BY <1>2, <2>2
  <2> QED BY <1>10, <2>1, <2>3, QuietKeeps DEF Redirected
<1>11. CASE Escapes(t)
  <2>1. TypeOK'
    BY <1>1, <1>2, <1>3, <1>11, GotoMoves DEF Escapes, TypeOK
  <2> QED BY <1>3, <1>11, <2>1, MoveKeeps DEF Escapes
<1>12. CASE ReadCount(t)
  <2> DEFINE c == [date |-> day, used |-> Used + 1]
  <2>1. pc' \in [Threads -> Steps] /\ pc' = [pc EXCEPT ![t] = "truncating"]
    BY <1>1, <1>3, <1>12, GotoMoves DEF ReadCount
  <2>2. Used \in Nat /\ c \in Counts
    BY <1>1, <1>2 DEF Used, TypeOK, Counts
  <2>3. /\ tally' = [tally EXCEPT ![t] = c] /\ tally' \in [Threads -> Counts]
        /\ tally'[t] = c
        /\ day' = day /\ file' = file /\ sent' = sent /\ pc[t] = "counting"
    BY <1>1, <1>12, <2>2 DEF ReadCount, TypeOK
  <2>4. TypeOK'
    BY <1>1, <1>12, <2>1, <2>3 DEF ReadCount, TypeOK
  <2>5. Owing' = Owing - 1 /\ Owing' \in Nat /\ Owing <= Cardinality(Threads)
    <3>1. pc[t] \in Owes /\ "truncating" \in Steps \ Owes
      BY <1>3, <2>3
    <3>2. Owing' = Owing - 1
      BY <1>1, <2>1, <3>1, OwedMoves DEF Owing
    <3> QED BY <3>2, OwedSize DEF Owing
  <2>6. DatesPast'
    BY <1>1, <1>2, <2>3 DEF IInv, DatesPast, TypeOK
  <2>7. file.date = day => file.used + Owing <= sent + Cardinality(Threads)
    BY DEF IInv, RoomLeft
  <2>8. file'.date = day' => file'.used + Owing' <= sent' + Cardinality(Threads)
    BY <1>2, <2>3, <2>5, <2>7
  <2>9. Used + 1 + Owing' <= sent + Cardinality(Threads)
    BY <1>2, <2>5, <2>7 DEF Used
  <2>10. ASSUME NEW u \in Threads, pc'[u] \in Writes, tally'[u].date = day'
         PROVE  tally'[u].used + Owing' <= sent' + Cardinality(Threads)
    <3>1. CASE u = t
      <4>1. tally'[u].used = Used + 1
        BY <2>3, <3>1
      <4> QED BY <2>3, <2>9, <4>1
    <3>2. CASE u # t
      <4>1. pc[u] \in Writes /\ tally'[u] = tally[u]
        BY <1>1, <2>1, <2>3, <2>10, <3>2 DEF TypeOK
      <4>2. tally[u].used + Owing <= sent + Cardinality(Threads) /\ tally[u].used \in Nat
        BY <1>2, <2>3, <2>10, <4>1 DEF IInv, RoomLeft
      <4>3. tally[u].used + Owing' <= sent + Cardinality(Threads)
        BY <1>2, <2>5, <4>2
      <4> QED BY <2>3, <4>1, <4>3
    <3> QED BY <3>1, <3>2
  <2> QED BY <2>4, <2>6, <2>8, <2>10 DEF IInv, RoomLeft
<1>13. CASE Truncate(t)
  <2>1. pc' \in [Threads -> Steps] /\ pc' = [pc EXCEPT ![t] = "writing"]
    BY <1>1, <1>3, <1>13, GotoMoves DEF Truncate
  <2>2. TypeOK'
    BY <1>1, <1>13, <2>1, HttpBudgetAssumption DEF Truncate, TypeOK, None, Counts
  <2>3. Owing' <= Owing
    BY <1>1, <1>3, <2>1, OwedMoves DEF Owing
  <2>4. sent' = sent /\ pc[t] = "truncating"
    BY <1>13 DEF Truncate
  <2>5. Owing' + sent <= Owing + sent'
    BY <1>2, <2>3, <2>4, OwedSize DEF Owing
  <2>6. \A u \in Threads : pc'[u] \in Writes => pc[u] \in Writes
    BY <1>1, <1>3, <2>1, <2>4
  <2> QED BY <1>13, <2>2, <2>5, <2>6, QuietKeeps DEF Truncate
<1>14. CASE WriteCount(t)
  <2>1. /\ try' \in [Threads -> 1..Attempts]
        /\ \E s \in {"attempt", "idle"} : Goto(t, s)
    BY <1>1, <1>14, RetryMoves DEF WriteCount, TypeOK
  <2>2. PICK s \in {"attempt", "idle"} : Goto(t, s)
    BY <2>1
  <2>3. pc' \in [Threads -> Steps] /\ pc' = [pc EXCEPT ![t] = s]
    BY <1>1, <1>3, <2>2, GotoMoves
  <2>4. /\ file' = tally[t] /\ pc[t] = "writing"
        /\ day' = day /\ tally' = tally /\ sent' = sent
    BY <1>14 DEF WriteCount
  <2>5. TypeOK'
    BY <1>1, <1>14, <2>1, <2>3 DEF WriteCount, TypeOK
  <2>6. DatesPast'
    BY <2>4 DEF IInv, DatesPast
  <2>7. Owing' <= Owing /\ Owing' \in Nat
    BY <1>1, <1>3, <2>3, OwedMoves, OwedSize DEF Owing
  <2>8. ASSUME NEW u \in Threads, pc[u] \in Writes, tally[u].date = day
        PROVE  tally[u].used + Owing' <= sent + Cardinality(Threads)
    <3>1. tally[u].used + Owing <= sent + Cardinality(Threads) /\ tally[u].used \in Nat
      BY <1>2, <2>8 DEF IInv, RoomLeft
    <3> QED BY <1>2, <2>7, <3>1
  <2>9. \A u \in Threads : pc'[u] \in Writes => pc[u] \in Writes
    BY <1>1, <1>3, <2>3
  <2>10. pc[t] \in Writes
    BY <1>3, <2>4
  <2>11. RoomLeft'
    BY <2>4, <2>8, <2>9, <2>10 DEF RoomLeft
  <2> QED BY <2>5, <2>6, <2>11 DEF IInv
<1>15. CASE TargetUnopened(t)
  <2>1. try' \in [Threads -> 1..Attempts] /\ \E s \in {"attempt", "idle"} : Goto(t, s)
    BY <1>1, <1>15, RetryMoves DEF TargetUnopened
  <2>2. PICK s \in {"attempt", "idle"} : Goto(t, s)
    BY <2>1
  <2>3. TypeOK'
    BY <1>1, <1>2, <1>3, <1>15, <2>1, <2>2, GotoMoves DEF TargetUnopened, TypeOK
  <2> QED BY <1>3, <1>15, <2>2, <2>3, MoveKeeps DEF TargetUnopened
<1> QED BY <1>4, <1>5, <1>6, <1>7, <1>8, <1>9, <1>10, <1>11, <1>12, <1>13, <1>14, <1>15 DEF Step

\* Time and restarts: midnight leaves every count behind, a restart forgets what is owed.
LEMMA WorldKeeps ==
    ASSUME IInv, Tick \/ Midnight \/ Crash
    PROVE  IInv'
<1> USE DEF file_, clock, history, local
<1>1. TypeOK /\ pc \in [Threads -> Steps] /\ MinInterval \in Nat /\ MaxDay \in Nat
  BY HttpBudgetAssumption DEF IInv, TypeOK
<1>2. day \in Nat /\ sent \in Nat /\ crashes \in Nat /\ Owing \in Nat
      /\ file.date \in Nat /\ \A t \in Threads : tally[t].date \in Nat
  BY <1>1, Parts
<1>3. CASE Tick
  <2>1. since' \in 0..MinInterval /\ gap' \in 0..MinInterval
    BY <1>1, <1>3 DEF Tick, TypeOK
  <2>2. sleep' \in [Threads -> 0..MinInterval]
    <3>1. \A t \in Threads : (IF sleep[t] > 0 THEN sleep[t] - 1 ELSE 0) \in 0..MinInterval
      BY <1>1 DEF TypeOK
    <3> QED BY <1>3, <3>1 DEF Tick
  <2>3. TypeOK'
    BY <1>1, <1>3, <2>1, <2>2 DEF Tick, TypeOK
  <2>4. Owing' = Owing /\ sent' = sent
    BY <1>3 DEF Tick, Owing
  <2> QED BY <1>2, <1>3, <2>3, <2>4, QuietKeeps DEF Tick
<1>4. CASE Midnight
  <2>1. day' \in 1..MaxDay /\ day' = day + 1
    BY <1>1, <1>4 DEF Midnight, TypeOK
  <2>2. TypeOK'
    BY <1>1, <1>4, <2>1 DEF Midnight, TypeOK
  <2>3. file' = file /\ tally' = tally /\ file.date <= day
        /\ \A t \in Threads : tally[t].date <= day
    BY <1>4 DEF Midnight, IInv, DatesPast
  <2>4. DatesPast' /\ file'.date # day' /\ \A t \in Threads : tally'[t].date # day'
    BY <1>2, <2>1, <2>3 DEF DatesPast
  <2> QED BY <2>2, <2>4 DEF IInv, RoomLeft
<1>5. CASE Crash
  <2>1. pc' = [t \in Threads |-> "idle"] /\ sent' = sent
    BY <1>5 DEF Crash
  <2>2. TypeOK'
    <3>1. 0 \in 0..MinInterval /\ MinInterval \in 0..MinInterval
      BY <1>1
    <3> QED BY <1>1, <1>2, <1>5, <2>1, <3>1 DEF Crash, TypeOK, Steps
  <2>3. Owed(pc') = {}
    BY <2>1 DEF Owed, Owes
  <2>4. Owing' = 0
    BY <2>3, FS_EmptySet DEF Owing
  <2>5. \A t \in Threads : pc'[t] \notin Writes
    BY <2>1 DEF Writes
  <2>6. Owing' + sent <= Owing + sent'
    BY <1>2, <2>1, <2>4
  <2> QED BY <1>5, <2>2, <2>5, <2>6, QuietKeeps DEF Crash
<1> QED BY <1>3, <1>4, <1>5

LEMMA NextKeeps == IInv /\ [Next]_vars => IInv'
<1> SUFFICES ASSUME IInv, [Next]_vars
             PROVE  IInv'
  OBVIOUS
<1>1. CASE UNCHANGED vars
  BY <1>1 DEF vars, IInv, TypeOK, DatesPast, RoomLeft, Owing
<1>2. CASE Next
  BY <1>2, StepKeeps, WorldKeeps DEF Next
<1> QED BY <1>1, <1>2

LEMMA Inductive == Init /\ [][Next]_vars => []IInv
<1>1. Init => IInv
  BY InitEstablishes
<1>2. IInv /\ [Next]_vars => IInv'
  BY NextKeeps
<1> QED BY <1>1, <1>2, PTL

LEMMA CountsFollow == IInv => NeverOvercounts
<1> SUFFICES ASSUME IInv, file.date = day
             PROVE  file.used <= sent + Cardinality(Threads)
  BY DEF NeverOvercounts
<1>1. file.used + Owing <= sent + Cardinality(Threads)
  BY DEF IInv, RoomLeft
<1>2. file.used \in Nat /\ Owing \in Nat /\ sent \in Nat /\ Cardinality(Threads) \in Nat
  BY Parts DEF IInv
<1> QED BY <1>1, <1>2

\* Every variable of the retry loop keeps its type: no thread makes more attempts than
\* HostPolicy.attempts allows (http.py:439), whatever fails.
THEOREM BudgetTypeCorrect == Spec => []TypeOK
<1>1. IInv => TypeOK
  BY DEF IInv
<1> QED BY <1>1, Inductive, PTL DEF Spec

\* The file never holds more than was sent today and the requests in flight at midnight,
\* however many threads rewrite it without a lock (_count_request, http.py:526-541).
THEOREM CountsHold == Spec => []NeverOvercounts
BY CountsFollow, Inductive, PTL DEF Spec
-----------------------------------------------------------------------------
\* What the budget and the interval promise, they promise a client used by one thread:
\* several check the budget, and read the time of the latest request, before any of them
\* sends.
Alone == Threads = {D}

\* What passes the budget: requests the code leaves uncounted, and the whole of it again
\* for each restart.
Slack == DailyBudget * crashes + uncounted

\* What the count about to be written says of today.
Tallied == IF tally[D].date = day THEN tally[D].used ELSE 0

\* Every request of today is in the file, is owed to it, is in the count about to be
\* written, or is within the slack.
Accounted ==
    /\ pc[D] \notin Owes \cup Writes => sent <= Used + Slack
    /\ pc[D] \in Owes => sent <= Used + 1 + Slack
    /\ pc[D] \in Writes => sent <= Tallied + Slack

\* A request about to be sent has been found within the budget.
Allowed == pc[D] \in {"checked", "throttling"} => sent + 1 <= DailyBudget + Slack

\* The inductive invariant of the budget.  The bound alone is not inductive: the check is
\* made against the file, which must tell all that was sent; and between the two writes of
\* a count the file tells nothing, only the count about to be written does.
Within == sent <= DailyBudget + Slack /\ Accounted /\ Allowed

\* That of the interval: the throttle's sleep covers what is left of it.
SleepsEnough ==
    /\ since <= gap + lag
    /\ pc[D] = "throttling" => sleep[D] + since >= MinInterval

AloneInv == TypeOK /\ Within /\ SleepsEnough

\* The types of what these steps compare.
LEMMA AloneParts ==
    ASSUME TypeOK
    PROVE  /\ Slack \in Nat /\ Used \in Nat /\ Tallied \in Nat
           /\ sent \in Nat /\ DailyBudget \in Nat \ {0} /\ pc[D] \in Steps
           /\ D \in Threads /\ pc \in [Threads -> Steps]
<1>1. DailyBudget \in Nat \ {0} /\ D \in Threads
  BY HttpBudgetAssumption, HttpFilesAssumption
<1>2. crashes \in Nat /\ uncounted \in Nat /\ sent \in Nat /\ file.used \in Nat
      /\ tally[D].used \in Nat
  BY <1>1, Parts
<1>3. DailyBudget * crashes \in Nat
  BY <1>1, <1>2
<1>4. Slack \in Nat
  BY <1>2, <1>3 DEF Slack
<1> QED BY <1>1, <1>2, <1>4 DEF Used, Tallied, TypeOK

\* Where the program stands in the steps is told apart.
LEMMA StepsApart ==
    /\ {"idle", "attempt", "checked", "throttling", "unopened"} \cap (Owes \cup Writes) = {}
    /\ {"sending", "counting"} \cap Writes = {}
    /\ {"truncating", "writing"} \cap Owes = {}
BY DEF Owes, Writes

\* A step that sends and counts nothing, and checks the budget before it goes on.
LEMMA AloneQuiet ==
    ASSUME TypeOK, TypeOK', Within,
           day' = day, file' = file, tally' = tally,
           sent' = sent, uncounted' = uncounted, crashes' = crashes,
           pc'[D] \in Owes <=> pc[D] \in Owes,
           pc'[D] \in Writes <=> pc[D] \in Writes,
           pc'[D] \in {"checked", "throttling"} =>
                \/ pc[D] \in {"checked", "throttling"}
                \/ pc[D] = "attempt" /\ Used < DailyBudget
    PROVE  Within'
<1>1. /\ Slack \in Nat /\ Used \in Nat /\ sent \in Nat /\ DailyBudget \in Nat
  BY AloneParts
<1>2. Slack' = Slack /\ Used' = Used /\ Tallied' = Tallied
  BY DEF Slack, Used, Tallied
<1>3. sent' <= DailyBudget + Slack' /\ Accounted'
  BY <1>2 DEF Within, Accounted
<1>4. ASSUME pc[D] = "attempt", Used < DailyBudget
      PROVE  sent + 1 <= DailyBudget + Slack
  <2>1. sent <= Used + Slack
    BY <1>4, StepsApart DEF Within, Accounted
  <2> QED BY <1>1, <1>4, <2>1
<1>5. Allowed'
  BY <1>2, <1>4 DEF Within, Allowed
<1> QED BY <1>3, <1>5 DEF Within

\* The steps of the thread.
LEMMA AloneStep ==
    ASSUME TypeOK, TypeOK', Within, Call(D) \/ Step(D) \/ Redirected(D)
    PROVE  Within'
<1> USE DEF file_, clock, history, local
<1>1. /\ Slack \in Nat /\ Used \in Nat /\ Tallied \in Nat
      /\ sent \in Nat /\ DailyBudget \in Nat \ {0} /\ pc[D] \in Steps
      /\ D \in Threads /\ pc \in [Threads -> Steps]
  BY AloneParts
<1>2. /\ sent <= DailyBudget + Slack
      /\ pc[D] \notin Owes \cup Writes => sent <= Used + Slack
      /\ pc[D] \in Owes => sent <= Used + 1 + Slack
      /\ pc[D] \in Writes => sent <= Tallied + Slack
      /\ pc[D] \in {"checked", "throttling"} => sent + 1 <= DailyBudget + Slack
  BY DEF Within, Accounted, Allowed
<1>3. \A s \in Steps : Goto(D, s) => pc'[D] = s
  BY <1>1 DEF Goto
<1>4. CASE Call(D) \/ CheckBudget(D) \/ Throttle(D)
  <2>1. /\ day' = day /\ file' = file /\ tally' = tally
        /\ sent' = sent /\ uncounted' = uncounted /\ crashes' = crashes
    BY <1>4 DEF Call, CheckBudget, Throttle
  <2>2. /\ pc[D] \in {"idle", "attempt", "checked"}
        /\ pc'[D] \in {"idle", "attempt", "checked", "throttling"}
        /\ pc'[D] \in {"checked", "throttling"} =>
              \/ pc[D] \in {"checked", "throttling"}
              \/ pc[D] = "attempt" /\ Used < DailyBudget
    BY <1>1, <1>4 DEF Call, CheckBudget, Throttle, Goto
  <2> QED BY <2>1, <2>2, StepsApart, AloneQuiet
<1>5. CASE Send(D)
  <2>1. /\ pc[D] = "throttling" /\ day' = day /\ file' = file /\ tally' = tally
        /\ uncounted' = uncounted /\ crashes' = crashes
    BY <1>5 DEF Send
  <2>2. CASE Goto(D, "sending") /\ sent' = sent + 1
    <3>1. pc'[D] = "sending"
      BY <1>3, <2>2 DEF Steps
    <3>2. Slack' = Slack /\ Used' = Used
      BY <2>1 DEF Slack, Used
    <3>3. sent <= Used + Slack /\ sent + 1 <= DailyBudget + Slack
      BY <1>2, <2>1, StepsApart
    <3>4. sent + 1 <= Used + 1 + Slack
      BY <1>1, <3>3
    <3>5. /\ sent' <= DailyBudget + Slack'
          /\ pc'[D] \in Owes => sent' <= Used' + 1 + Slack'
          /\ pc'[D] \in Owes /\ pc'[D] \notin Writes
      BY <2>2, <3>1, <3>2, <3>3, <3>4 DEF Owes, Writes
    <3> QED BY <3>1, <3>5 DEF Within, Accounted, Allowed
  <2>3. CASE Goto(D, "unopened") /\ UNCHANGED sent
    <3>1. pc'[D] = "unopened"
      BY <1>3, <2>3 DEF Steps
    <3> QED BY <2>1, <2>3, <3>1, StepsApart, AloneQuiet
  <2> QED BY <1>5, <2>2, <2>3 DEF Send
<1>6. CASE NotSent(D) \/ Answered(D)
  <2>1. /\ day' = day /\ file' = file /\ tally' = tally
        /\ sent' = sent /\ uncounted' = uncounted /\ crashes' = crashes
    BY <1>6 DEF NotSent, Answered
  <2>2. \/ pc[D] = "unopened" /\ pc'[D] \in {"attempt", "idle"}
        \/ pc[D] = "sending" /\ pc'[D] = "counting"
    BY <1>1, <1>6 DEF NotSent, Retry, Answered, Goto
  <2>3. /\ pc'[D] \in Owes <=> pc[D] \in Owes
        /\ pc'[D] \in Writes <=> pc[D] \in Writes
        /\ pc'[D] \notin {"checked", "throttling"}
    BY <2>2 DEF Owes, Writes
  <2> QED BY <2>1, <2>3, AloneQuiet
<1>7. CASE Redirected(D)
  <2>1. /\ pc[D] = "sending" /\ pc' = pc /\ day' = day /\ file' = file
        /\ sent' = sent + 1 /\ uncounted' = uncounted + 1 /\ crashes' = crashes
    BY <1>7 DEF Redirected
  <2>2. Slack' = Slack + 1 /\ Used' = Used
    <3>1. DailyBudget * crashes \in Nat /\ uncounted \in Nat
      BY <1>1 DEF TypeOK
    <3> QED BY <2>1, <3>1 DEF Slack, Used
  <2>3. sent <= DailyBudget + Slack /\ sent <= Used + 1 + Slack
    BY <1>2, <2>1 DEF Owes
  <2>4. sent + 1 <= DailyBudget + (Slack + 1) /\ sent + 1 <= Used + 1 + (Slack + 1)
    BY <1>1, <2>3
  <2>5. sent' <= DailyBudget + Slack' /\ sent' <= Used' + 1 + Slack' /\ pc'[D] = "sending"
    BY <2>1, <2>2, <2>4
  <2> QED BY <2>5 DEF Within, Accounted, Allowed, Owes, Writes
<1>8. CASE Escapes(D) \/ TargetUnopened(D)
  <2>1. /\ pc[D] = "sending" /\ day' = day /\ file' = file
        /\ sent' = sent /\ uncounted' = uncounted + 1 /\ crashes' = crashes
        /\ pc'[D] \in {"attempt", "idle"}
    BY <1>1, <1>8 DEF Escapes, TargetUnopened, Retry, Goto
  <2>2. Slack' = Slack + 1 /\ Used' = Used
    <3>1. DailyBudget * crashes \in Nat /\ uncounted \in Nat
      BY <1>1 DEF TypeOK
    <3> QED BY <2>1, <3>1 DEF Slack, Used
  <2>3. sent <= DailyBudget + Slack /\ sent <= Used + 1 + Slack
    BY <1>2, <2>1 DEF Owes
  <2>4. sent <= DailyBudget + (Slack + 1) /\ sent <= Used + (Slack + 1)
    BY <1>1, <2>3
  <2>5. sent' <= DailyBudget + Slack' /\ sent' <= Used' + Slack'
    BY <2>1, <2>2, <2>4
  <2> QED BY <2>1, <2>5 DEF Within, Accounted, Allowed, Owes, Writes
<1>9. CASE ReadCount(D)
  <2>1. /\ pc[D] = "counting" /\ day' = day /\ file' = file
        /\ sent' = sent /\ uncounted' = uncounted /\ crashes' = crashes
        /\ pc'[D] = "truncating"
    BY <1>1, <1>9 DEF ReadCount, Goto
  <2>2. tally'[D] = [date |-> day, used |-> Used + 1]
    BY <1>1, <1>9 DEF ReadCount, TypeOK
  <2>3. Slack' = Slack /\ Tallied' = Used + 1
    BY <2>1, <2>2 DEF Slack, Tallied
  <2>4. sent <= DailyBudget + Slack /\ sent <= Used + 1 + Slack
    BY <1>2, <2>1 DEF Owes
  <2>5. sent' <= DailyBudget + Slack' /\ sent' <= Tallied' + Slack'
    BY <2>1, <2>3, <2>4
  <2> QED BY <2>1, <2>5 DEF Within, Accounted, Allowed, Owes, Writes
<1>10. CASE Truncate(D)
  <2>1. /\ pc[D] = "truncating" /\ day' = day /\ tally' = tally
        /\ sent' = sent /\ uncounted' = uncounted /\ crashes' = crashes
        /\ pc'[D] = "writing"
    BY <1>1, <1>10 DEF Truncate, Goto
  <2>2. Slack' = Slack /\ Tallied' = Tallied
    BY <2>1 DEF Slack, Tallied
  <2>3. sent' <= DailyBudget + Slack' /\ sent' <= Tallied' + Slack'
    BY <1>2, <2>1, <2>2 DEF Writes
  <2> QED BY <2>1, <2>3 DEF Within, Accounted, Allowed, Owes, Writes
<1>11. CASE WriteCount(D)
  <2>1. /\ pc[D] = "writing" /\ day' = day /\ file' = tally[D]
        /\ sent' = sent /\ uncounted' = uncounted /\ crashes' = crashes
    BY <1>11 DEF WriteCount
  <2>2. pc'[D] \in {"attempt", "idle"}
    BY <1>1, <1>11 DEF WriteCount, Retry, Goto
  <2>3. Slack' = Slack /\ Used' = Tallied
    BY <2>1 DEF Slack, Tallied, Used
  <2>4. sent' <= DailyBudget + Slack' /\ sent' <= Used' + Slack'
    BY <1>2, <2>1, <2>3 DEF Writes
  <2> QED BY <2>2, <2>4 DEF Within, Accounted, Allowed, Owes, Writes
<1> QED BY <1>4, <1>5, <1>6, <1>7, <1>8, <1>9, <1>10, <1>11 DEF Step

\* Time and restarts: midnight starts from nothing sent, and a restart gives the budget
\* again, whatever it finds in the file.
LEMMA AloneWorld ==
    ASSUME TypeOK, TypeOK', Within, Tick \/ Midnight \/ Crash
    PROVE  Within'
<1> USE DEF file_, clock, history, local
<1>1. /\ Slack \in Nat /\ Used \in Nat /\ sent \in Nat /\ DailyBudget \in Nat \ {0}
      /\ pc[D] \in Steps /\ D \in Threads
  BY AloneParts
<1>3. CASE Tick
  <2>1. /\ day' = day /\ file' = file /\ tally' = tally /\ pc' = pc
        /\ sent' = sent /\ uncounted' = uncounted /\ crashes' = crashes
    BY <1>3 DEF Tick
  <2> QED BY <2>1, AloneQuiet
<1>4. CASE Midnight
  <2>1. /\ sent' = 0 /\ uncounted' = 0 /\ crashes' = 0
        /\ file' = file /\ tally' = tally
    BY <1>4 DEF Midnight
  <2>2. Slack' = 0
    BY <1>1, <2>1 DEF Slack
  <2>3. file.used \in Nat /\ tally[D].used \in Nat
    BY <1>1, Parts
  <2>4. Used' \in Nat /\ Tallied' \in Nat
    BY <2>1, <2>3 DEF Used, Tallied
  <2>5. /\ 0 <= DailyBudget + 0 /\ 0 + 1 <= DailyBudget + 0
        /\ \A n \in Nat : 0 <= n + 0 /\ 0 <= n + 1 + 0
    BY <1>1
  <2>6. /\ 0 <= DailyBudget + Slack' /\ 0 + 1 <= DailyBudget + Slack'
        /\ 0 <= Used' + Slack' /\ 0 <= Used' + 1 + Slack' /\ 0 <= Tallied' + Slack'
    BY <2>2, <2>4, <2>5
  <2> QED BY <2>1, <2>6 DEF Within, Accounted, Allowed
<1>5. CASE Crash
  <2>1. /\ pc'[D] = "idle" /\ sent' = sent /\ day' = day /\ file' = file
        /\ uncounted' = uncounted /\ crashes' = crashes + 1
    BY <1>1, <1>5 DEF Crash
  <2>2. Slack' = DailyBudget + Slack /\ Used' = Used
    <3>1. crashes \in Nat /\ uncounted \in Nat /\ DailyBudget * crashes \in Nat
      BY <1>1 DEF TypeOK
    <3>2. DailyBudget * (crashes + 1) = DailyBudget * crashes + DailyBudget
      BY <1>1, <3>1
    <3> QED BY <1>1, <2>1, <3>1, <3>2 DEF Slack, Used
  <2>3. sent <= DailyBudget + Slack
    BY DEF Within
  <2>4. sent <= DailyBudget + (DailyBudget + Slack) /\ sent <= Used + (DailyBudget + Slack)
    BY <1>1, <2>3
  <2>5. sent' <= DailyBudget + Slack' /\ sent' <= Used' + Slack'
    BY <2>1, <2>2, <2>4
  <2> QED BY <2>1, <2>5 DEF Within, Accounted, Allowed, Owes, Writes
<1> QED BY <1>3, <1>4, <1>5

\* The throttle: time takes from the sleep what it adds to the time since a request.
LEMMA AlonePaced ==
    ASSUME TypeOK, TypeOK', SleepsEnough, Alone, Next
    PROVE  SleepsEnough'
<1> USE DEF file_, clock, history, local
<1>1. /\ MinInterval \in Nat /\ D \in Threads /\ pc \in [Threads -> Steps]
      /\ sleep \in [Threads -> 0..MinInterval]
      /\ since \in 0..MinInterval /\ gap \in 0..MinInterval /\ lag \in 0..MinInterval
  BY HttpBudgetAssumption, HttpFilesAssumption DEF TypeOK
<1>2. since <= gap + lag /\ (pc[D] = "throttling" => sleep[D] + since >= MinInterval)
  BY DEF SleepsEnough
<1>3. CASE Throttle(D)
  <2>1. sleep'[D] = MinInterval - since /\ since' = since /\ gap' = gap /\ lag' = lag
    BY <1>1, <1>3 DEF Throttle
  <2>2. MinInterval - since + since >= MinInterval
    BY <1>1, <1>2
  <2> QED BY <1>2, <2>1, <2>2 DEF SleepsEnough
<1>4. CASE Send(D)
  <2>1. since' = 0 /\ gap' = 0 /\ lag' = 0 /\ pc'[D] # "throttling"
    BY <1>1, <1>4 DEF Send, Goto
  <2> QED BY <2>1 DEF SleepsEnough
<1>5. CASE \/ Call(D) \/ CheckBudget(D) \/ NotSent(D) \/ TargetUnopened(D) \/ Answered(D)
           \/ Escapes(D) \/ ReadCount(D) \/ Truncate(D) \/ WriteCount(D) \/ Midnight
  <2>1. since' = since /\ gap' = gap /\ lag' = lag /\ sleep' = sleep
    BY <1>5 DEF Call, CheckBudget, NotSent, TargetUnopened, Answered, Escapes, ReadCount,
                Truncate, WriteCount, Midnight
  <2>2. pc'[D] = "throttling" => pc[D] = "throttling"
    BY <1>1, <1>5 DEF Call, CheckBudget, NotSent, TargetUnopened, Answered, Escapes, ReadCount,
                Truncate, WriteCount, Midnight, Goto, Retry
  <2> QED BY <1>2, <2>1, <2>2 DEF SleepsEnough
<1>6. CASE Tick
  <2>1. /\ since' = IF since < MinInterval THEN since + 1 ELSE since
        /\ gap' = IF gap < MinInterval THEN gap + 1 ELSE gap
        /\ sleep'[D] = IF sleep[D] > 0 THEN sleep[D] - 1 ELSE 0
        /\ pc' = pc /\ lag' = lag
    BY <1>1, <1>6 DEF Tick
  <2>2. sleep[D] \in 0..MinInterval
    BY <1>1
  <2>3. since' <= gap' + lag'
    BY <1>1, <1>2, <2>1
  <2>4. ASSUME sleep[D] + since >= MinInterval
        PROVE  sleep'[D] + since' >= MinInterval
    BY <1>1, <2>1, <2>2, <2>4
  <2> QED BY <1>2, <2>1, <2>3, <2>4 DEF SleepsEnough
<1>7. CASE Crash
  <2>1. since' = MinInterval /\ gap' = MinInterval /\ lag' = 0 /\ pc'[D] = "idle"
    BY <1>1, <1>7 DEF Crash
  <2>2. MinInterval <= MinInterval + 0
    BY <1>1
  <2> QED BY <2>1, <2>2 DEF SleepsEnough
<1>8. CASE Redirected(D)
  <2>1. /\ pc' = pc /\ pc[D] = "sending" /\ since' = since /\ gap' = 0
        /\ lag' = IF gap + lag < MinInterval THEN gap + lag ELSE MinInterval
    BY <1>8 DEF Redirected
  <2>2. since' <= gap' + lag'
    BY <1>1, <1>2, <2>1
  <2> QED BY <2>1, <2>2 DEF SleepsEnough
<1> QED BY <1>3, <1>4, <1>5, <1>6, <1>7, <1>8 DEF Alone, Next, Step

LEMMA AloneInit == Init => AloneInv
<1> SUFFICES ASSUME Init
             PROVE  AloneInv
  OBVIOUS
<1>1. TypeOK
  BY InitEstablishes DEF IInv
<1>2. Slack \in Nat /\ Used \in Nat /\ DailyBudget \in Nat \ {0} /\ D \in Threads
  BY <1>1, AloneParts
<1>3. pc[D] = "idle" /\ sent = 0 /\ since = gap /\ lag = 0 /\ gap <= gap + 0
  BY <1>1, <1>2, HttpBudgetAssumption DEF Init, TypeOK
<1>4. 0 <= DailyBudget + Slack /\ 0 <= Used + Slack
  BY <1>2
<1>5. Within
  BY <1>3, <1>4 DEF Within, Accounted, Allowed, Owes, Writes
<1> QED BY <1>1, <1>3, <1>5 DEF AloneInv, SleepsEnough

LEMMA AloneNext ==
    ASSUME Alone, IInv, AloneInv, [Next]_vars
    PROVE  AloneInv'
<1>1. TypeOK'
  BY NextKeeps DEF IInv
<1>2. CASE UNCHANGED vars
  BY <1>2 DEF vars, AloneInv, TypeOK, Within, Accounted, Allowed, Slack, Used, Tallied,
              SleepsEnough
<1>3. CASE Next
  <2>1. SleepsEnough'
    BY <1>1, <1>3, AlonePaced DEF AloneInv
  <2>2. \/ Call(D) \/ Step(D) \/ Redirected(D)
        \/ Tick \/ Midnight \/ Crash
    BY <1>3 DEF Next, Alone
  <2>3. Within'
    BY <1>1, <2>2, AloneStep, AloneWorld DEF AloneInv
  <2> QED BY <1>1, <2>1, <2>3 DEF AloneInv
<1> QED BY <1>2, <1>3

LEMMA AloneInductive ==
    ASSUME Alone
    PROVE  Init /\ [][Next]_vars => []AloneInv
<1>1. Init => AloneInv
  BY AloneInit
<1>2. IInv /\ AloneInv /\ [Next]_vars => AloneInv'
  BY AloneNext
<1> QED BY <1>1, <1>2, Inductive, PTL

LEMMA BudgetFollows == AloneInv => BudgetKept
<1> SUFFICES ASSUME AloneInv
             PROVE  BudgetKept
  OBVIOUS
<1>1. sent <= DailyBudget + Slack
  BY DEF AloneInv, Within
<1>2. sent \in Nat /\ crashes \in Nat /\ uncounted \in Nat /\ DailyBudget \in Nat
  BY AloneParts, Parts DEF AloneInv
<1>3. DailyBudget * crashes \in Nat
  BY <1>2
<1>4. DailyBudget * (1 + crashes) = DailyBudget + DailyBudget * crashes
  BY <1>2, <1>3
<1> QED BY <1>1, <1>2, <1>3, <1>4 DEF Slack, BudgetKept

LEMMA SpacedFollows ==
    ASSUME Alone, AloneInv, [Next]_vars
    PROVE  [\A t \in Threads : pc[t] = "throttling" /\ pc'[t] \in {"sending", "unopened"} =>
                                gap + lag >= MinInterval]_vars
<1> SUFFICES ASSUME pc[D] = "throttling", pc'[D] \in {"sending", "unopened"}
             PROVE  gap + lag >= MinInterval
  BY DEF Alone
<1> USE DEF file_, clock, history, local
<1>1. /\ MinInterval \in Nat /\ D \in Threads /\ pc \in [Threads -> Steps]
      /\ gap \in 0..MinInterval /\ lag \in 0..MinInterval /\ since \in 0..MinInterval
  BY HttpBudgetAssumption, HttpFilesAssumption DEF AloneInv, TypeOK
<1>2. Next
  BY DEF vars
<1>3. Send(D)
  <2>1. \/ Call(D) \/ Step(D) \/ Redirected(D)
        \/ Tick \/ Midnight \/ Crash
    BY <1>2 DEF Next, Alone
  <2>2. ~ (Call(D) \/ Redirected(D) \/ Tick \/ Midnight \/ Crash)
    BY <1>1 DEF Call, Redirected, Tick, Midnight, Crash
  <2>3. ~ (\/ CheckBudget(D) \/ Throttle(D) \/ NotSent(D) \/ TargetUnopened(D) \/ Answered(D)
           \/ Escapes(D) \/ ReadCount(D) \/ Truncate(D) \/ WriteCount(D))
    BY DEF CheckBudget, Throttle, NotSent, TargetUnopened, Answered, Escapes, ReadCount,
           Truncate, WriteCount
  <2> QED BY <2>1, <2>2, <2>3 DEF Step
<1>4. sleep[D] = 0
  BY <1>3 DEF Send
<1>5. since <= gap + lag /\ sleep[D] + since >= MinInterval
  BY DEF AloneInv, SleepsEnough
<1> QED BY <1>1, <1>4, <1>5

\* A client used by one thread keeps the budget of a day through retries, midnight and
\* restarts, but for what the code leaves uncounted (http.py:483-547).
THEOREM BudgetHolds ==
    ASSUME Alone
    PROVE  Spec => []BudgetKept
BY AloneInductive, BudgetFollows, PTL DEF Spec

\* Its attempts send their requests at least the interval after the one before, retries and
\* connections that fail included, less what a redirect was late (_throttle, http.py:485).
THEOREM SpacingHolds ==
    ASSUME Alone
    PROVE  Spec => Spaced
<1>1. AloneInv /\ [Next]_vars =>
        [\A t \in Threads : pc[t] = "throttling" /\ pc'[t] \in {"sending", "unopened"} =>
                                    gap + lag >= MinInterval]_vars
  BY SpacedFollows
<1> QED BY <1>1, AloneInductive, PTL DEF Spec, Spaced
-----------------------------------------------------------------------------

\* A body is on its way to the file.
Arriving == stage \in {"body", "replaced", "sidecar"}

\* Unless a download was cut off before it could empty the old sidecar, a sidecar with a
\* file names its version, and so do the validators of a download that has no answer yet.
Vouched ==
    /\ ~ torn /\ stage # "replaced" /\ dest # 0 /\ meta # 0 => meta = dest
    /\ ~ torn /\ stage \in {"headers", "body"} /\ pc[D] # "idle" /\ told = 0 /\ prior # 0 =>
         dest = prior

\* What arrives does so inside an attempt, and is the file once it has moved into place.
Arrival ==
    /\ Arriving => pc[D] = "sending" /\ body # 0
    /\ stage \in {"replaced", "sidecar"} => dest = body

\* A download that has its answer makes no further attempt.
Answer ==
    stage # "request" /\ told # 0 =>
        \/ pc[D] = "idle"
        \/ pc[D] \in {"counting", "truncating", "writing"} /\ verdict[D] = "done"

\* The inductive invariant.  UnchangedIsCurrent alone is not inductive: a 304 is as good
\* as the validators that were sent, and they as the sidecar that earlier downloads left.
Kept == Vouched /\ Arrival /\ Answer /\ UnchangedIsCurrent
FilesInv == IInv /\ FilesTypeOK /\ Kept
-----------------------------------------------------------------------------
\* Every step of the composition is one of the retry loop, or leaves its state alone.
LEMMA FilesStepIsStep == FilesNext => [Next]_vars
<1> SUFFICES ASSUME FilesNext
             PROVE  [Next]_vars
  OBVIOUS
<1>1. D \in Threads
  BY HttpFilesAssumption
<1>2. ASSUME NEW t \in Threads, Request(t) \/ FilesStep(t) \/ Redirect(t)
      PROVE  [Next]_vars
  <2>1. CASE Request(t)
    BY <2>1 DEF Request, Next
  <2>2. CASE Attempted(t)
    BY <2>2 DEF Attempted, Step, Next
  <2>3. CASE Respond(t)
    BY <2>3 DEF Respond, Step, Next
  <2>4. CASE t = D /\ DStep
    <3>1. Answered(D) \/ Escapes(D) \/ UNCHANGED vars
      BY <2>4 DEF DStep, NotModified, Stream, Replace, TruncateSidecar, WriteSidecar, Break
    <3> QED BY <1>1, <3>1 DEF Step, Next
  <2>5. CASE Redirect(t)
    BY <2>5 DEF Redirect, Next
  <2> QED BY <1>2, <2>1, <2>2, <2>3, <2>4, <2>5 DEF FilesStep
<1>3. CASE Download
  BY <1>1, <1>3 DEF Download, Next
<1>4. CASE Change \/ Remove
  BY <1>4 DEF Change, Remove
<1>5. CASE FilesCrash \/ Tick \/ Midnight
  BY <1>5 DEF FilesCrash, Next
<1> QED BY <1>2, <1>3, <1>4, <1>5 DEF FilesNext

\* Another thread's step is none of the download's.
LEMMA OthersLeave ==
    ASSUME TypeOK, NEW t \in Threads \ {D}, Call(t) \/ Step(t) \/ Redirected(t)
    PROVE  pc'[D] = pc[D] /\ verdict'[D] = verdict[D]
<1> USE HttpFilesAssumption DEF TypeOK, Goto, local
<1>1. CASE Call(t) \/ Redirected(t)
  BY <1>1 DEF Call, Redirected
<1>2. CASE CheckBudget(t) \/ Throttle(t) \/ Send(t) \/ Answered(t) \/ Escapes(t)
  BY <1>2 DEF CheckBudget, Throttle, Send, Answered, Escapes
<1>3. CASE NotSent(t) \/ TargetUnopened(t) \/ ReadCount(t) \/ Truncate(t) \/ WriteCount(t)
  BY <1>3 DEF NotSent, TargetUnopened, Retry, ReadCount, Truncate, WriteCount
<1> QED BY <1>1, <1>2, <1>3 DEF Step

\* Once an answer is counted with verdict "done" the call ends.
LEMMA AttemptedMoves ==
    ASSUME TypeOK, Attempted(D)
    PROVE  /\ pc[D] \notin {"idle", "sending"}
           /\ pc[D] \in {"counting", "truncating", "writing"} /\ verdict[D] = "done" =>
                /\ pc'[D] \in {"truncating", "writing", "idle"}
                /\ verdict'[D] = verdict[D]
<1> USE HttpFilesAssumption DEF TypeOK, Goto
<1>1. CASE CheckBudget(D) \/ Throttle(D) \/ Send(D) \/ NotSent(D)
  BY <1>1 DEF CheckBudget, Throttle, Send, NotSent
<1>2. CASE ReadCount(D) \/ Truncate(D)
  BY <1>2 DEF ReadCount, Truncate
<1>3. CASE WriteCount(D)
  <2>1. pc[D] = "writing" /\ verdict' = verdict
    BY <1>3 DEF WriteCount
  <2>2. verdict[D] = "done" => pc'[D] = "idle"
    BY <1>3 DEF WriteCount
  <2> QED BY <2>1, <2>2
<1> QED BY <1>1, <1>2, <1>3 DEF Attempted

\* The types of what the steps compare.
LEMMA FilesParts ==
    ASSUME FilesTypeOK
    PROVE  /\ server \in Nat \ {0} /\ D \in Threads /\ pc \in [Threads -> Steps]
           /\ {dest, meta, prior, body, told} \subseteq 0..MaxVersion
           /\ 0 \in 0..MaxVersion /\ server \in 0..MaxVersion /\ torn \in BOOLEAN
BY HttpFilesAssumption DEF FilesTypeOK, TypeOK

\* A step that leaves the files alone and does not take the download on.
LEMMA FilesIdleKeeps ==
    ASSUME FilesTypeOK, Kept, TypeOK', UNCHANGED fileVars,
           Arriving => pc'[D] = pc[D],
           pc[D] = "idle" => pc'[D] = "idle" \/ stage = "request",
           \/ pc'[D] = pc[D] /\ verdict'[D] = verdict[D]
           \/ stage # "request" /\ told # 0 => Answer'
    PROVE  FilesTypeOK' /\ Kept'
<1>1. /\ server' = server /\ dest' = dest /\ meta' = meta /\ prior' = prior
      /\ body' = body /\ stage' = stage /\ told' = told /\ torn' = torn
  BY DEF fileVars, files
<1>2. FilesTypeOK'
  BY <1>1 DEF FilesTypeOK
<1>3. Vouched' /\ UnchangedIsCurrent'
  BY <1>1 DEF Kept, Vouched, UnchangedIsCurrent
<1>4. Arrival'
  BY <1>1 DEF Kept, Arrival, Arriving
<1>5. Answer'
  BY <1>1 DEF Kept, Answer
<1> QED BY <1>2, <1>3, <1>4, <1>5 DEF Kept
-----------------------------------------------------------------------------
LEMMA FilesInitEstablishes == FilesInit => FilesInv
<1> SUFFICES ASSUME FilesInit
             PROVE  FilesInv
  OBVIOUS
<1>1. IInv /\ TypeOK
  BY InitEstablishes DEF FilesInit, IInv
<1>2. FilesTypeOK
  <2>1. 0 \in 0..MaxVersion /\ 1 \in 1..MaxVersion
    BY HttpFilesAssumption
  <2> QED BY <1>1, <2>1 DEF FilesInit, FilesTypeOK
<1>3. Kept
  BY DEF FilesInit, Kept, Vouched, Arrival, Arriving, Answer, UnchangedIsCurrent
<1> QED BY <1>1, <1>2, <1>3 DEF FilesInv

\* One step per action of the downloading thread.
LEMMA DStepKeeps ==
    ASSUME FilesTypeOK, Kept, TypeOK', DStep
    PROVE  FilesTypeOK' /\ Kept'
<1>1. /\ server \in Nat \ {0} /\ D \in Threads /\ pc \in [Threads -> Steps]
      /\ {dest, meta, prior, body, told} \subseteq 0..MaxVersion
      /\ 0 \in 0..MaxVersion /\ server \in 0..MaxVersion /\ torn \in BOOLEAN
  BY FilesParts
<1>2. Vouched /\ Arrival /\ Answer /\ UnchangedIsCurrent
  BY DEF Kept
<1>3. Answered(D) => pc[D] = "sending" /\ pc'[D] = "counting"
  BY <1>1 DEF Answered, Goto
<1>4. Escapes(D) => pc[D] = "sending" /\ pc'[D] = "idle"
  BY <1>1 DEF Escapes, Goto
<1>5. stage # "request" /\ pc[D] = "sending" => told = 0
  BY <1>2 DEF Answer
<1>6. CASE NotModified
  <2>1. /\ stage = "headers" /\ stage' = stage /\ told' = server /\ prior = server
        /\ pc[D] = "sending" /\ pc'[D] = "counting" /\ verdict'[D] = "done"
        /\ server' = server /\ dest' = dest /\ meta' = meta /\ prior' = prior /\ body' = body
        /\ torn' = torn
    BY <1>3, <1>6 DEF NotModified, files
  <2>2. ~ torn => dest = server
    BY <1>1, <1>2, <1>5, <2>1 DEF Vouched
  <2>3. FilesTypeOK'
    BY <1>1, <2>1 DEF FilesTypeOK
  <2>4. Vouched' /\ Arrival' /\ Answer' /\ UnchangedIsCurrent'
    BY <1>1, <1>2, <2>1, <2>2 DEF Vouched, Arrival, Arriving, Answer, UnchangedIsCurrent
  <2> QED BY <2>3, <2>4 DEF Kept
<1>7. CASE Stream
  <2>1. /\ stage = "headers" /\ stage' = "body" /\ body' = server
        /\ pc[D] = "sending" /\ pc' = pc /\ verdict' = verdict
        /\ server' = server /\ dest' = dest /\ meta' = meta /\ prior' = prior /\ told' = told
        /\ torn' = torn
    BY <1>7 DEF Stream, vars, files
  <2>2. told = 0
    BY <1>5, <2>1
  <2>3. FilesTypeOK'
    BY <1>1, <2>1 DEF FilesTypeOK
  <2>4. Vouched' /\ Arrival' /\ Answer' /\ UnchangedIsCurrent'
    BY <1>1, <1>2, <2>1, <2>2 DEF Vouched, Arrival, Arriving, Answer, UnchangedIsCurrent
  <2> QED BY <2>3, <2>4 DEF Kept
<1>8. CASE Replace
  <2>1. /\ stage = "body" /\ stage' = "replaced" /\ dest' = body
        /\ pc' = pc /\ verdict' = verdict
        /\ server' = server /\ meta' = meta /\ prior' = prior /\ body' = body /\ told' = told
        /\ torn' = torn
    BY <1>8 DEF Replace, vars
  <2>2. pc[D] = "sending" /\ body # 0
    BY <1>2, <2>1 DEF Arrival, Arriving
  <2>3. told = 0
    BY <1>5, <2>1, <2>2
  <2>4. FilesTypeOK'
    BY <1>1, <2>1 DEF FilesTypeOK
  <2>5. Vouched'
    BY <1>1, <1>2, <2>1, <2>2 DEF Vouched
  <2>6. Arrival' /\ Answer' /\ UnchangedIsCurrent'
    BY <2>1, <2>2, <2>3 DEF Arrival, Arriving, Answer, UnchangedIsCurrent
  <2> QED BY <2>4, <2>5, <2>6 DEF Kept
<1>9. CASE TruncateSidecar
  <2>1. /\ stage = "replaced" /\ stage' = "sidecar" /\ meta' = 0
        /\ pc' = pc /\ verdict' = verdict
        /\ server' = server /\ dest' = dest /\ prior' = prior /\ body' = body /\ told' = told
        /\ torn' = FALSE
    BY <1>9 DEF TruncateSidecar, vars
  <2>2. FilesTypeOK'
    BY <1>1, <2>1 DEF FilesTypeOK
  <2>3. Vouched' /\ Arrival' /\ Answer' /\ UnchangedIsCurrent'
    <3>1. pc[D] = "sending" /\ told = 0
      BY <1>2, <1>5, <2>1 DEF Arrival, Arriving
    <3> QED BY <1>2, <2>1, <3>1 DEF Vouched, Arrival, Arriving, Answer, UnchangedIsCurrent
  <2> QED BY <2>2, <2>3 DEF Kept
<1>10. CASE WriteSidecar
  <2>1. /\ stage = "sidecar" /\ stage' = "headers" /\ meta' = body /\ told' = body
        /\ pc[D] = "sending" /\ pc'[D] = "counting" /\ verdict'[D] = "done"
        /\ server' = server /\ dest' = dest /\ prior' = prior /\ body' = 0 /\ torn' = torn
    BY <1>3, <1>10 DEF WriteSidecar
  <2>2. dest = body /\ body # 0
    BY <1>2, <2>1 DEF Arrival, Arriving
  <2>3. FilesTypeOK'
    BY <1>1, <2>1 DEF FilesTypeOK
  <2>4. Vouched' /\ Arrival' /\ Answer' /\ UnchangedIsCurrent'
    BY <1>1, <1>2, <2>1, <2>2 DEF Vouched, Arrival, Arriving, Answer, UnchangedIsCurrent
  <2> QED BY <2>3, <2>4 DEF Kept
<1>11. CASE Break
  <2>1. /\ Arriving /\ stage' = "headers"
        /\ pc[D] = "sending" /\ pc'[D] \in {"counting", "idle"}
        /\ stage # "body" => pc'[D] = "idle"
        /\ torn' = (torn \/ stage = "replaced")
        /\ server' = server /\ dest' = dest /\ meta' = meta /\ prior' = prior
        /\ body' = 0 /\ told' = told
    BY <1>3, <1>4, <1>11 DEF Break, Arriving, files
  <2>2. told = 0
    BY <1>5, <2>1 DEF Arriving
  <2>3. FilesTypeOK'
    BY <1>1, <2>1 DEF FilesTypeOK
  <2>4. Vouched' /\ Arrival' /\ Answer' /\ UnchangedIsCurrent'
    BY <1>2, <2>1, <2>2 DEF Vouched, Arrival, Arriving, Answer, UnchangedIsCurrent
  <2> QED BY <2>3, <2>4 DEF Kept
<1> QED BY <1>6, <1>7, <1>8, <1>9, <1>10, <1>11 DEF DStep

\* The other steps of a thread.
LEMMA ThreadKeeps ==
    ASSUME FilesTypeOK, Kept, TypeOK', NEW t \in Threads,
           Request(t) \/ FilesStep(t) \/ Redirect(t)
    PROVE  FilesTypeOK' /\ Kept'
<1>1. TypeOK /\ D \in Threads /\ pc \in [Threads -> Steps]
  BY HttpFilesAssumption DEF FilesTypeOK, TypeOK
<1>2. Answer /\ Arrival
  BY DEF Kept
<1>3. CASE Request(t)
  <2>1. /\ server' = server /\ dest' = dest /\ meta' = meta
        /\ body' = body /\ told' = told /\ torn' = torn
    BY <1>3 DEF Request, files
  <2>2. CASE t = D
    <3>1. stage' = "request" /\ prior' = 0 /\ pc[D] = "idle"
      BY <1>3, <2>2 DEF Request, Call
    <3>2. stage # "replaced" /\ 0 \in 0..MaxVersion
      BY <1>2, <3>1, FilesParts DEF Arrival, Arriving
    <3> QED BY <2>1, <3>1, <3>2 DEF FilesTypeOK, Kept, Vouched, Arrival, Arriving, Answer,
                             UnchangedIsCurrent
  <2>3. CASE t # D
    <3>1. stage' = stage /\ prior' = prior /\ Call(t)
      BY <1>3, <2>3 DEF Request
    <3>2. UNCHANGED fileVars
      BY <2>1, <3>1 DEF fileVars, files
    <3>3. pc'[D] = pc[D] /\ verdict'[D] = verdict[D]
      BY <1>1, <2>3, <3>1, OthersLeave
    <3> QED BY <3>2, <3>3, FilesIdleKeeps
  <2> QED BY <2>2, <2>3
<1>4. CASE t # D /\ ~ Request(t)
  <2>1. (Step(t) \/ Redirected(t)) /\ UNCHANGED fileVars
    BY <1>4 DEF FilesStep, Attempted, Respond, Redirect, Step
  <2>2. pc'[D] = pc[D] /\ verdict'[D] = verdict[D]
    BY <1>1, <1>4, <2>1, OthersLeave
  <2> QED BY <2>1, <2>2, FilesIdleKeeps
<1>5. CASE Attempted(D) /\ UNCHANGED fileVars
  <2>1. /\ pc[D] \notin {"idle", "sending"}
        /\ pc[D] \in {"counting", "truncating", "writing"} /\ verdict[D] = "done" =>
            /\ pc'[D] \in {"truncating", "writing", "idle"}
            /\ verdict'[D] = verdict[D]
    BY <1>1, <1>5, AttemptedMoves
  <2>2. ~ Arriving
    BY <1>2, <2>1 DEF Arrival
  <2>3. stage # "request" /\ told # 0 => Answer'
    BY <1>2, <2>1 DEF Answer
  <2> QED BY <1>5, <2>1, <2>2, <2>3, FilesIdleKeeps
<1>6. CASE Respond(D) \/ Redirect(D)
  <2>1. /\ stage \in {"request", "headers"} /\ UNCHANGED fileVars
        /\ Answered(D) \/ Escapes(D) \/ TargetUnopened(D) \/ Redirected(D)
    BY <1>6 DEF Respond, Redirect
  <2>2. pc[D] = "sending" /\ ~ Arriving
    BY <2>1 DEF Answered, Escapes, TargetUnopened, Redirected, Arriving
  <2>3. stage = "request" \/ told = 0
    BY <1>2, <2>2 DEF Answer
  <2> QED BY <2>1, <2>2, <2>3, FilesIdleKeeps
<1>7. CASE DStep
  BY <1>7, DStepKeeps
<1> QED BY <1>3, <1>4, <1>5, <1>6, <1>7 DEF FilesStep

\* The call of download, the server, the agent and the process.
LEMMA OutsideKeeps ==
    ASSUME FilesTypeOK, Kept, TypeOK',
           \/ Download \/ Change \/ Remove \/ FilesCrash
           \/ (Tick \/ Midnight) /\ UNCHANGED fileVars
    PROVE  FilesTypeOK' /\ Kept'
<1>1. /\ server \in Nat \ {0} /\ D \in Threads /\ pc \in [Threads -> Steps]
      /\ {dest, meta, prior, body, told} \subseteq 0..MaxVersion
      /\ 0 \in 0..MaxVersion /\ server \in 0..MaxVersion /\ torn \in BOOLEAN
  BY FilesParts
<1>2. Vouched /\ Arrival /\ Answer /\ UnchangedIsCurrent
  BY DEF Kept
<1>3. CASE Download
  <2>1. /\ stage' = "headers" /\ told' = 0 /\ pc'[D] = "attempt"
        /\ prior' \in {0, IF dest = 0 THEN 0 ELSE meta} /\ pc[D] = "idle"
        /\ server' = server /\ dest' = dest /\ meta' = meta /\ body' = body /\ torn' = torn
    BY <1>1, <1>3 DEF Download, Call, Goto, files
  <2>2. (prior' # 0 => dest # 0 /\ prior' = meta) /\ stage # "replaced"
    BY <1>2, <2>1 DEF Arrival, Arriving
  <2>3. FilesTypeOK'
    BY <1>1, <2>1, <2>2 DEF FilesTypeOK
  <2>4. Vouched' /\ Arrival' /\ Answer' /\ UnchangedIsCurrent'
    BY <1>2, <2>1, <2>2 DEF Vouched, Arrival, Arriving, Answer, UnchangedIsCurrent
  <2> QED BY <2>3, <2>4 DEF Kept
<1>4. CASE Change
  <2>1. /\ server' \in 1..MaxVersion /\ torn' = torn
        /\ dest' = dest /\ meta' = meta /\ prior' = prior /\ body' = body
        /\ stage' = stage /\ told' = told /\ pc' = pc /\ verdict' = verdict
    BY <1>4 DEF Change, vars, files
  <2>2. FilesTypeOK'
    BY <1>1, <2>1 DEF FilesTypeOK
  <2>3. Vouched' /\ Arrival' /\ Answer' /\ UnchangedIsCurrent'
    BY <1>2, <2>1 DEF Vouched, Arrival, Arriving, Answer, UnchangedIsCurrent
  <2> QED BY <2>2, <2>3 DEF Kept
<1>5. CASE Remove
  <2>1. /\ dest' = 0 /\ told' = 0 /\ pc[D] = "idle" /\ pc' = pc /\ verdict' = verdict
        /\ server' = server /\ meta' = meta /\ prior' = prior /\ body' = body
        /\ stage' = stage /\ torn' = torn
    BY <1>5 DEF Remove, vars
  <2>2. FilesTypeOK'
    BY <1>1, <2>1 DEF FilesTypeOK
  <2>3. Vouched' /\ Arrival' /\ Answer' /\ UnchangedIsCurrent'
    BY <1>2, <2>1 DEF Vouched, Arrival, Arriving, Answer, UnchangedIsCurrent
  <2> QED BY <2>2, <2>3 DEF Kept
<1>6. CASE FilesCrash
  <2>1. /\ stage' = "request" /\ told' = 0 /\ prior' = 0 /\ body' = 0
        /\ torn' = (torn \/ stage = "replaced")
        /\ server' = server /\ dest' = dest /\ meta' = meta
    BY <1>6 DEF FilesCrash, files
  <2>2. FilesTypeOK'
    BY <1>1, <2>1 DEF FilesTypeOK
  <2>3. Vouched' /\ Arrival' /\ Answer' /\ UnchangedIsCurrent'
    BY <1>2, <2>1 DEF Vouched, Arrival, Arriving, Answer, UnchangedIsCurrent
  <2> QED BY <2>2, <2>3 DEF Kept
<1>7. CASE (Tick \/ Midnight) /\ UNCHANGED fileVars
  <2>1. pc' = pc /\ verdict' = verdict
    BY <1>7 DEF Tick, Midnight, local
  <2> QED BY <1>7, <2>1, FilesIdleKeeps
<1> QED BY <1>3, <1>4, <1>5, <1>6, <1>7

LEMMA FilesNextKeeps == FilesInv /\ [FilesNext]_allVars => FilesInv'
<1> SUFFICES ASSUME FilesInv, [FilesNext]_allVars
             PROVE  FilesInv'
  OBVIOUS
<1>1. [Next]_vars
  BY FilesStepIsStep DEF allVars
<1>2. IInv' /\ TypeOK'
  BY <1>1, NextKeeps DEF FilesInv, IInv
<1>3. CASE UNCHANGED allVars
  <2>1. UNCHANGED fileVars /\ pc' = pc /\ verdict' = verdict
    BY <1>3 DEF allVars, vars
  <2>2. FilesTypeOK' /\ Kept'
    BY <1>2, <2>1, FilesIdleKeeps DEF FilesInv
  <2> QED BY <1>2, <2>2 DEF FilesInv
<1>4. CASE FilesNext
  <2>1. FilesTypeOK' /\ Kept'
    BY <1>2, <1>4, ThreadKeeps, OutsideKeeps DEF FilesInv, FilesNext
  <2> QED BY <1>2, <2>1 DEF FilesInv
<1> QED BY <1>3, <1>4

LEMMA FilesInductive == FilesSpec => []FilesInv
<1>1. FilesInit => FilesInv
  BY FilesInitEstablishes
<1>2. FilesInv /\ [FilesNext]_allVars => FilesInv'
  BY FilesNextKeeps
<1> QED BY <1>1, <1>2, PTL DEF FilesSpec

\* Every variable of the client keeps its type, and no version comes from nowhere
\* (download, http.py:314-398).
THEOREM FilesTypeCorrect == FilesSpec => []FilesTypeOK
<1>1. FilesInv => FilesTypeOK
  BY DEF FilesInv
<1> QED BY <1>1, FilesInductive, PTL

\* A download that returns leaves the file at the version the server has answered for,
\* whatever failed or was cut short before it, unless that was between the move of a file
\* and its sidecar (http.py:326-331).
THEOREM DownloadsAreCurrent == FilesSpec => []UnchangedIsCurrent
<1>1. FilesInv => UnchangedIsCurrent
  BY DEF FilesInv, Kept
<1> QED BY <1>1, FilesInductive, PTL

\* A client that downloads is a retry loop.
LEMMA FilesRunTheLoop == FilesSpec => Init /\ [][Next]_vars
<1>1. FilesInit => Init
  BY DEF FilesInit
<1>2. [FilesNext]_allVars => [Next]_vars
  BY FilesStepIsStep DEF allVars
<1> QED BY <1>1, <1>2, PTL DEF FilesSpec

\* What is proved of the retry loop's count holds of a client that downloads
\* (_count_request, http.py:526-541).
THEOREM FilesCountsHold == FilesSpec => []NeverOvercounts
<1>1. FilesInv => NeverOvercounts
  BY CountsFollow DEF FilesInv
<1> QED BY <1>1, FilesInductive, PTL

\* So does what is proved of one thread's budget, the downloads that break and are tried
\* again included (_check_budget, http.py:518-524).
THEOREM FilesBudgetHolds ==
    ASSUME Alone
    PROVE  FilesSpec => []BudgetKept
BY FilesRunTheLoop, AloneInductive, BudgetFollows, PTL

\* And of the interval between its requests (_throttle, http.py:485-495).
THEOREM FilesSpacingHolds ==
    ASSUME Alone
    PROVE  FilesSpec => Spaced
<1>1. AloneInv /\ [Next]_vars =>
        [\A t \in Threads : pc[t] = "throttling" /\ pc'[t] \in {"sending", "unopened"} =>
                                    gap + lag >= MinInterval]_vars
  BY SpacedFollows
<1> QED BY <1>1, FilesRunTheLoop, AloneInductive, PTL DEF Spaced
=============================================================================
