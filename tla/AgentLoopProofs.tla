-------------------------- MODULE AgentLoopProofs --------------------------
(***************************************************************************)
(* The agent loop keeps its conversation, its trajectory, its budget and   *)
(* its deadline, and starts no unapproved action, for every budget, every  *)
(* number of steps and tool calls, and whatever the model and tools do.    *)
(***************************************************************************)
EXTENDS AgentLoop, SequenceTheorems, TLAPS

Message == [role : {"user", "assistant", "paused"}, ids : Seq(Ids)]
ToolUse == [id : Ids, kind : Kinds]
Guards == [attempts : Nat, failed : BOOLEAN, feedback : {"none", "queued", "sent"}]
Endings == [reason : StopReasons, source : {"none", "llm", "template"}]

\* The tool uses of a response are being handled.
InTurn == pc \in {"tools", "joining"}
Over == pc \in {"stopped", "raised"}

\* A request is sent only when its worst case fits both caps; only a response that passes
\* the run's cap is paid for and not recorded, and it ends the loop.
MoneyKept ==
    /\ pc = "calling" => spent + Estimate <= LoopUsd
    /\ spent <= LoopUsd + Overrun
    /\ ~ Over => spent <= opts.runUsd
    /\ pc # "raised" => billed = IF spent > opts.runUsd THEN steps + 1 ELSE steps

\* Calls and joins begin before the deadline, or end at once.
TimeKept ==
    /\ now <= MaxSeconds + CallSeconds
    /\ pc = "calling" => now < MaxSeconds /\ steps < MaxSteps
    /\ pc = "joining" => now <= joinUntil /\ joinUntil <= MaxSeconds + CallSeconds

\* Every tool use in m is answered by the message that follows it.
Answered(m) ==
    \A i \in 1..(Len(m) - 1) :
        m[i].role = "assistant" => m[i + 1] = [role |-> "user", ids |-> m[i].ids]

\* The results gathered and the uses left are those of the response, in order.
Divides(ids, res, left) ==
    /\ Len(res) + Len(left) = Len(ids)
    /\ \A i \in 1..Len(res) : res[i] = ids[i]
    /\ \A i \in 1..Len(left) : left[i].id = ids[Len(res) + i]

ConversationKept ==
    /\ messages # <<>> /\ Answered(messages)
    /\ pc \in {"head", "calling"} \/ ending.reason = "approval_required" =>
           Last(messages).role # "assistant"
    /\ InTurn => /\ Last(messages).role = "assistant"
                 /\ Divides(Last(messages).ids, results, todo)
    /\ pc = "joining" => todo # <<>>

\* Response k was sent with the messages before it.
Replays(s, m) ==
    \A k \in 1..Len(s) : s[k] < Len(m) /\ m[s[k] + 1].role # "user"

\* No tool use still to be handled has been queued, nor started but for the awaited one,
\* and those of requires_approval tools are known by their kind.
UsesFresh ==
    /\ pc \in {"head", "calling"} => todo = <<>>
    /\ pc = "joining" => Head(todo).kind = "tool"
    /\ \A id \in asked : id[1] <= steps
    /\ \A id \in Range(pending) : id[1] <= steps
    /\ \A s \in started : s[1][1] <= steps
    /\ InTurn => \A i \in 1..Len(todo) :
          /\ todo[i].id[1] <= steps /\ todo[i].id \notin Range(pending)
          /\ \A s \in started : s[1] = todo[i].id => pc = "joining" /\ i = 1
          /\ \A j \in 1..Len(todo) : todo[i].id = todo[j].id => i = j
          /\ todo[i].id \in asked => todo[i].kind = "approval"

\* The loop has an ending once it has stopped.
EndingLast == pc # "stopped" => ending = [reason |-> "none", source |-> "none"]

\* The inductive invariant.
IInv ==
    /\ TypeOK
    /\ MoneyKept /\ TimeKept
    /\ ConversationKept
    /\ Len(sizes) = steps /\ Replays(sizes, messages)
    /\ UsesFresh /\ NothingRunsUnapproved
    /\ EndingLast /\ PublishedResultGuarded
-----------------------------------------------------------------------------
\* The ids of the tool uses of response n.
IdsOf(n, kinds) == [i \in DOMAIN kinds |-> <<n, i>>]
UsesOf(n, kinds) == [i \in DOMAIN kinds |-> [id |-> <<n, i>>, kind |-> kinds[i]]]

\* The constants are numbers.
LEMMA Constants ==
    /\ MaxSteps \in Nat /\ MaxSeconds \in Nat /\ ToolSeconds \in Nat /\ CallSeconds \in Nat
    /\ LoopUsd \in Nat /\ Overrun \in Nat /\ RunUsds \subseteq Nat /\ Retries \subseteq Nat
    /\ MaxUses \in Nat \ {0} /\ Estimate \in Nat \ {0}
  BY AgentLoopAssumption

\* What a response asks for is a sequence of at most MaxUses kinds.
LEMMA KindsAreSequences ==
    ASSUME NEW kinds \in SeqOf(Kinds, MaxUses)
    PROVE  /\ kinds \in Seq(Kinds) /\ Len(kinds) \in 0..MaxUses /\ DOMAIN kinds = 1..Len(kinds)
<1>1. PICK m \in 0..MaxUses : kinds \in [1..m -> Kinds]
  BY DEF SeqOf
<1>2. m \in Nat
  BY <1>1, Constants
<1> QED BY <1>1, <1>2, LenProperties

\* The uses of response n have ids of their own, in order.
LEMMA NewUses ==
    ASSUME NEW n \in 1..MaxSteps, NEW kinds \in SeqOf(Kinds, MaxUses)
    PROVE  /\ IdsOf(n, kinds) \in Seq(Ids) /\ Len(IdsOf(n, kinds)) = Len(kinds)
           /\ \A i \in 1..Len(kinds) : IdsOf(n, kinds)[i] = <<n, i>>
           /\ UsesOf(n, kinds) \in Seq(ToolUse) /\ Len(UsesOf(n, kinds)) = Len(kinds)
           /\ \A i \in 1..Len(kinds) : /\ UsesOf(n, kinds)[i].id = <<n, i>>
                                        /\ UsesOf(n, kinds)[i].kind = kinds[i]
<1>1. Len(kinds) \in Nat /\ Len(kinds) <= MaxUses /\ DOMAIN kinds = 1..Len(kinds)
  BY KindsAreSequences, Constants
<1>2. \A i \in 1..Len(kinds) : <<n, i>> \in Ids /\ kinds[i] \in Kinds
  BY <1>1, KindsAreSequences, ElementOfSeq, Constants DEF Ids
<1>3. /\ IdsOf(n, kinds) \in [1..Len(kinds) -> Ids]
      /\ UsesOf(n, kinds) \in [1..Len(kinds) -> ToolUse]
  BY <1>1, <1>2 DEF IdsOf, UsesOf, ToolUse
<1>4. /\ IdsOf(n, kinds) \in Seq(Ids) /\ Len(IdsOf(n, kinds)) = Len(kinds)
      /\ UsesOf(n, kinds) \in Seq(ToolUse) /\ Len(UsesOf(n, kinds)) = Len(kinds)
  BY <1>1, <1>3, IsASeq, LenProperties
<1> QED BY <1>1, <1>4 DEF IdsOf, UsesOf

\* A response without tool uses, and one cut short after the first, are responses.
LEMMA OneUse == <<>> \in SeqOf(Kinds, MaxUses) /\ <<"tool">> \in SeqOf(Kinds, MaxUses)
<1>1. <<>> \in [1..0 -> Kinds] /\ <<"tool">> \in [1..1 -> Kinds]
  BY DEF Kinds
<1>2. 0 \in 0..MaxUses /\ 1 \in 0..MaxUses
  BY Constants
<1> QED BY <1>1, <1>2 DEF SeqOf

\* What _record and the assistant's message do to the conversation and the trajectory.
LEMMA RecordFacts ==
    ASSUME TypeOK, TimeKept, pc = "calling",
           NEW role \in {"assistant", "paused"}, NEW kinds \in SeqOf(Kinds, MaxUses),
           Record(role, kinds)
    PROVE  /\ steps' = steps + 1 /\ steps' \in 1..MaxSteps
           /\ sizes' = Append(sizes, Len(messages)) /\ sizes' \in Seq(Nat)
           /\ [role |-> role, ids |-> IdsOf(steps', kinds)] \in Message
           /\ messages' = Append(messages, [role |-> role, ids |-> IdsOf(steps', kinds)])
           /\ messages' \in Seq(Message)
<1>1. steps' = steps + 1 /\ steps' \in 1..MaxSteps
  BY Constants DEF Record, TypeOK, TimeKept
<1>2. messages \in Seq(Message) /\ sizes \in Seq(Nat) /\ Len(messages) \in Nat
  BY LenProperties DEF TypeOK, Message
<1>3. messages' = Append(messages, [role |-> role, ids |-> IdsOf(steps', kinds)])
  BY DEF Record, IdsOf
<1>4. [role |-> role, ids |-> IdsOf(steps', kinds)] \in Message
  BY <1>1, NewUses DEF Message
<1>5. sizes' = Append(sizes, Len(messages)) /\ sizes' \in Seq(Nat)
  BY <1>2, AppendProperties DEF Record
<1> QED BY <1>1, <1>2, <1>3, <1>4, <1>5, AppendProperties

\* One tool use leaves what is to be handled, and its result joins the results.
LEMMA AnswerFacts ==
    ASSUME TypeOK, todo # <<>>, Answer
    PROVE  /\ Head(todo) \in ToolUse /\ Head(todo) = todo[1]
           /\ todo' \in Seq(ToolUse) /\ Len(todo') = Len(todo) - 1
           /\ \A i \in 1..Len(todo') : todo'[i] = todo[i + 1]
           /\ results' \in Seq(Ids) /\ Len(results') = Len(results) + 1
           /\ \A i \in 1..Len(results) : results'[i] = results[i]
           /\ results'[Len(results) + 1] = Head(todo).id
<1>1. todo \in Seq(ToolUse) /\ results \in Seq(Ids)
  BY DEF TypeOK, ToolUse
<1>2. Head(todo) \in ToolUse /\ Head(todo) = todo[1] /\ Head(todo).id \in Ids
  <2>1. Head(todo) \in ToolUse
    BY <1>1, HeadTailProperties
  <2>2. Head(todo) = todo[1]
    OBVIOUS
  <2> QED BY <2>1, <2>2 DEF ToolUse
<1>3. /\ todo' \in Seq(ToolUse) /\ Len(todo') = Len(todo) - 1
      /\ \A i \in 1..Len(todo') : todo'[i] = todo[i + 1]
  BY <1>1, HeadTailProperties DEF Answer
<1>4. /\ results' \in Seq(Ids) /\ Len(results') = Len(results) + 1
      /\ \A i \in 1..Len(results) : results'[i] = results[i]
      /\ results'[Len(results) + 1] = Head(todo).id
  BY <1>1, <1>2, AppendProperties DEF Answer
<1> QED BY <1>2, <1>3, <1>4

\* The counters are numbers, and what may be left of the run's cap is one.
LEMMA Numbers ==
    ASSUME TypeOK
    PROVE  /\ now \in Nat /\ spent \in Nat /\ billed \in Nat /\ joinUntil \in Nat
           /\ steps \in Nat /\ steps <= MaxSteps
           /\ opts.runUsd \in Nat /\ guard.attempts \in Nat /\ opts.retries \in Nat
<1>1. now \in Nat /\ spent \in Nat /\ billed \in Nat /\ joinUntil \in Nat
  BY DEF TypeOK
<1>2. opts.runUsd \in RunUsds /\ opts.retries \in Retries
  BY DEF TypeOK, Options
<1>3. steps \in Nat /\ steps <= MaxSteps
  BY Constants DEF TypeOK
<1>4. guard.attempts \in Nat
  BY DEF TypeOK
<1>5. opts.runUsd \in Nat
  BY <1>2, Constants
<1>6. opts.retries \in Nat
  BY <1>2, Constants
<1> QED BY <1>1, <1>3, <1>4, <1>5, <1>6

\* A request is sent only with a step, time and both budgets left; else the loop stops.
LEMMA RequestFacts ==
    ASSUME TypeOK, Request
    PROVE  \/ /\ pc' = "stopped" /\ UNCHANGED guard
              /\ \E reason \in {"max_steps", "max_seconds", "max_usd", "run_budget"} :
                     ending' = [reason |-> reason, source |-> "none"]
           \/ /\ pc' = "calling" /\ UNCHANGED ending
              /\ steps < MaxSteps /\ now < MaxSeconds
              /\ spent + Estimate <= LoopUsd /\ spent + Estimate <= opts.runUsd
<1>1. CASE \E reason \in StopReasons : Exhausted(reason) /\ Stop(reason, "none")
  <2>1. PICK reason \in StopReasons : Exhausted(reason) /\ Stop(reason, "none")
    BY <1>1
  <2>2. reason \in {"max_steps", "max_seconds", "max_usd", "run_budget"}
    BY <2>1 DEF Exhausted
  <2>3. pc' = "stopped" /\ ending' = [reason |-> reason, source |-> "none"] /\ UNCHANGED guard
    BY <2>1 DEF Request, Stop
  <2> QED BY <2>2, <2>3
<1>2. CASE /\ \A reason \in StopReasons : ~ Exhausted(reason)
           /\ pc' = "calling" /\ UNCHANGED ending
  <2>1. /\ ~ Exhausted("max_steps") /\ ~ Exhausted("max_seconds")
        /\ ~ Exhausted("max_usd") /\ ~ Exhausted("run_budget")
    BY <1>2 DEF StopReasons
  <2>2. ~ (steps >= MaxSteps)
    BY <2>1 DEF Exhausted
  <2>3. steps < MaxSteps
    BY <2>2, Numbers, Constants
  <2>4. ~ (now >= MaxSeconds)
    BY <2>1, <2>3 DEF Exhausted
  <2>5. now < MaxSeconds
    BY <2>4, Numbers, Constants
  <2>6. ~ PastScope /\ ~ PastCap
    BY <2>1, <2>3, <2>5 DEF Exhausted
  <2>7. spent + Estimate <= LoopUsd /\ spent + Estimate <= opts.runUsd
    BY <2>6, Numbers, Constants DEF PastScope, PastCap
  <2> QED BY <1>2, <2>3, <2>5, <2>7
<1> QED BY <1>1, <1>2 DEF Request

\* A call takes at most CallSeconds and costs at most its estimate and the overrun.
LEMMA ArriveFacts ==
    ASSUME TypeOK, Arrive
    PROVE  /\ pc = "calling"
           /\ now' \in Nat /\ now' <= now + CallSeconds
           /\ spent' \in Nat /\ spent' <= spent + (Estimate + Overrun)
           /\ billed' \in Nat /\ billed' = billed + 1
<1>1. PICK d \in 0..CallSeconds : now' = now + d
  BY DEF Arrive
<1>2. PICK u \in 1..(Estimate + Overrun) : spent' = spent + u
  BY DEF Arrive
<1>3. d \in Nat /\ d <= CallSeconds /\ u \in Nat /\ u <= Estimate + Overrun
  BY <1>1, <1>2, Constants
<1>4. now' \in Nat /\ now' <= now + CallSeconds
  BY <1>1, <1>3, Numbers, Constants
<1>5. spent' \in Nat /\ spent' <= spent + (Estimate + Overrun)
  BY <1>2, <1>3, Numbers, Constants
<1>6. billed' = billed + 1 /\ billed' \in Nat
  BY Numbers DEF Arrive
<1> QED BY <1>4, <1>5, <1>6 DEF Arrive

\* A tool is joined until the deadline at most, or not at all.
LEMMA TimeoutFacts ==
    ASSUME NEW t \in Nat, NEW m \in Nat, NEW s \in Nat, NEW c \in Nat, t <= m + c
    PROVE  LET left == m - t
               wait == IF left <= 0 THEN 0 ELSE IF left < s THEN left ELSE s
           IN  wait \in Nat /\ t <= t + wait /\ t + wait <= m + c
<1>1. CASE m - t <= 0
  BY <1>1
<1>2. CASE ~ (m - t <= 0) /\ m - t < s
  BY <1>2
<1>3. CASE ~ (m - t <= 0) /\ ~ (m - t < s)
  BY <1>3
<1> QED BY <1>1, <1>2, <1>3

\* So a join that begins in time ends in time.
LEMMA JoinFacts ==
    ASSUME TypeOK, TimeKept
    PROVE  /\ ToolTimeout \in Nat /\ now <= now + ToolTimeout
           /\ now + ToolTimeout <= MaxSeconds + CallSeconds
<1>1. now \in Nat /\ now <= MaxSeconds + CallSeconds
  BY Numbers DEF TimeKept
<1> QED BY <1>1, TimeoutFacts, Constants DEF ToolTimeout

\* Handling a tool use keeps the types of what is left and of what is gathered.
LEMMA AnswerType ==
    ASSUME TypeOK, todo # <<>>, Answer
    PROVE  /\ Head(todo).id \in Ids
           /\ todo' \in Seq([id : Ids, kind : Kinds]) /\ results' \in Seq(Ids)
           /\ pc' = "tools"
  BY AnswerFacts DEF ToolUse, Answer

\* Every step keeps the types.
LEMMA TypeStep ==
    ASSUME TypeOK, TimeKept, ConversationKept, [Next]_vars
    PROVE  TypeOK'
<1> USE DEF TypeOK, Message, ToolUse, Guards, Endings, vars, money, record, turn, threads
<1>1. ASSUME Request PROVE TypeOK'
  <2>1. pc' \in {"stopped", "calling"} /\ ending' \in Endings
    BY <1>1, RequestFacts DEF StopReasons
  <2>2. guard' \in Guards
    BY <1>1 DEF Request
  <2> QED BY <1>1, <2>1, <2>2 DEF Request
<1>2. ASSUME PlainResponse PROVE TypeOK'
  <2>1. PICK role \in {"assistant", "paused"}, kinds \in SeqOf(Kinds, MaxUses) :
            Record(role, kinds)
    BY <1>2, OneUse DEF PlainResponse
  <2>2. Arrive /\ pc = "calling"
    BY <1>2 DEF PlainResponse, Arrive
  <2>3. /\ steps' \in 1..MaxSteps /\ sizes' \in Seq(Nat)
        /\ messages' \in Seq(Message)
    BY <2>1, <2>2, RecordFacts DEF Message
  <2>4. steps' \in 0..MaxSteps
    BY SMTT(30), <2>3, Constants
  <2>5. now' \in Nat /\ spent' \in Nat /\ billed' \in Nat
    BY <2>2, ArriveFacts
  <2>6. pc' \in {"stopped", "head"} /\ ending' \in Endings
    BY <1>2 DEF PlainResponse, Stop, StopReasons
  <2> QED BY <1>2, <2>3, <2>4, <2>5, <2>6 DEF PlainResponse
<1>3. ASSUME ToolResponse PROVE TypeOK'
  <2>1. PICK kinds \in SeqOf(Kinds, MaxUses) :
            Record("assistant", kinds) /\ todo' = UsesOf(steps', kinds)
    BY <1>3 DEF ToolResponse, UsesOf
  <2>2. Arrive /\ pc = "calling"
    BY <1>3 DEF ToolResponse, Arrive
  <2>3. /\ steps' \in 1..MaxSteps /\ sizes' \in Seq(Nat)
        /\ messages' \in Seq(Message)
    BY <2>1, <2>2, RecordFacts DEF Message
  <2>4. steps' \in 0..MaxSteps
    BY SMTT(30), <2>3, Constants
  <2>5. now' \in Nat /\ spent' \in Nat /\ billed' \in Nat
    BY <2>2, ArriveFacts
  <2>6. todo' \in Seq(ToolUse)
    BY <2>1, <2>3, NewUses DEF ToolUse
  <2>7. results' = <<>> /\ results' \in Seq(Ids)
    BY <1>3, EmptySeq DEF ToolResponse
  <2>8. asked' \subseteq Ids
    <3>1. PICK ks \in SeqOf(Kinds, MaxUses) :
            asked' = asked \cup {<<steps', i>> : i \in {j \in DOMAIN ks : ks[j] = "approval"}}
      BY <1>3 DEF ToolResponse
    <3>2. \A i \in DOMAIN ks : <<steps', i>> \in Ids
      BY SMTT(30), <2>3, KindsAreSequences, Constants DEF Ids
    <3> QED BY <3>1, <3>2
  <2> QED BY <1>3, <2>3, <2>4, <2>5, <2>6, <2>7, <2>8 DEF ToolResponse
<1>4. ASSUME OverspentResponse PROVE TypeOK'
  <2>1. now' \in Nat /\ spent' \in Nat /\ billed' \in Nat
    BY <1>4, ArriveFacts DEF OverspentResponse
  <2> QED BY <1>4, <2>1 DEF OverspentResponse, Stop, StopReasons
<1>5. ASSUME LogFails PROVE TypeOK'
  <2>1. now' \in Nat /\ spent' \in Nat /\ billed' \in Nat
    BY <1>5, ArriveFacts DEF LogFails
  <2> QED BY <1>5, <2>1 DEF LogFails
<1>6. ASSUME ApiError PROVE TypeOK'
  BY SMTT(30), <1>6, Constants DEF ApiError
<1>7. ASSUME Unusable \/ FinishInvalid \/ ToolReturns \/ JoinTimeout PROVE TypeOK'
  <2>1. todo # <<>> /\ Answer
    BY <1>7 DEF Unusable, FinishInvalid, ToolReturns, JoinTimeout, Use, ConversationKept
  <2>2. running' \subseteq Ids
    BY <1>7 DEF Unusable, FinishInvalid, ToolReturns, JoinTimeout
  <2> QED BY <1>7, <2>1, <2>2, AnswerType DEF Unusable, FinishInvalid, ToolReturns, JoinTimeout
<1>8. ASSUME QueueApproval PROVE TypeOK'
  <2>1. todo # <<>> /\ Answer
    BY <1>8 DEF QueueApproval, Use
  <2>2. pending' \in Seq(Ids)
    BY <1>8, <2>1, AnswerType, AppendProperties DEF QueueApproval
  <2>3. opts.stopOnApproval \in BOOLEAN
    BY DEF Options
  <2>4. halt' \in BOOLEAN
    BY <1>8, <2>3 DEF QueueApproval
  <2> QED BY <1>8, <2>1, <2>2, <2>4, AnswerType DEF QueueApproval
<1>9. ASSUME StartTool PROVE TypeOK'
  <2>1. Head(todo).id \in Ids
    <3>1. todo # <<>> /\ todo \in Seq(ToolUse)
      BY <1>9 DEF StartTool, Use
    <3>2. Head(todo) \in ToolUse
      BY <3>1, HeadTailProperties
    <3> QED BY <3>2
  <2>2. now + ToolTimeout \in Nat
    BY SMTT(30), JoinFacts, Numbers
  <2>3. joinUntil' \in Nat /\ running' \subseteq Ids /\ started' \subseteq Ids \X Nat
    BY <1>9, <2>1, <2>2 DEF StartTool
  <2> QED BY <1>9, <2>3 DEF StartTool
<1>10. ASSUME Tick PROVE TypeOK'
  BY <1>10 DEF Tick
<1>11. ASSUME ToolExits PROVE TypeOK'
  BY <1>11 DEF ToolExits
<1>12. ASSUME FinishAccepted PROVE TypeOK'
  <2>1. guard' \in Guards
    <3>1. guard.attempts + 1 \in Nat
      BY Numbers
    <3>2. [guard EXCEPT !.attempts = @ + 1, !.failed = FALSE] \in Guards
      BY <3>1
    <3> QED BY <1>12, <3>2 DEF FinishAccepted
  <2> QED BY <1>12, <2>1 DEF FinishAccepted, Stop, StopReasons
<1>13. ASSUME GuardRaises PROVE TypeOK'
  BY <1>13 DEF GuardRaises
<1>14. ASSUME FinishRejected PROVE TypeOK'
  <2>1. guard' \in Guards
    <3>1. guard.attempts + 1 \in Nat
      BY Numbers
    <3>2. /\ [guard EXCEPT !.attempts = guard.attempts + 1, !.failed = TRUE] \in Guards
          /\ [attempts |-> guard.attempts + 1, failed |-> TRUE, feedback |-> "queued"] \in Guards
      BY <3>1
    <3> QED BY <1>14, <3>2 DEF FinishRejected
  <2>2. CASE Answer /\ UNCHANGED <<halt, ending>>
    <3>1. todo # <<>>
      BY <1>14 DEF FinishRejected, Use
    <3> QED BY <1>14, <2>1, <2>2, <3>1, AnswerType DEF FinishRejected
  <2>3. CASE /\ Stop("finished", "template") \/ Stop("guard_failed", "none")
             /\ UNCHANGED turn
    BY SMTT(30), <1>14, <2>1, <2>3 DEF FinishRejected, Stop, StopReasons
  <2> QED BY <1>14, <2>2, <2>3 DEF FinishRejected
<1>15. ASSUME TurnDone PROVE TypeOK'
  <2>1. [role |-> "user", ids |-> results] \in Message
    OBVIOUS
  <2>2. messages' \in Seq(Message)
    BY <1>15, <2>1, AppendProperties DEF TurnDone
  <2>3. pc' \in {"stopped", "head"} /\ ending' \in Endings
    BY <1>15 DEF TurnDone, Stop, StopReasons
  <2> QED BY <1>15, <2>2, <2>3 DEF TurnDone
<1>16. ASSUME NEW id \in Ids, AbandonedEnds(id) \/ ExecuteApproved(id) PROVE TypeOK'
  BY <1>16 DEF AbandonedEnds, ExecuteApproved
<1>17. CASE UNCHANGED vars
  BY <1>17
<1> QED
  BY <1>1, <1>2, <1>3, <1>4, <1>5, <1>6, <1>7, <1>8, <1>9, <1>10, <1>11, <1>12, <1>13,
     <1>14, <1>15, <1>16, <1>17 DEF Next, LoopStep

\* The worst case of a request, and what it may cost beyond, keep to the cap.
LEMMA CallFits ==
    ASSUME NEW a \in Nat, NEW b \in Nat, NEW e \in Nat, NEW o \in Nat, NEW m \in Nat,
           a + e <= m, b <= a + (e + o)
    PROVE  b <= m + o
  OBVIOUS

\* Only a response costs anything, and only one of a request that fitted arrives.
LEMMA MoneyStep ==
    ASSUME TypeOK, MoneyKept, TimeKept, [Next]_vars
    PROVE  MoneyKept'
<1> USE DEF Over, vars, money, record, turn, threads
<1>1. spent <= LoopUsd + Overrun /\ (pc = "calling" => spent + Estimate <= LoopUsd)
  BY DEF MoneyKept
<1>2. ASSUME Arrive
      PROVE  /\ pc = "calling" /\ spent' <= LoopUsd + Overrun
             /\ billed = steps /\ billed' = steps + 1
  <2>1. /\ pc = "calling" /\ spent' \in Nat /\ spent' <= spent + (Estimate + Overrun)
        /\ billed' = billed + 1
    BY <1>2, ArriveFacts
  <2>2. spent' <= LoopUsd + Overrun
    BY <1>1, <2>1, CallFits, Numbers, Constants
  <2>3. spent <= opts.runUsd /\ billed = IF spent > opts.runUsd THEN steps + 1 ELSE steps
    BY <2>1 DEF MoneyKept
  <2>4. ~ (spent > opts.runUsd)
    BY <2>3, Numbers
  <2> QED BY <2>1, <2>2, <2>3, <2>4
<1>3. ASSUME NEW role, NEW kinds, Record(role, kinds) PROVE steps' = steps + 1
  BY <1>3 DEF Record
<1>4. ASSUME Request PROVE MoneyKept'
  BY <1>4, RequestFacts DEF Request, MoneyKept
<1>5. ASSUME PlainResponse \/ ToolResponse PROVE MoneyKept'
  <2>1. Arrive /\ spent' <= opts.runUsd /\ UNCHANGED opts /\ pc' \notin {"calling", "raised"}
    BY <1>5 DEF PlainResponse, ToolResponse, Stop
  <2>2. steps' = steps + 1
    BY <1>5, <1>3 DEF PlainResponse, ToolResponse
  <2>3. ~ (spent' > opts.runUsd)
    BY <2>1, ArriveFacts, Numbers
  <2> QED BY <1>2, <2>1, <2>2, <2>3 DEF MoneyKept
<1>6. ASSUME OverspentResponse PROVE MoneyKept'
  <2>1. Arrive /\ spent' > opts.runUsd /\ UNCHANGED <<opts, steps>> /\ pc' = "stopped"
    BY <1>6 DEF OverspentResponse, Stop
  <2> QED BY <1>2, <2>1 DEF MoneyKept
<1>7. ASSUME LogFails PROVE MoneyKept'
  <2>1. Arrive /\ pc' = "raised"
    BY <1>7 DEF LogFails
  <2> QED BY <1>2, <2>1 DEF MoneyKept
<1>8. CASE \/ ApiError \/ Unusable \/ QueueApproval \/ StartTool \/ Tick \/ ToolReturns
           \/ ToolExits \/ JoinTimeout \/ FinishInvalid \/ FinishAccepted \/ GuardRaises
           \/ FinishRejected \/ TurnDone \/ UNCHANGED vars
           \/ \E id \in Ids : AbandonedEnds(id) \/ ExecuteApproved(id)
  <2>1. UNCHANGED <<opts, spent, billed, steps>>
    BY <1>8 DEF ApiError, Unusable, QueueApproval, StartTool, Tick, ToolReturns, ToolExits,
       JoinTimeout, FinishInvalid, FinishAccepted, GuardRaises, FinishRejected, TurnDone,
       AbandonedEnds, ExecuteApproved
  <2>2. /\ pc' = "calling" => pc = "calling"
        /\ ~ Over' => ~ Over
        /\ pc = "raised" => pc' = "raised"
    BY <1>8 DEF ApiError, Unusable, QueueApproval, StartTool, Tick, ToolReturns, ToolExits,
       JoinTimeout, FinishInvalid, FinishAccepted, GuardRaises, FinishRejected, TurnDone,
       AbandonedEnds, ExecuteApproved, Use, Answer, Stop
  <2> QED BY <2>1, <2>2 DEF MoneyKept
<1> QED BY <1>4, <1>5, <1>6, <1>7, <1>8 DEF Next, LoopStep

\* A call ends at most CallSeconds after it was made; a join is clipped.
LEMMA TimeStep ==
    ASSUME TypeOK, TimeKept, [Next]_vars
    PROVE  TimeKept'
<1> USE DEF vars, money, record, turn, threads
<1>1. ASSUME Request PROVE TimeKept'
  BY <1>1, RequestFacts DEF Request, TimeKept
<1>2. ASSUME PlainResponse \/ ToolResponse \/ OverspentResponse \/ LogFails PROVE TimeKept'
  <2>1. Arrive /\ pc' \notin {"calling", "joining"}
    BY <1>2 DEF PlainResponse, ToolResponse, OverspentResponse, LogFails, Stop
  <2>2. now < MaxSeconds /\ now' \in Nat /\ now' <= now + CallSeconds
    BY <2>1, ArriveFacts DEF TimeKept
  <2>3. now' <= MaxSeconds + CallSeconds
    BY <2>2, Numbers, Constants
  <2> QED BY <2>1, <2>3 DEF TimeKept
<1>3. ASSUME ApiError PROVE TimeKept'
  <2>1. PICK d \in 0..CallSeconds : now' = now + d
    BY <1>3 DEF ApiError
  <2>2. now < MaxSeconds /\ pc' = "raised"
    BY <1>3 DEF ApiError, TimeKept
  <2>3. now' <= MaxSeconds + CallSeconds
    BY <2>1, <2>2, Numbers, Constants
  <2> QED BY <2>2, <2>3 DEF TimeKept
<1>4. ASSUME StartTool PROVE TimeKept'
  BY <1>4, JoinFacts DEF StartTool, TimeKept
<1>5. ASSUME Tick PROVE TimeKept'
  <2>1. /\ pc = "joining" /\ pc' = "joining" /\ UNCHANGED <<joinUntil, steps>>
        /\ now < joinUntil /\ now' = now + 1
    BY <1>5 DEF Tick
  <2>2. now' <= joinUntil /\ joinUntil <= MaxSeconds + CallSeconds
    BY <2>1, Numbers DEF TimeKept
  <2>3. now' <= MaxSeconds + CallSeconds
    BY <2>1, <2>2, Numbers, Constants
  <2> QED BY <2>1, <2>2, <2>3 DEF TimeKept
<1>6. CASE \/ Unusable \/ QueueApproval \/ ToolReturns
           \/ ToolExits \/ JoinTimeout \/ FinishInvalid \/ FinishAccepted \/ GuardRaises
           \/ FinishRejected \/ TurnDone \/ UNCHANGED vars
           \/ \E id \in Ids : AbandonedEnds(id) \/ ExecuteApproved(id)
  <2>1. UNCHANGED <<now, steps, joinUntil>>
    BY <1>6 DEF Unusable, QueueApproval, ToolReturns, ToolExits,
       JoinTimeout, FinishInvalid, FinishAccepted, GuardRaises, FinishRejected, TurnDone,
       AbandonedEnds, ExecuteApproved
  <2>2. (pc' = "calling" => pc = "calling") /\ (pc' = "joining" => pc = "joining")
    BY <1>6 DEF Unusable, QueueApproval, ToolReturns, ToolExits,
       JoinTimeout, FinishInvalid, FinishAccepted, GuardRaises, FinishRejected, TurnDone,
       AbandonedEnds, ExecuteApproved, Use, Answer, Stop
  <2> QED BY <2>1, <2>2 DEF TimeKept
<1> QED BY <1>1, <1>2, <1>3, <1>4, <1>5, <1>6 DEF Next, LoopStep

\* Only a stop writes the ending; a result that is the model's own passed the guard.
LEMMA EndingStep ==
    ASSUME TypeOK, EndingLast, PublishedResultGuarded, [Next]_vars
    PROVE  EndingLast' /\ PublishedResultGuarded'
<1> USE DEF EndingLast, PublishedResultGuarded, vars, money, record, turn, threads
<1>1. ASSUME Request PROVE EndingLast' /\ PublishedResultGuarded'
  BY <1>1, RequestFacts DEF Request
<1>2. ASSUME FinishAccepted PROVE EndingLast' /\ PublishedResultGuarded'
  <2>1. pc' = "stopped" /\ ending'.source = "llm" /\ UNCHANGED opts
    BY <1>2 DEF FinishAccepted, Stop
  <2>2. opts.guard => ~ guard'.failed
    BY <1>2 DEF FinishAccepted, TypeOK
  <2> QED BY <2>1, <2>2
<1>3. ASSUME FinishRejected PROVE EndingLast' /\ PublishedResultGuarded'
  <2>1. CASE Answer /\ UNCHANGED <<halt, ending>>
    <3>1. pc' = "tools" /\ pc = "tools"
      BY <1>3, <2>1 DEF Answer, FinishRejected, Use
    <3> QED BY <2>1, <3>1
  <2>2. CASE /\ guard.attempts + 1 > opts.retries
             /\ guard' = [guard EXCEPT !.attempts = guard.attempts + 1, !.failed = TRUE]
             /\ Stop("finished", "template") \/ Stop("guard_failed", "none")
    <3>1. guard'.failed /\ guard'.attempts > opts.retries /\ UNCHANGED opts
      BY <1>3, <2>2 DEF TypeOK, FinishRejected
    <3> QED BY <2>2, <3>1 DEF Stop
  <2> QED BY <1>3, <2>1, <2>2 DEF FinishRejected
<1>4. ASSUME TurnDone PROVE EndingLast' /\ PublishedResultGuarded'
  BY <1>4 DEF TurnDone, Stop
<1>5. ASSUME PlainResponse \/ OverspentResponse PROVE EndingLast' /\ PublishedResultGuarded'
  BY <1>5 DEF PlainResponse, OverspentResponse, Arrive, Stop
<1>6. CASE \/ ToolResponse \/ LogFails \/ ApiError \/ Unusable \/ QueueApproval \/ StartTool
           \/ Tick \/ ToolReturns \/ ToolExits \/ JoinTimeout \/ FinishInvalid \/ GuardRaises
           \/ UNCHANGED vars \/ \E id \in Ids : AbandonedEnds(id) \/ ExecuteApproved(id)
  <2>1. UNCHANGED <<opts, guard, ending>> /\ (pc = "stopped" => pc' = "stopped")
    BY <1>6 DEF ToolResponse, LogFails, ApiError, Unusable, QueueApproval, StartTool, Tick,
       ToolReturns, ToolExits, JoinTimeout, FinishInvalid, GuardRaises, AbandonedEnds,
       ExecuteApproved, Arrive, Use
  <2> QED BY <2>1
<1> QED BY <1>1, <1>2, <1>3, <1>4, <1>5, <1>6 DEF Next, LoopStep

\* A message that answers the last one, if that asked for anything, joins the conversation.
LEMMA AnsweredAppend ==
    ASSUME NEW m \in Seq(Message), m # <<>>, NEW x \in Message, Answered(m),
           Last(m).role = "assistant" => x = [role |-> "user", ids |-> Last(m).ids]
    PROVE  /\ Append(m, x) # <<>> /\ Last(Append(m, x)) = x
           /\ Answered(Append(m, x))
<1>1. /\ Len(m) \in Nat \ {0} /\ Len(Append(m, x)) = Len(m) + 1 /\ Append(m, x) # <<>>
      /\ \A i \in 1..Len(m) : Append(m, x)[i] = m[i]
      /\ Append(m, x)[Len(m) + 1] = x
  BY AppendProperties, LenProperties, EmptySeq
<1>2. Last(Append(m, x)) = x
  BY <1>1 DEF Last
<1>3. ASSUME NEW i \in 1..Len(m), Append(m, x)[i].role = "assistant"
      PROVE  Append(m, x)[i + 1] = [role |-> "user", ids |-> Append(m, x)[i].ids]
  <2>1. m[i].role = "assistant" /\ Append(m, x)[i] = m[i]
    BY <1>1, <1>3
  <2>2. CASE i = Len(m)
    BY <1>1, <2>1, <2>2 DEF Last
  <2>3. CASE i # Len(m)
    <3>1. i \in 1..(Len(m) - 1) /\ i + 1 \in 1..Len(m)
      BY <1>1, <2>3
    <3>2. m[i + 1] = [role |-> "user", ids |-> m[i].ids]
      BY <2>1, <3>1 DEF Answered
    <3> QED BY <1>1, <2>1, <3>1, <3>2
  <2> QED BY <2>2, <2>3
<1>4. 1..(Len(Append(m, x)) - 1) = 1..Len(m)
  BY <1>1
<1> QED BY <1>1, <1>2, <1>3, <1>4 DEF Answered

\* A trajectory replays against a longer conversation too, and against one that the
\* response it has just recorded was appended to.
LEMMA ReplaysAppend ==
    ASSUME NEW m \in Seq(Message), NEW x \in Message, NEW s \in Seq(Nat), Replays(s, m)
    PROVE  /\ Replays(s, Append(m, x))
           /\ x.role # "user" => Replays(Append(s, Len(m)), Append(m, x))
<1>1. /\ Len(m) \in Nat /\ Len(Append(m, x)) = Len(m) + 1
      /\ \A i \in 1..Len(m) : Append(m, x)[i] = m[i]
      /\ Append(m, x)[Len(m) + 1] = x
  BY AppendProperties, LenProperties
<1>2. /\ Len(s) \in Nat /\ Len(Append(s, Len(m))) = Len(s) + 1
      /\ \A k \in 1..Len(s) : s[k] \in Nat /\ Append(s, Len(m))[k] = s[k]
      /\ Append(s, Len(m))[Len(s) + 1] = Len(m)
  BY <1>1, AppendProperties, LenProperties, ElementOfSeq
<1>3. ASSUME NEW k \in 1..Len(s)
      PROVE  s[k] < Len(Append(m, x)) /\ Append(m, x)[s[k] + 1].role # "user"
  <2>1. s[k] \in Nat /\ s[k] < Len(m) /\ m[s[k] + 1].role # "user"
    BY <1>2 DEF Replays
  <2>2. s[k] + 1 \in 1..Len(m)
    BY <1>1, <2>1
  <2> QED BY <1>1, <2>1, <2>2
<1>4. Replays(s, Append(m, x))
  BY <1>3 DEF Replays
<1>5. ASSUME x.role # "user", NEW k \in 1..Len(Append(s, Len(m)))
      PROVE  /\ Append(s, Len(m))[k] < Len(Append(m, x))
             /\ Append(m, x)[Append(s, Len(m))[k] + 1].role # "user"
  <2>1. CASE k = Len(s) + 1
    BY <1>1, <1>2, <1>5, <2>1
  <2>2. CASE k # Len(s) + 1
    <3>1. k \in 1..Len(s)
      BY <1>2, <2>2
    <3> QED BY <1>2, <1>3, <3>1
  <2> QED BY <2>1, <2>2
<1> QED BY <1>4, <1>5 DEF Replays

\* Answering one more use moves it from what is left to what is gathered.
LEMMA DividesAnswer ==
    ASSUME TypeOK, todo # <<>>, Answer, NEW ids \in Seq(Ids), Divides(ids, results, todo)
    PROVE  Divides(ids, results', todo')
<1>1. /\ Len(results) \in Nat /\ Len(todo) \in Nat \ {0} /\ Len(ids) \in Nat
  BY LenProperties, EmptySeq DEF TypeOK
<1>2. /\ Len(todo') = Len(todo) - 1 /\ Len(results') = Len(results) + 1
      /\ \A i \in 1..Len(todo') : todo'[i] = todo[i + 1]
      /\ \A i \in 1..Len(results) : results'[i] = results[i]
      /\ results'[Len(results) + 1] = todo[1].id
  BY AnswerFacts
<1>3. Len(results') + Len(todo') = Len(ids)
  <2>1. Len(results) + Len(todo) = Len(ids)
    BY DEF Divides
  <2>2. (Len(results) + 1) + (Len(todo) - 1) = Len(ids)
    BY <1>1, <2>1
  <2> QED BY <1>2, <2>2
<1>4. ASSUME NEW i \in 1..Len(results') PROVE results'[i] = ids[i]
  <2>1. CASE i = Len(results) + 1
    <3>1. 1 \in 1..Len(todo)
      BY <1>1
    <3>2. todo[1].id = ids[Len(results) + 1]
      BY <3>1 DEF Divides
    <3> QED BY <1>2, <2>1, <3>2
  <2>2. CASE i # Len(results) + 1
    <3>1. i \in 1..Len(results)
      BY <1>1, <1>2, <2>2
    <3> QED BY <1>2, <3>1 DEF Divides
  <2> QED BY <2>1, <2>2
<1>5. ASSUME NEW i \in 1..Len(todo') PROVE todo'[i].id = ids[Len(results') + i]
  <2>1. i + 1 \in 1..Len(todo) /\ Len(results) + (i + 1) = Len(results') + i
    BY <1>1, <1>2
  <2>2. todo[i + 1].id = ids[Len(results) + (i + 1)]
    BY <2>1 DEF Divides
  <2> QED BY <1>2, <2>1, <2>2
<1> QED BY <1>3, <1>4, <1>5 DEF Divides

\* Messages are appended only at the end of a call and at the end of a turn.
LEMMA ConversationStep ==
    ASSUME TypeOK, TimeKept, EndingLast, ConversationKept, [Next]_vars
    PROVE  ConversationKept'
<1> USE DEF InTurn, EndingLast, vars, money, record, turn, threads
<1>1. messages \in Seq(Message) /\ messages # <<>> /\ Answered(messages)
  BY DEF TypeOK, Message, ConversationKept
<1>2. /\ Len(messages) \in Nat \ {0}
      /\ Last(messages) \in Message /\ Last(messages).ids \in Seq(Ids)
  <2>1. Len(messages) \in Nat \ {0}
    BY <1>1, LenProperties, EmptySeq
  <2>2. Len(messages) \in 1..Len(messages)
    BY <2>1
  <2>3. Last(messages) \in Message
    BY <1>1, <2>2, ElementOfSeq DEF Last
  <2> QED BY <2>1, <2>3 DEF Message
<1>3. ASSUME NEW role \in {"assistant", "paused"}, NEW kinds \in SeqOf(Kinds, MaxUses),
             Record(role, kinds), pc = "calling"
      PROVE  /\ messages' # <<>> /\ Answered(messages')
             /\ Last(messages') = [role |-> role, ids |-> IdsOf(steps', kinds)]
  <2>1. Last(messages).role # "assistant"
    BY <1>3 DEF ConversationKept
  <2> QED BY ZenonT(30), <1>1, <1>3, <2>1, RecordFacts, AnsweredAppend
<1>4. ASSUME Answer, todo # <<>>, pc \in {"tools", "joining"}, UNCHANGED <<messages, ending>>
      PROVE  ConversationKept'
  <2>1. pc' = "tools"
    BY <1>4 DEF Answer
  <2>2. Divides(Last(messages).ids, results', todo')
    BY <1>2, <1>4, DividesAnswer DEF ConversationKept
  <2> QED BY <1>4, <2>1, <2>2 DEF ConversationKept
<1>5. ASSUME Request PROVE ConversationKept'
  BY <1>5, RequestFacts DEF Request, ConversationKept
<1>6. ASSUME PlainResponse PROVE ConversationKept'
  <2>1. PICK role \in {"assistant", "paused"}, kinds \in SeqOf(Kinds, MaxUses) :
            /\ Record(role, kinds)
            /\ pc' = "stopped" \/ (pc' = "head" /\ role = "paused")
    BY <1>6, OneUse DEF PlainResponse, Stop
  <2>2. pc = "calling" /\ ending'.reason # "approval_required"
    BY <1>6 DEF PlainResponse, Arrive, Stop
  <2> QED BY <1>3, <2>1, <2>2 DEF ConversationKept
<1>7. ASSUME ToolResponse PROVE ConversationKept'
  <2>1. PICK kinds \in SeqOf(Kinds, MaxUses) \ {<<>>} :
            Record("assistant", kinds) /\ todo' = UsesOf(steps', kinds)
    BY <1>7 DEF ToolResponse, UsesOf
  <2>2. /\ pc = "calling" /\ pc' = "tools" /\ results' = <<>>
        /\ UNCHANGED ending
    BY <1>7 DEF ToolResponse, Arrive
  <2>3. steps' \in 1..MaxSteps
    BY <2>1, <2>2, RecordFacts
  <2>4. Divides(IdsOf(steps', kinds), results', todo')
    <3>1. Len(results') = 0 /\ Len(kinds) \in Nat
      BY <2>1, <2>2, KindsAreSequences, EmptySeq, LenProperties
    <3>2. /\ Len(IdsOf(steps', kinds)) = Len(kinds) /\ Len(todo') = Len(kinds)
          /\ \A i \in 1..Len(kinds) : todo'[i].id = IdsOf(steps', kinds)[i]
      <4>1. kinds \in SeqOf(Kinds, MaxUses) /\ todo' = UsesOf(steps', kinds)
        BY <2>1
      <4>2. /\ Len(IdsOf(steps', kinds)) = Len(kinds)
            /\ Len(UsesOf(steps', kinds)) = Len(kinds)
            /\ \A i \in 1..Len(kinds) : /\ IdsOf(steps', kinds)[i] = <<steps', i>>
                                         /\ UsesOf(steps', kinds)[i].id = <<steps', i>>
        BY <4>1, <2>3, NewUses
      <4> QED BY <4>1, <4>2
    <3>3. Len(results') + Len(todo') = Len(IdsOf(steps', kinds))
      BY <3>1, <3>2
    <3>4. \A i \in 1..Len(kinds) : Len(results') + i = i
      BY <3>1
    <3>5. 1..Len(results') = {}
      BY <3>1
    <3> QED BY <3>2, <3>3, <3>4, <3>5 DEF Divides
  <2> QED BY <1>3, <2>1, <2>2, <2>4 DEF ConversationKept
<1>8. ASSUME Unusable \/ QueueApproval \/ FinishInvalid \/ ToolReturns \/ JoinTimeout
      PROVE  ConversationKept'
  <2>1. /\ Answer /\ todo # <<>> /\ pc \in {"tools", "joining"}
        /\ UNCHANGED <<messages, ending>>
    BY <1>8 DEF Unusable, QueueApproval, FinishInvalid, ToolReturns, JoinTimeout, Use,
                ConversationKept
  <2> QED BY <1>4, <2>1
<1>9. ASSUME FinishRejected PROVE ConversationKept'
  <2>1. pc = "tools" /\ todo # <<>> /\ UNCHANGED messages
    BY <1>9 DEF FinishRejected, Use
  <2>2. CASE Answer /\ UNCHANGED ending
    BY <1>4, <2>1, <2>2
  <2>3. CASE Stop("finished", "template") \/ Stop("guard_failed", "none")
    BY <2>1, <2>3 DEF Stop, ConversationKept
  <2> QED BY <1>9, <2>2, <2>3 DEF FinishRejected
<1>10. ASSUME StartTool \/ Tick PROVE ConversationKept'
  BY <1>10 DEF StartTool, Tick, Use, ConversationKept
<1>11. ASSUME TurnDone PROVE ConversationKept'
  <2>1. /\ pc = "tools" /\ todo = <<>>
        /\ messages' = Append(messages, [role |-> "user", ids |-> results])
        /\ pc' \in {"stopped", "head"}
    BY <1>11 DEF TurnDone, Stop
  <2>2. Divides(Last(messages).ids, results, todo)
    BY <2>1 DEF ConversationKept
  <2>3. results = Last(messages).ids
    <3>1. results \in Seq(Ids) /\ Len(results) \in Nat /\ Len(todo) = 0
      BY <2>1, LenProperties, EmptySeq DEF TypeOK
    <3>2. Len(results) = Len(Last(messages).ids)
      BY <2>2, <3>1 DEF Divides
    <3> QED BY <1>2, <2>2, <3>1, <3>2, SeqEqual DEF Divides
  <2>4. [role |-> "user", ids |-> results] \in Message
    BY DEF Message, TypeOK
  <2>5. /\ messages' # <<>> /\ Answered(messages')
        /\ Last(messages') = [role |-> "user", ids |-> results]
    BY <1>1, <2>1, <2>3, <2>4, AnsweredAppend
  <2> QED BY <2>1, <2>5 DEF ConversationKept
<1>12. CASE \/ OverspentResponse \/ LogFails \/ ApiError \/ ToolExits \/ FinishAccepted
            \/ GuardRaises
  BY <1>12 DEF OverspentResponse, LogFails, ApiError, ToolExits, FinishAccepted, GuardRaises,
     Arrive, Use, Stop, ConversationKept
<1>13. CASE UNCHANGED vars \/ \E id \in Ids : AbandonedEnds(id) \/ ExecuteApproved(id)
  BY <1>13 DEF AbandonedEnds, ExecuteApproved, ConversationKept
<1> QED
  BY <1>5, <1>6, <1>7, <1>8, <1>9, <1>10, <1>11, <1>12, <1>13 DEF Next, LoopStep

\* Each response is recorded with the conversation it answers, before it joins it.
LEMMA TrajectoryStep ==
    ASSUME TypeOK, TimeKept, Len(sizes) = steps, Replays(sizes, messages), [Next]_vars
    PROVE  Len(sizes') = steps' /\ Replays(sizes', messages')
<1> USE DEF vars, money, record, turn, threads
<1>1. messages \in Seq(Message) /\ sizes \in Seq(Nat) /\ Len(messages) \in Nat
  BY LenProperties DEF TypeOK, Message
<1>2. CASE PlainResponse \/ ToolResponse
  <2>1. PICK role \in {"assistant", "paused"}, kinds \in SeqOf(Kinds, MaxUses) :
            Record(role, kinds)
    BY <1>2, OneUse DEF PlainResponse, ToolResponse
  <2>2. pc = "calling"
    BY <1>2 DEF PlainResponse, ToolResponse, Arrive
  <2>3. /\ steps' = steps + 1
        /\ sizes' = Append(sizes, Len(messages))
        /\ [role |-> role, ids |-> IdsOf(steps', kinds)] \in Message
        /\ messages' = Append(messages, [role |-> role, ids |-> IdsOf(steps', kinds)])
    BY <2>1, <2>2, RecordFacts
  <2>4. Len(sizes') = steps'
    BY <1>1, <2>3, AppendProperties
  <2>5. Replays(sizes', messages')
    BY <1>1, <2>3, ReplaysAppend
  <2> QED BY <2>4, <2>5
<1>3. CASE TurnDone
  <2>1. [role |-> "user", ids |-> results] \in Message
    BY DEF Message, TypeOK
  <2> QED BY <1>1, <1>3, <2>1, ReplaysAppend DEF TurnDone
<1>4. CASE \/ Request \/ OverspentResponse \/ LogFails \/ ApiError \/ Unusable \/ QueueApproval
           \/ StartTool \/ Tick \/ ToolReturns \/ ToolExits \/ JoinTimeout \/ FinishInvalid
           \/ FinishAccepted \/ GuardRaises \/ FinishRejected \/ UNCHANGED vars
           \/ \E id \in Ids : AbandonedEnds(id) \/ ExecuteApproved(id)
  <2>1. UNCHANGED <<steps, sizes, messages>>
    BY <1>4 DEF Request, OverspentResponse, LogFails, ApiError, Unusable, QueueApproval,
       StartTool, Tick, ToolReturns, ToolExits, JoinTimeout, FinishInvalid, FinishAccepted,
       GuardRaises, FinishRejected, AbandonedEnds, ExecuteApproved
  <2> QED BY <2>1
<1> QED BY <1>2, <1>3, <1>4 DEF Next, LoopStep

\* What is appended joins the range.
LEMMA RangeAppend ==
    ASSUME NEW S, NEW s \in Seq(S), NEW e \in S
    PROVE  Range(Append(s, e)) = Range(s) \cup {e}
<1>1. /\ Len(s) \in Nat /\ DOMAIN s = 1..Len(s)
      /\ Append(s, e) \in Seq(S) /\ Len(Append(s, e)) = Len(s) + 1
      /\ \A i \in 1..Len(s) : Append(s, e)[i] = s[i]
      /\ Append(s, e)[Len(s) + 1] = e
  BY AppendProperties, LenProperties
<1>2. DOMAIN Append(s, e) = 1..(Len(s) + 1)
  BY <1>1, LenProperties
<1>3. 1..(Len(s) + 1) = (1..Len(s)) \cup {Len(s) + 1}
  BY <1>1
<1> QED BY <1>1, <1>2, <1>3 DEF Range

\* Taking the head of a sequence takes one element of its range.
LEMMA RangeHeadTail ==
    ASSUME NEW S, NEW s \in Seq(S), s # <<>>
    PROVE  Range(s) = {Head(s)} \cup Range(Tail(s))
<1>1. /\ Len(s) \in Nat /\ DOMAIN s = 1..Len(s) /\ Len(s) # 0 /\ Head(s) = s[1]
      /\ Tail(s) \in Seq(S) /\ Len(Tail(s)) = Len(s) - 1
      /\ \A i \in 1..Len(Tail(s)) : Tail(s)[i] = s[i + 1]
  BY LenProperties, EmptySeq, HeadTailProperties
<1>2. DOMAIN Tail(s) = 1..Len(Tail(s))
  BY <1>1, LenProperties
<1>3. ASSUME NEW x \in Range(s) PROVE x \in {Head(s)} \cup Range(Tail(s))
  <2>1. PICK i \in 1..Len(s) : x = s[i]
    BY <1>1 DEF Range
  <2>2. CASE i = 1
    BY <1>1, <2>1, <2>2
  <2>3. CASE i # 1
    <3>1. i - 1 \in 1..Len(Tail(s)) /\ (i - 1) + 1 = i
      BY <1>1, <2>3
    <3>2. Tail(s)[i - 1] = x
      BY <1>1, <2>1, <3>1
    <3> QED BY <1>2, <3>1, <3>2 DEF Range
  <2> QED BY <2>2, <2>3
<1>4. ASSUME NEW x \in Range(Tail(s)) PROVE x \in Range(s)
  <2>1. PICK i \in 1..Len(Tail(s)) : x = Tail(s)[i]
    BY <1>2 DEF Range
  <2>2. i + 1 \in 1..Len(s) /\ x = s[i + 1]
    BY <1>1, <2>1
  <2> QED BY <1>1, <2>2 DEF Range
<1>5. Head(s) \in Range(s)
  <2>1. 1 \in 1..Len(s)
    BY <1>1
  <2> QED BY <1>1, <2>1 DEF Range
<1> QED BY <1>3, <1>4, <1>5

\* A use that is handled is not handled again, so what has been queued is not started,
\* and what has been started is not queued, before a human approves it.
LEMMA UsesStep ==
    ASSUME TypeOK, TimeKept, ConversationKept, UsesFresh, NothingRunsUnapproved, [Next]_vars
    PROVE  UsesFresh' /\ NothingRunsUnapproved'
<1> USE DEF InTurn, NothingRunsUnapproved, vars, money, record, turn, threads
<1>1. /\ steps \in Nat /\ Len(todo) \in Nat /\ pending \in Seq(Ids)
      /\ \A id \in Range(pending) \cup asked : id[1] <= steps
      /\ \A s \in started : s[1][1] <= steps
  BY Numbers, LenProperties DEF TypeOK, UsesFresh
<1>2. ASSUME todo # <<>>
      PROVE  /\ Len(todo) \in Nat \ {0} /\ 1 \in 1..Len(todo)
             /\ Head(todo) = todo[1] /\ Head(todo).id \in Ids
  <2>1. Len(todo) \in Nat \ {0}
    BY <1>1, <1>2, EmptySeq DEF TypeOK
  <2>2. Head(todo) \in ToolUse
    BY <1>2, HeadTailProperties DEF TypeOK, ToolUse
  <2> QED BY <2>1, <2>2 DEF ToolUse
<1>3. ASSUME Answer, todo # <<>>, pc \in {"tools", "joining"}
      PROVE  /\ pc' = "tools" /\ Len(todo') = Len(todo) - 1
             /\ \A i \in 1..Len(todo') : /\ todo'[i] = todo[i + 1]
                                         /\ i + 1 \in 1..Len(todo) /\ i + 1 # 1
                                         /\ todo'[i].id[1] <= steps
                                         /\ todo'[i].id # Head(todo).id
                                         /\ todo'[i].id \notin Range(pending)
                                         /\ \A s \in started : s[1] # todo'[i].id
                                         /\ todo'[i].id \in asked => todo'[i].kind = "approval"
             /\ {use.id : use \in Range(todo)} =
                   {Head(todo).id} \cup {use.id : use \in Range(todo')}
             /\ \A i, j \in 1..Len(todo') : todo'[i].id = todo'[j].id => i = j
  <2>1. /\ pc' = "tools" /\ Len(todo') = Len(todo) - 1
        /\ \A i \in 1..Len(todo') : todo'[i] = todo[i + 1]
    BY <1>3, AnswerFacts DEF Answer
  <2>2. Len(todo') \in Nat /\ Len(todo) = Len(todo') + 1
    BY <1>2, <1>3, <2>1
  <2>3. \A i \in 1..Len(todo') : i + 1 \in 1..Len(todo) /\ i + 1 # 1 /\ i \in Nat
    BY <2>2
  <2>4. ASSUME NEW i \in 1..Len(todo')
        PROVE  /\ todo'[i].id[1] <= steps /\ todo'[i].id # Head(todo).id
               /\ todo'[i].id \notin Range(pending)
               /\ \A s \in started : s[1] # todo'[i].id
               /\ todo'[i].id \in asked => todo'[i].kind = "approval"
    <3>1. i + 1 \in 1..Len(todo) /\ i + 1 # 1 /\ todo'[i] = todo[i + 1]
      BY <2>1, <2>3
    <3>2. Head(todo).id = todo[1].id /\ 1 \in 1..Len(todo)
      BY <1>2, <1>3
    <3> QED BY <1>3, <3>1, <3>2 DEF UsesFresh
  <2>5. ASSUME NEW i \in 1..Len(todo'), NEW j \in 1..Len(todo'), todo'[i].id = todo'[j].id
        PROVE  i = j
    <3>1. todo[i + 1].id = todo[j + 1].id /\ i + 1 \in 1..Len(todo) /\ j + 1 \in 1..Len(todo)
      BY <2>1, <2>3, <2>5
    <3>2. i + 1 = j + 1
      BY <1>3, <3>1 DEF UsesFresh
    <3> QED BY <2>3, <3>2
  <2>6. {use.id : use \in Range(todo)} = {Head(todo).id} \cup {use.id : use \in Range(todo')}
    <3>1. Range(todo) = {Head(todo)} \cup Range(todo')
      BY <1>3, RangeHeadTail DEF TypeOK, Answer
    <3> QED BY <3>1
  <2> QED BY <2>1, <2>3, <2>4, <2>5, <2>6
<1>4. ASSUME Answer, todo # <<>>, pc \in {"tools", "joining"}, Head(todo).id \notin asked,
             UNCHANGED <<steps, pending, started, approved, asked>>
      PROVE  UsesFresh' /\ NothingRunsUnapproved'
  <2>1. NothingRunsUnapproved'
    BY <1>3, <1>4
  <2> QED BY <1>1, <1>3, <1>4, <2>1 DEF UsesFresh
<1>5. CASE Unusable \/ FinishInvalid \/ ToolReturns \/ JoinTimeout
  <2>1. /\ Answer /\ todo # <<>> /\ pc \in {"tools", "joining"}
        /\ UNCHANGED <<steps, pending, started, approved, asked>>
    BY <1>5 DEF Unusable, FinishInvalid, ToolReturns, JoinTimeout, Use, ConversationKept
  <2>2. Head(todo).kind # "approval"
    BY <1>5 DEF Unusable, FinishInvalid, ToolReturns, JoinTimeout, Use, UsesFresh
  <2>3. Head(todo).id \notin asked
    BY <1>2, <2>1, <2>2 DEF UsesFresh
  <2> QED BY <1>4, <2>1, <2>3
<1>6. CASE QueueApproval
  <2>1. /\ pc = "tools" /\ todo # <<>> /\ Answer /\ UNCHANGED <<steps, started, approved, asked>>
        /\ pending' = Append(pending, Head(todo).id)
    BY <1>6 DEF QueueApproval, Use
  <2>2. Range(pending)' = Range(pending) \cup {Head(todo).id}
    BY <1>1, <1>2, <2>1, RangeAppend
  <2>3. Head(todo).id[1] <= steps /\ \A s \in started : s[1] # Head(todo).id
    BY <1>2, <2>1 DEF UsesFresh
  <2>4. NothingRunsUnapproved'
    BY <1>3, <2>1, <2>2
  <2> QED BY <1>1, <1>3, <2>1, <2>2, <2>3, <2>4 DEF UsesFresh
<1>7. CASE StartTool
  <2>1. /\ pc = "tools" /\ pc' = "joining" /\ todo # <<>> /\ Head(todo).kind = "tool"
        /\ UNCHANGED <<steps, todo, pending, approved, asked>>
        /\ started' = started \cup {<<Head(todo).id, now>>}
    BY <1>7 DEF StartTool, Use
  <2>2. /\ Head(todo).id[1] <= steps /\ Head(todo).id \notin Range(pending) \cup asked
        /\ \A i \in 1..Len(todo) : todo[i].id = Head(todo).id => i = 1
    BY <1>2, <2>1 DEF UsesFresh
  <2>3. NothingRunsUnapproved'
    BY <2>1, <2>2
  <2>4. \A i \in 1..Len(todo) : \A s \in started' : s[1] = todo[i].id => i = 1
    BY <2>1, <2>2 DEF UsesFresh
  <2> QED BY <1>1, <2>1, <2>2, <2>3, <2>4 DEF UsesFresh
<1>8. CASE ToolResponse
  <2>1. PICK kinds \in SeqOf(Kinds, MaxUses) :
            Record("assistant", kinds) /\ todo' = UsesOf(steps', kinds)
    BY <1>8 DEF ToolResponse, UsesOf
  <2>2. pc = "calling" /\ pc' = "tools" /\ UNCHANGED <<pending, started, approved>>
    BY <1>8 DEF ToolResponse, Arrive
  <2>3. steps' = steps + 1 /\ steps' \in 1..MaxSteps
    BY <2>1, <2>2, RecordFacts
  <2>4. /\ Len(todo') = Len(kinds) /\ DOMAIN kinds = 1..Len(kinds)
        /\ todo' \in Seq(ToolUse)
        /\ \A i \in 1..Len(kinds) : todo'[i].id = <<steps', i>> /\ todo'[i].kind = kinds[i]
    BY <2>1, <2>3, NewUses, KindsAreSequences
  <2>5. \A id \in Range(pending) : id[1] <= steps' /\ id[1] # steps'
    <3>1. Range(pending) \subseteq Ids
      BY <1>1, ElementOfSeq, LenProperties DEF Range
    <3>2. \A id \in Range(pending) : id[1] \in Nat
      BY <3>1 DEF Ids
    <3> QED BY <1>1, <2>3, <3>2
  <2>6. \A s \in started : s[1][1] <= steps' /\ s[1][1] # steps'
    <3>1. \A s \in started : s[1][1] \in Nat
      BY DEF TypeOK, Ids
    <3> QED BY <1>1, <2>3, <3>1
  <2>7. steps' <= steps'
    BY <2>3, Constants
  <2>8. \A i \in 1..Len(todo') : /\ todo'[i].id[1] = steps' /\ todo'[i].id[2] = i
                                 /\ todo'[i].kind = kinds[i]
    BY <2>4
  <2>9. asked' = asked \cup {<<steps', i>> : i \in {j \in 1..Len(kinds) : kinds[j] = "approval"}}
    <3>1. PICK ks \in SeqOf(Kinds, MaxUses) :
              /\ todo' = UsesOf(steps', ks)
              /\ asked' = asked \cup {<<steps', i>> : i \in {j \in DOMAIN ks : ks[j] = "approval"}}
      BY <1>8 DEF ToolResponse, UsesOf
    <3>2. /\ Len(todo') = Len(ks) /\ DOMAIN ks = 1..Len(ks)
          /\ \A i \in 1..Len(ks) : todo'[i].id = <<steps', i>> /\ todo'[i].kind = ks[i]
      BY <2>3, <3>1, NewUses, KindsAreSequences
    <3>3. \A i \in 1..Len(kinds) : ks[i] = kinds[i]
      BY <2>4, <3>2
    <3> QED BY <2>4, <3>1, <3>2, <3>3
  <2>10. \A id \in asked : id[1] <= steps' /\ id[1] # steps'
    <3>1. \A id \in asked : id[1] \in Nat
      BY DEF TypeOK, Ids
    <3> QED BY <1>1, <2>3, <3>1
  <2>11. \A id \in asked' : id[1] <= steps'
    BY <2>7, <2>9, <2>10
  <2>12. \A i \in 1..Len(todo') : todo'[i].id \in asked' => todo'[i].kind = "approval"
    <3> SUFFICES ASSUME NEW i \in 1..Len(todo'), todo'[i].id \in asked'
                 PROVE  todo'[i].kind = "approval"
      OBVIOUS
    <3>1. todo'[i].id \notin asked
      BY <2>8, <2>10
    <3>2. PICK j \in 1..Len(kinds) : kinds[j] = "approval" /\ todo'[i].id = <<steps', j>>
      BY <2>9, <3>1
    <3>3. j = i
      BY <2>8, <3>2
    <3> QED BY <2>8, <3>2, <3>3
  <2>13. NothingRunsUnapproved'
    <3>1. asked \subseteq Range(pending)
      <4>1. Range(todo) = {}
        BY <2>2, EmptySeq DEF UsesFresh, Range
      <4> QED BY <4>1
    <3>2. \A i \in 1..Len(kinds) : <<steps', i>> \in {use.id : use \in Range(todo')}
      <4>1. \A i \in 1..Len(kinds) : todo'[i] \in Range(todo') /\ todo'[i].id = <<steps', i>>
        <5>1. DOMAIN todo' = 1..Len(kinds)
          BY <2>4, LenProperties
        <5> QED BY <2>4, <5>1 DEF Range
      <4> QED BY <4>1
    <3>3. asked' \subseteq Range(pending') \cup {use.id : use \in Range(todo')}
      BY <2>2, <2>9, <3>1, <3>2
    <3>4. \A s \in started : s[1] \in asked' => s[1] \in asked
      BY <2>6, <2>9
    <3> QED BY <2>2, <3>3, <3>4
  <2>14. pc' = "tools"
    BY <2>2
  <2> QED BY <2>2, <2>5, <2>6, <2>7, <2>8, <2>11, <2>12, <2>13, <2>14 DEF UsesFresh
<1>9. ASSUME NEW id \in Ids, ExecuteApproved(id) PROVE UsesFresh' /\ NothingRunsUnapproved'
  <2>1. /\ pc' = "stopped" /\ id \in Range(pending) /\ UNCHANGED <<steps, todo, pending, asked>>
        /\ approved' = approved \cup {id} /\ started' = started \cup {<<id, now>>}
    BY <1>9 DEF ExecuteApproved
  <2> QED BY <1>1, <2>1 DEF UsesFresh
<1>10. CASE PlainResponse
  <2>1. PICK role \in {"assistant", "paused"}, kinds \in SeqOf(Kinds, MaxUses) :
            Record(role, kinds)
    BY <1>10, OneUse DEF PlainResponse
  <2>2. /\ pc = "calling" /\ pc' \in {"stopped", "head"}
        /\ UNCHANGED <<todo, pending, started, approved, asked>>
    BY <1>10 DEF PlainResponse, Arrive, Stop
  <2>3. steps' = steps + 1
    BY <2>1, <2>2, RecordFacts
  <2>4. \A id \in Range(pending) : id[1] <= steps'
    <3>1. Range(pending) \subseteq Ids
      BY <1>1, ElementOfSeq, LenProperties DEF Range
    <3>2. \A id \in Range(pending) : id[1] \in Nat
      BY <3>1 DEF Ids
    <3> QED BY <1>1, <2>3, <3>2
  <2>5. \A s \in started : s[1][1] <= steps'
    <3>1. \A s \in started : s[1][1] \in Nat
      BY DEF TypeOK, Ids
    <3> QED BY <1>1, <2>3, <3>1
  <2>6. \A id \in asked : id[1] <= steps'
    <3>1. \A id \in asked : id[1] \in Nat
      BY DEF TypeOK, Ids
    <3> QED BY <1>1, <2>3, <3>1
  <2> QED BY <2>2, <2>4, <2>5, <2>6 DEF UsesFresh
<1>11. CASE FinishRejected
  <2>1. pc = "tools" /\ todo # <<>> /\ UNCHANGED <<steps, pending, started, approved, asked>>
    BY <1>11 DEF FinishRejected, Use
  <2>2. CASE Answer
    <3>1. Head(todo).kind # "approval"
      BY <1>11 DEF FinishRejected, Use
    <3>2. Head(todo).id \notin asked
      BY <1>2, <2>1, <3>1 DEF UsesFresh
    <3> QED BY <1>4, <2>1, <2>2, <3>2
  <2>3. CASE pc' = "stopped" /\ UNCHANGED todo
    BY <1>1, <2>1, <2>3 DEF UsesFresh
  <2> QED BY <1>11, <2>2, <2>3 DEF FinishRejected, Stop
<1>12. CASE \/ Request \/ OverspentResponse \/ LogFails \/ ApiError \/ ToolExits
            \/ FinishAccepted \/ GuardRaises \/ TurnDone
  <2>1. /\ UNCHANGED <<steps, todo, pending, started, approved, asked>>
        /\ pc' \notin {"tools", "joining"}
        /\ pc' \in {"head", "calling"} => pc = "head" \/ todo = <<>>
    BY <1>12, RequestFacts DEF Request, OverspentResponse, LogFails, ApiError, ToolExits,
       FinishAccepted, GuardRaises, TurnDone, Stop
  <2> QED BY <1>1, <2>1 DEF UsesFresh
<1>13. CASE Tick \/ UNCHANGED vars \/ \E id \in Ids : AbandonedEnds(id)
  <2>1. UNCHANGED <<steps, todo, pending, started, approved, asked, pc>>
    BY <1>13 DEF Tick, AbandonedEnds
  <2> QED BY <2>1 DEF UsesFresh
<1> QED
  BY <1>5, <1>6, <1>7, <1>8, <1>9, <1>10, <1>11, <1>12, <1>13 DEF Next, LoopStep
-----------------------------------------------------------------------------
\* The invariant holds in every state the loop reaches.
THEOREM Inductive == Spec => []IInv
<1>1. Init => IInv
  <2> SUFFICES ASSUME Init PROVE IInv
    OBVIOUS
  <2> USE DEF Init
  <2>1. [role |-> "user", ids |-> <<>>] \in Message /\ messages \in Seq(Message)
    BY EmptySeq DEF Message
  <2>2. TypeOK
    <3>1. steps \in 0..MaxSteps
      BY Constants
    <3>2. /\ sizes \in Seq(Nat) /\ todo \in Seq([id : Ids, kind : Kinds])
          /\ results \in Seq(Ids) /\ pending \in Seq(Ids)
      BY EmptySeq
    <3>3. guard \in [attempts : Nat, failed : BOOLEAN, feedback : {"none", "queued", "sent"}]
      OBVIOUS
    <3>4. ending \in [reason : StopReasons, source : {"none", "llm", "template"}]
      BY DEF StopReasons
    <3> QED BY <2>1, <3>1, <3>2, <3>3, <3>4 DEF TypeOK, Message
  <2>3. MoneyKept /\ TimeKept
    BY <2>2, Numbers, Constants DEF MoneyKept, TimeKept, Over
  <2>4. Len(messages) = 1 /\ messages # <<>> /\ messages[1].role = "user" /\ Len(sizes) = 0
    OBVIOUS
  <2>5. ConversationKept
    BY <2>4 DEF ConversationKept, Answered, InTurn, Last
  <2>6. Replays(sizes, messages)
    BY <2>4 DEF Replays
  <2>7. Range(pending) = {}
    BY DEF Range
  <2> QED BY <2>2, <2>3, <2>4, <2>5, <2>6, <2>7
          DEF IInv, UsesFresh, NothingRunsUnapproved, EndingLast, PublishedResultGuarded, InTurn
<1>2. IInv /\ [Next]_vars => IInv'
  BY TypeStep, MoneyStep, TimeStep, ConversationStep, TrajectoryStep, UsesStep, EndingStep
     DEF IInv
<1> QED BY <1>1, <1>2, PTL DEF Spec

\* Every variable keeps its type, whatever the model and the tools do (agent_loop.py).
THEOREM TypeCorrect == Spec => []TypeOK
<1>1. IInv => TypeOK
  BY DEF IInv
<1> QED BY <1>1, Inductive, PTL

\* Every conversation that is sent is one the API accepts, for any number of steps and
\* of tool uses in a response (agent_loop.py:495-547).
THEOREM EveryUseAnswered == Spec => []ConversationAnswered
<1>1. IInv => ConversationAnswered
  BY DEF IInv, ConversationKept, Answered, ConversationAnswered
<1> QED BY <1>1, Inductive, PTL

\* The trajectory holds every response that was paid for, save the one that takes the
\* run past its cap, and replays (agent_loop.py:63, 304-325).
THEOREM TrajectoryWhole == Spec => []TrajectoryComplete
<1>1. IInv => TrajectoryComplete
  BY DEF IInv, MoneyKept, Replays, TrajectoryComplete
<1> QED BY <1>1, Inductive, PTL

\* The loop's calls keep to its budget, one request's overrun apart, for every budget
\* and every estimate (agent_loop.py:391).
THEOREM LoopBudgetHolds == Spec => []LoopSpendBounded
<1>1. IInv => LoopSpendBounded
  BY DEF IInv, MoneyKept, LoopSpendBounded
<1> QED BY <1>1, Inductive, PTL

\* The loop never runs longer than one model call past its deadline, however many
\* tools hang and whatever their timeouts (agent_loop.py:501, 672-673).
THEOREM DeadlineHolds == Spec => []ReturnsOnTime
<1>1. IInv => ReturnsOnTime
  BY DEF IInv, TimeKept, ReturnsOnTime
<1> QED BY <1>1, Inductive, PTL

\* No function of an action that waits for approval starts before a human approved it,
\* for any number of steps and of tool uses (agent_loop.py:655-671).
THEOREM ApprovalHolds == Spec => []NothingRunsUnapproved
<1>1. IInv => NothingRunsUnapproved
  BY DEF IInv
<1> QED BY <1>1, Inductive, PTL

\* A result published as the model's own passed the guard; the template takes its place
\* only after every retry (agent_loop.py:586-611).
THEOREM GuardHolds == Spec => []PublishedResultGuarded
<1>1. IInv => PublishedResultGuarded
  BY DEF IInv
<1> QED BY <1>1, Inductive, PTL
=============================================================================
