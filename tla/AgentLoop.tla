----------------------------- MODULE AgentLoop ------------------------------
(***************************************************************************)
(* AgentLoop.run (agent_loop.py): one thread that alternates requests to   *)
(* the model with the tool calls the model asks for, until the model       *)
(* finishes or a budget, the guard, an approval or the model stops it.     *)
(* The model, the tools and the guard's verdict are the environment.  Each *)
(* tool call runs on a thread of its own, which the loop abandons when it  *)
(* is late: it keeps running beside the loop.  Time is counted in ticks    *)
(* and money in whole units.                                               *)
(***************************************************************************)
EXTENDS Integers, Sequences, SequencesExt

CONSTANTS MaxSteps,     \* LoopBudget.max_steps
          MaxSeconds,   \* LoopBudget.max_seconds, in ticks
          ToolSeconds,  \* Tool.timeout_seconds, in ticks
          CallSeconds,  \* the longest a model call takes, in ticks
          MaxUses,      \* bound on the tool calls of one response
          LoopUsd,      \* LoopBudget.max_usd
          Retries,      \* values guard_retries may have
          RunUsds,      \* what may be left of MAX_RUN_USD when the loop starts
          Estimate,     \* the worst case of every request
          Overrun       \* how far a request's cost may pass it

ASSUME AgentLoopAssumption ==
    /\ {MaxSteps, MaxSeconds, ToolSeconds, CallSeconds, LoopUsd, Overrun}
         \cup RunUsds \cup Retries \subseteq Nat
    /\ {MaxUses, Estimate} \subseteq Nat \ {0}

VARIABLES
    opts,      \* how the loop was built and what the run has left
    pc,        \* head, calling, tools, joining (in t.join), stopped, raised
    now,       \* clock() - state.start
    steps,     \* state.steps
    spent,     \* state.scope.spent
    billed,    \* responses the tracker has recorded
    sizes,     \* n_messages of each response in state.trajectory
    messages,  \* the conversation: who speaks, and the ids of tool uses or results
    todo,      \* the tool uses of the current response not handled yet
    results,   \* ids of the results gathered for it
    halt,      \* stop_for_approval
    joinUntil, \* when the running tool call is given up
    running,   \* tool threads alive, abandoned ones included
    pending,   \* state.pending: ids of the queued actions
    approved,  \* actions a human approved after the loop
    started,   \* <<id, time>> of every tool function that was started
    asked,     \* history: ids of all calls of a requires_approval tool
    guard,     \* attempts, whether the last one failed, where its instruction is
    ending     \* stop_reason and narrative_source of the LoopResult

money == <<spent, billed>>
record == <<steps, sizes, messages>>
turn == <<todo, results, halt>>
threads == <<joinUntil, running, pending, approved, started, asked>>
vars == <<opts, pc, now, money, record, turn, threads, guard, ending>>

\* Without a guard, fallback and guard_retries are never looked at.
Options == {o \in [guard : BOOLEAN, fallback : BOOLEAN, retries : Retries,
                   stopOnApproval : BOOLEAN, runUsd : RunUsds] :
                ~ o.guard => ~ o.fallback /\ o.retries = 0}
Kinds == {"tool", "approval", "unusable", "finishInvalid", "finishGood", "finishBad"}
StopReasons == {"none", "finished", "end_turn_without_finish", "max_steps", "max_usd",
                "max_seconds", "run_budget", "approval_required", "guard_failed", "refusal",
                "max_tokens"}
Ids == (1..MaxSteps) \X (1..MaxUses)

TypeOK ==
    /\ opts \in Options
    /\ pc \in {"head", "calling", "tools", "joining", "stopped", "raised"}
    /\ {now, spent, billed, joinUntil} \subseteq Nat
    /\ steps \in 0..MaxSteps
    /\ sizes \in Seq(Nat)
    /\ messages \in Seq([role : {"user", "assistant", "paused"}, ids : Seq(Ids)])
    /\ todo \in Seq([id : Ids, kind : Kinds])
    /\ results \in Seq(Ids)
    /\ halt \in BOOLEAN
    /\ running \subseteq Ids
    /\ pending \in Seq(Ids)
    /\ approved \subseteq Ids /\ asked \subseteq Ids
    /\ started \subseteq Ids \X Nat
    /\ guard \in [attempts : Nat, failed : BOOLEAN, feedback : {"none", "queued", "sent"}]
    /\ ending \in [reason : StopReasons, source : {"none", "llm", "template"}]

Init ==
    /\ opts \in Options
    /\ pc = "head"
    /\ now = 0 /\ spent = 0 /\ billed = 0 /\ joinUntil = 0 /\ steps = 0
    /\ sizes = <<>> /\ todo = <<>> /\ results = <<>> /\ pending = <<>>
    /\ messages = << [role |-> "user", ids |-> <<>>] >>
    /\ halt = FALSE
    /\ running = {} /\ approved = {} /\ started = {} /\ asked = {}
    /\ guard = [attempts |-> 0, failed |-> FALSE, feedback |-> "none"]
    /\ ending = [reason |-> "none", source |-> "none"]
-----------------------------------------------------------------------------
\* _stop: the LoopResult is built and the loop returns.
Stop(reason, source) ==
    /\ pc' = "stopped"
    /\ ending' = [reason |-> reason, source |-> source]

\* The worst case of a request does not fit the loop's scope, or the run's cap.
PastScope == spent + Estimate > LoopUsd
PastCap == spent + Estimate > opts.runUsd

ScopeForgotten(reason) ==  \* mutant: converse is called without budget=scope
    \/ reason = "max_steps" /\ steps >= MaxSteps
    \/ reason = "max_seconds" /\ steps < MaxSteps /\ now >= MaxSeconds
    \/ reason = "run_budget" /\ steps < MaxSteps /\ now < MaxSeconds /\ PastCap

StepsUncounted(reason) ==  \* mutant: the test of max_steps is off by one
    \/ reason = "max_steps" /\ steps > MaxSteps
    \/ reason = "max_seconds" /\ steps <= MaxSteps /\ now >= MaxSeconds
    \/ /\ steps <= MaxSteps /\ now < MaxSeconds
       /\ reason = IF PastScope THEN "max_usd" ELSE "run_budget"
       /\ PastScope \/ PastCap

\* Why the loop stops before a request: the two tests of _run, the scope's check and
\* the tracker's reserve in converse, each made when the ones before it pass.
Exhausted(reason) ==
    \/ reason = "max_steps" /\ steps >= MaxSteps
    \/ reason = "max_seconds" /\ steps < MaxSteps /\ now >= MaxSeconds
    \/ /\ steps < MaxSteps /\ now < MaxSeconds
       /\ reason = IF PastScope THEN "max_usd" ELSE "run_budget"
       /\ PastScope \/ PastCap

\* The head of the loop: stop, or send a request with the whole conversation.
Request ==
    /\ pc = "head"
    /\ \/ /\ \E reason \in StopReasons : Exhausted(reason) /\ Stop(reason, "none")
          /\ UNCHANGED guard
       \/ /\ \A reason \in StopReasons : ~ Exhausted(reason)
          /\ pc' = "calling"
          /\ guard' = [guard EXCEPT !.feedback = IF @ = "queued" THEN "sent" ELSE @]
          /\ UNCHANGED ending
    /\ UNCHANGED <<opts, now, money, record, turn, threads>>

\* A response arrives: the time the call took, and what it cost.
Arrive ==
    /\ pc = "calling"
    /\ \E d \in 0..CallSeconds : now' = now + d
    /\ \E u \in 1..(Estimate + Overrun) : spent' = spent + u
    /\ billed' = billed + 1

RecordAfterwards(role, kinds) ==  \* mutant: _record once the message is appended
    /\ steps' = steps + 1
    /\ sizes' = Append(sizes, Len(messages) + 1)
    /\ messages' = Append(messages, [role |-> role,
                                     ids |-> [i \in DOMAIN kinds |-> <<steps', i>>]])

\* state.steps += 1, _record, and the assistant's message with its tool uses.
Record(role, kinds) ==
    /\ steps' = steps + 1
    /\ sizes' = Append(sizes, Len(messages))
    /\ messages' = Append(messages, [role |-> role,
                                     ids |-> [i \in DOMAIN kinds |-> <<steps', i>>]])

\* A response that ends the loop, with no tool uses or cut short among them, or
\* is paused and resent as it is.
PlainResponse ==
    /\ Arrive
    /\ spent' <= opts.runUsd
    /\ \/ /\ \/ /\ \E reason \in {"refusal", "max_tokens"} : Stop(reason, "none")
                /\ \E kinds \in {<<>>, <<"tool">>} : Record("assistant", kinds)
             \/ /\ Stop("end_turn_without_finish", "none")
                /\ Record("assistant", <<>>)
       \/ /\ Record("paused", <<>>)
          /\ pc' = "head"
          /\ UNCHANGED ending
    /\ UNCHANGED <<opts, turn, threads, guard>>

\* A response with tool uses; the loop will handle them in order.
ToolResponse ==
    /\ Arrive
    /\ spent' <= opts.runUsd
    /\ \E kinds \in SeqOf(Kinds, MaxUses) \ {<<>>} :
        /\ Record("assistant", kinds)
        /\ todo' = [i \in DOMAIN kinds |-> [id |-> <<steps', i>>, kind |-> kinds[i]]]
        /\ asked' = asked \cup {<<steps', i>> : i \in {j \in DOMAIN kinds : kinds[j] = "approval"}}
    /\ results' = <<>>
    /\ halt' = FALSE
    /\ pc' = "tools"
    /\ UNCHANGED <<opts, joinUntil, running, pending, approved, started, guard, ending>>

\* The response took the run past its cap: record raises BudgetExceeded inside
\* converse, and the loop stops without having seen the turn.
OverspentResponse ==
    /\ Arrive
    /\ spent' > opts.runUsd
    /\ Stop("run_budget", "none")
    /\ UNCHANGED <<opts, record, turn, threads, guard>>

\* record could not write costs.jsonl: the cost counts, and the exception leaves run.
LogFails ==
    /\ Arrive
    /\ pc' = "raised"
    /\ UNCHANGED <<opts, record, turn, threads, guard, ending>>

\* converse raised something else (a network or API error): so does run.
ApiError ==
    /\ pc = "calling"
    /\ \E d \in 0..CallSeconds : now' = now + d
    /\ pc' = "raised"
    /\ UNCHANGED <<opts, money, record, turn, threads, guard, ending>>
-----------------------------------------------------------------------------
\* The next tool use of the response.
Use(kind) == pc = "tools" /\ todo # <<>> /\ Head(todo).kind = kind

\* Its tool_result block joins the others and the loop goes on to the next use.
Answer ==
    /\ results' = Append(results, Head(todo).id)
    /\ todo' = Tail(todo)
    /\ pc' = "tools"

\* A tool outside the allowlist or an input its model rejects: an error result.
Unusable ==
    /\ Use("unusable")
    /\ Answer
    /\ UNCHANGED <<opts, now, money, record, halt, threads, guard, ending>>

ApprovalRuns ==  \* mutant: the loop calls it as any other tool, and queues nothing
    /\ Use("approval")
    /\ started' = started \cup {<<Head(todo).id, now>>}
    /\ Answer
    /\ UNCHANGED <<opts, now, money, record, halt, joinUntil, running, pending, approved,
                   asked, guard, ending>>

\* A requires_approval tool: queued as a PendingAction, the model told so.
QueueApproval ==
    /\ Use("approval")
    /\ pending' = Append(pending, Head(todo).id)
    /\ Answer
    /\ halt' = (halt \/ opts.stopOnApproval)
    /\ UNCHANGED <<opts, now, money, record, joinUntil, running, approved, started,
                   asked, guard, ending>>

TimeoutUnclipped == ToolSeconds  \* mutant: the time left to the loop is ignored

\* min(timeout_seconds, time left), but never less than a millisecond: no tick.
ToolTimeout ==
    LET left == MaxSeconds - now
    IN  IF left <= 0 THEN 0 ELSE IF left < ToolSeconds THEN left ELSE ToolSeconds

\* _call_with_timeout: the function starts on its thread and the loop joins it.
StartTool ==
    /\ Use("tool")
    /\ pc' = "joining"
    /\ running' = running \cup {Head(todo).id}
    /\ started' = started \cup {<<Head(todo).id, now>>}
    /\ joinUntil' = now + ToolTimeout
    /\ UNCHANGED <<opts, now, money, record, turn, pending, approved, asked,
                   guard, ending>>

\* Time passes while the loop waits.
Tick ==
    /\ pc = "joining"
    /\ now < joinUntil
    /\ now' = now + 1
    /\ UNCHANGED <<opts, pc, money, record, turn, threads, guard, ending>>

\* The awaited function returned or raised: either way a result block.
ToolReturns ==
    /\ pc = "joining"
    /\ Head(todo).id \in running
    /\ running' = running \ {Head(todo).id}
    /\ Answer
    /\ UNCHANGED <<opts, now, money, record, halt, joinUntil, pending, approved, started,
                   asked, guard, ending>>

\* The awaited function raised what is no Exception (SystemExit, KeyboardInterrupt),
\* which _call_with_timeout raises again, or returned what _render can not write:
\* nothing on the way catches either.
ToolExits ==
    /\ pc = "joining"
    /\ Head(todo).id \in running
    /\ running' = running \ {Head(todo).id}
    /\ pc' = "raised"
    /\ UNCHANGED <<opts, now, money, record, turn, joinUntil, pending, approved, started,
                   asked, guard, ending>>

JoinForever == pc = "raised" /\ UNCHANGED vars  \* mutant: join without a timeout

\* The join timed out: ToolTimeout becomes an error result, the thread runs on.
JoinTimeout ==
    /\ pc = "joining"
    /\ now = joinUntil
    /\ Answer
    /\ UNCHANGED <<opts, now, money, record, halt, threads, guard, ending>>

\* An abandoned function ends some time later, beside the loop or after it.
AbandonedEnds(id) ==
    /\ id \in running
    /\ pc = "joining" => id # Head(todo).id
    /\ running' = running \ {id}
    /\ UNCHANGED <<opts, pc, now, money, record, turn, joinUntil, pending, approved,
                   started, asked, guard, ending>>
-----------------------------------------------------------------------------
\* _finish with input that does not validate: an error result.
FinishInvalid ==
    /\ Use("finishInvalid")
    /\ Answer
    /\ UNCHANGED <<opts, now, money, record, halt, threads, guard, ending>>

\* _finish with a valid result and no guard, or one that passes.
FinishAccepted ==
    /\ \/ Use("finishGood")
       \/ Use("finishBad") /\ ~ opts.guard
    /\ Stop("finished", "llm")
    /\ guard' = IF opts.guard
                THEN [guard EXCEPT !.attempts = @ + 1, !.failed = FALSE]
                ELSE guard
    /\ UNCHANGED <<opts, now, money, record, turn, threads>>

\* The guard, the log of its failures or the fallback raised: it leaves run.
GuardRaises ==
    /\ Use("finishGood") \/ Use("finishBad")
    /\ opts.guard
    /\ pc' = "raised"
    /\ UNCHANGED <<opts, now, money, record, turn, threads, guard, ending>>

FinishUnchecked ==  \* mutant: the second attempt is published whatever the guard says
    /\ Use("finishBad")
    /\ opts.guard
    /\ guard' = [guard EXCEPT !.attempts = @ + 1, !.failed = TRUE]
    /\ Stop("finished", "llm")
    /\ UNCHANGED <<opts, now, money, record, turn, threads>>

\* _finish rejected by the guard: a retry instruction while attempts last, then
\* the template, or the loop fails.
FinishRejected ==
    /\ Use("finishBad")
    /\ opts.guard
    /\ LET attempt == guard.attempts + 1
       IN  \/ /\ attempt <= opts.retries
              /\ guard' = [attempts |-> attempt, failed |-> TRUE, feedback |-> "queued"]
              /\ Answer
              /\ UNCHANGED <<halt, ending>>
           \/ /\ attempt > opts.retries
              /\ guard' = [guard EXCEPT !.attempts = attempt, !.failed = TRUE]
              /\ IF opts.fallback THEN Stop("finished", "template")
                                  ELSE Stop("guard_failed", "none")
              /\ UNCHANGED turn
    /\ UNCHANGED <<opts, now, money, record, threads>>

TurnDoneUnanswered ==  \* mutant: a halted turn's results are left out
    /\ pc = "tools"
    /\ todo = <<>>
    /\ IF halt THEN Stop("approval_required", "none") /\ UNCHANGED messages
               ELSE /\ pc' = "head"
                    /\ messages' = Append(messages, [role |-> "user", ids |-> results])
                    /\ UNCHANGED ending
    /\ UNCHANGED <<opts, now, money, steps, sizes, turn, threads, guard>>

\* All uses handled: the results go back as one user message, and the loop stops
\* for an approval or goes round.
TurnDone ==
    /\ pc = "tools"
    /\ todo = <<>>
    /\ messages' = Append(messages, [role |-> "user", ids |-> results])
    /\ IF halt THEN Stop("approval_required", "none") ELSE pc' = "head" /\ UNCHANGED ending
    /\ UNCHANGED <<opts, now, money, steps, sizes, turn, threads, guard>>

\* execute_approved: a human approved a pending action of the returned result, and
\* its function starts.  Nothing stops a second call with the same action.
ExecuteApproved(id) ==
    /\ pc = "stopped"
    /\ id \in Range(pending)
    /\ approved' = approved \cup {id}
    /\ started' = started \cup {<<id, now>>}
    /\ UNCHANGED <<opts, pc, now, money, record, turn, joinUntil, running, pending,
                   asked, guard, ending>>

\* What the loop's own thread does, with the model and the clock it waits for.
LoopStep ==
    \/ Request \/ PlainResponse \/ ToolResponse \/ OverspentResponse \/ LogFails \/ ApiError
    \/ Unusable \/ QueueApproval \/ StartTool \/ Tick \/ JoinTimeout
    \/ FinishInvalid \/ FinishAccepted \/ GuardRaises \/ FinishRejected \/ TurnDone

Next ==
    \/ LoopStep
    \/ ToolReturns \/ ToolExits
    \/ \E id \in Ids : AbandonedEnds(id) \/ ExecuteApproved(id)

\* The loop's thread is scheduled, a model call returns or fails (the SDK has a
\* timeout) and the clock advances.  No tool is assumed ever to return.
Spec == Init /\ [][Next]_vars /\ WF_vars(LoopStep)
-----------------------------------------------------------------------------
\* Every request carries a conversation the API accepts: each tool use of a
\* response is answered once, in order, by the user message that follows it,
\* whether the tool ran, failed, timed out, was queued or was a rejected finish.
ConversationAnswered ==
    /\ \A i \in 1..(Len(messages) - 1) :
         messages[i].role = "assistant" =>
             messages[i + 1] = [role |-> "user", ids |-> messages[i].ids]
    /\ pc \in {"head", "calling"} \/ ending.reason = "approval_required" =>
         Last(messages).role # "assistant"

\* The trajectory replays: response k was sent with the messages that precede it,
\* and every response that was paid for is in the returned one, save one that took
\* the run past its cap ("Every response is recorded in result.trajectory",
\* agent_loop.py:63; ReplayClient's strict check, 304-325).
TrajectoryComplete ==
    /\ Len(sizes) = steps
    /\ \A k \in 1..steps : /\ sizes[k] < Len(messages)
                          /\ messages[sizes[k] + 1].role # "user"
    /\ pc # "raised" => billed = IF spent > opts.runUsd THEN steps + 1 ELSE steps

\* The loop's own calls keep to its budget, overruns apart (agent_loop.py:391).
LoopSpendBounded == spent <= LoopUsd + Overrun

\* The loop returns at most one model call after its deadline, however many tools
\* hang: joins are clipped to the time left (agent_loop.py:501, 672-673).
ReturnsOnTime == now <= MaxSeconds + CallSeconds

\* Of all the calls of requires_approval tools the model ever made, none starts before
\* a human approved it, and none is lost: once its turn in the response has come it is
\* among the pending actions, wherever the loop stopped (agent_loop.py:535-547, 655-671).
NothingRunsUnapproved ==
    /\ \A s \in started : s[1] \in asked => s[1] \in approved
    /\ asked \subseteq Range(pending) \cup {use.id : use \in Range(todo)}

\* A result published as the model's own passed the guard, and a template replaces
\* it only after every retry (agent_loop.py:586-611).
PublishedResultGuarded ==
    opts.guard /\ ending.reason = "finished" =>
        /\ guard.failed <=> ending.source = "template"
        /\ ending.source = "template" => guard.attempts > opts.retries

\* The loop ends, though tools may hang for ever and the model may never finish.
Terminates == <>(pc \in {"stopped", "raised"})

\* "a failure is sent back once (guard_retries=1) ..., then fallback() is used"
\* (README.md): the model has been sent the instruction before the loop gives up.
RetrySentBack ==
    opts.retries > 0 /\ (ending.reason = "guard_failed" \/ ending.source = "template") =>
        guard.feedback = "sent"
=============================================================================
