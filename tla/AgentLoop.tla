------------------------------- MODULE AgentLoop -------------------------------
(***************************************************************************)
(* One run of AgentService.RunAsync on a claimed mission: up to            *)
(* MaxRecoveryAttempts + 1 planning attempts of up to                      *)
(* MaxIterationsPerAttempt model turns, tool calls executed in order, the  *)
(* grounded-answer verifier, and completion.  The model and the tools are  *)
(* free to answer anything; the user may cancel the mission at any moment. *)
(*                                                                         *)
(* What RunAsync's caller does with a thrown run is in MissionExecution.   *)
(***************************************************************************)
EXTENDS Naturals, Sequences

CONSTANTS MaxIterationsPerAttempt,   \* 8 in the code
          MaxRecoveryAttempts,       \* 2 in the code
          MaxCalls                   \* bound: tool calls in one model response

ASSUME IterationsAssumption == MaxIterationsPerAttempt \in Nat
ASSUME RecoveryAssumption == MaxRecoveryAttempts \in Nat
ASSUME CallsAssumption == MaxCalls \in Nat

VARIABLES
  row,         \* the mission's Status column
  pc,          \* where RunAsync is
  outcome,     \* how it ended: the MissionOutcome's kind, or "thrown"
  attempt,     \* the recovery loop's counter
  iteration,   \* the planning loop's counter
  empties,     \* emptyResponses
  calls,       \* response.ToolCalls still to be handled, in order
  executions,  \* results of the attempt's executed tools ("ok", "failed")
  answer,      \* the answer handed to the verifier
  unanswered,  \* tool calls in the conversation with no tool message yet
  generations, \* history: model turns requested in the run
  toolResults, \* history: results of every tool executed in the run
  lateTurns    \* history: model turns requested after the user cancelled the mission

loop    == <<attempt, iteration, empties, calls, executions>>
history == <<generations, toolResults, lateTurns>>
vars    == <<row, pc, outcome, loop, answer, unanswered, history>>

\* A tool call the model proposes: a name the registry does not know, or a
\* registered tool.  (PermissionEngine.RequireApproval holds none of them back.)
Calls == {"unknown", "known"}
Results == {"ok", "failed"}
Answers == {"short", "real"}
-------------------------------------------------------------------------------
Init ==
  /\ row = "Running" /\ pc = "preflight" /\ outcome = "none"
  /\ attempt = 0 /\ iteration = 0 /\ empties = 0
  /\ calls = <<>> /\ executions = {} /\ answer = "short" /\ unanswered = 0
  /\ generations = 0 /\ toolResults = {} /\ lateTurns = 0

End(kind) == pc' = "done" /\ outcome' = kind
Goto(label) == pc' = label /\ UNCHANGED outcome

\* A mutant: an off-by-one in the recovery bound.
RecoverOnceMore ==
  /\ attempt' = attempt + 1
  /\ iteration' = 0 /\ empties' = 0 /\ calls' = <<>> /\ executions' = {}
  /\ IF attempt <= MaxRecoveryAttempts THEN Goto("check") ELSE End("thrown")

\* The turn failed verification or stalled: a message is added and the recovery
\* loop goes round, or throws once its attempts are used up.  The executions
\* list and the counters belong to RunPlanningAttemptAsync and start afresh.
Recover ==
  /\ attempt' = attempt + 1
  /\ iteration' = 0 /\ empties' = 0 /\ calls' = <<>> /\ executions' = {}
  /\ IF attempt < MaxRecoveryAttempts THEN Goto("check") ELSE End("thrown")

\* RunAsync before the loop: a cancelled mission is aborted; no row, Ollama down,
\* the model missing or the workspace invalid throws.
Preflight ==
  /\ pc = "preflight"
  /\ \/ row = "Cancelled" /\ End("aborted")
     \/ row # "Cancelled" /\ End("thrown")
     \/ row \notin {"Cancelled", "Deleted"} /\ Goto("check")
  /\ UNCHANGED <<row, loop, answer, unanswered, history>>

\* The head of the planning loop: iterations used up, or the store's view of
\* the mission read before every model turn.
OutOfIterations ==
  /\ pc = "check"
  /\ iteration >= MaxIterationsPerAttempt
  /\ Recover
  /\ UNCHANGED <<row, answer, unanswered, history>>

\* A mutant: the store is read before the first turn of an attempt only.
CheckCancelledOnce ==
  /\ pc = "check"
  /\ iteration < MaxIterationsPerAttempt
  /\ IF row = "Cancelled" /\ iteration = 0 THEN End("aborted") ELSE Goto("generate")
  /\ UNCHANGED <<row, loop, answer, unanswered, history>>

\* Get(id) is { Status: Cancelled } aborts; a row that is gone does not match.
CheckCancelled ==
  /\ pc = "check"
  /\ iteration < MaxIterationsPerAttempt
  /\ IF row = "Cancelled" THEN End("aborted") ELSE Goto("generate")
  /\ UNCHANGED <<row, loop, answer, unanswered, history>>

\* Every GenerateAsync starts here, with a conversation that must be well formed.
Generate ==
  /\ pc = "generate"
  /\ generations' = generations + 1
  /\ lateTurns' = IF row \in {"Cancelled", "Deleted"} THEN lateTurns + 1 ELSE lateTurns
  /\ Goto("response")
  /\ UNCHANGED <<row, loop, answer, unanswered, toolResults>>

\* GenerateAsync throws (connection, HTTP status, timeout, shutdown token).
GenerationFails ==
  /\ pc = "response"
  /\ End("thrown")
  /\ UNCHANGED <<row, loop, answer, unanswered, history>>

\* No tool call and non-blank content: the attempt ends with an answer.
AnswerReceived(a) ==
  /\ pc = "response"
  /\ answer' = a
  /\ Goto("verify")
  /\ UNCHANGED <<row, loop, unanswered, history>>

\* No tool call and no content: the second one of the attempt stalls it.
EmptyReceived ==
  /\ pc = "response"
  /\ IF empties + 1 >= 2
       THEN Recover
       ELSE /\ empties' = empties + 1
            /\ iteration' = iteration + 1
            /\ Goto("check")
            /\ UNCHANGED <<attempt, calls, executions>>
  /\ UNCHANGED <<row, answer, unanswered, history>>

\* Tool calls: the assistant message that carries them joins the conversation.
CallsReceived(proposed) ==
  /\ pc = "response"
  /\ calls' = proposed
  /\ unanswered' = unanswered + Len(proposed)
  /\ Goto("tools")
  /\ UNCHANGED <<row, attempt, iteration, empties, executions, answer, history>>

\* A mutant: a refused call leaves no tool message.
RefuseUnknownSilently ==
  /\ pc = "tools"
  /\ calls # <<>> /\ Head(calls) = "unknown"
  /\ calls' = Tail(calls)
  /\ UNCHANGED <<row, pc, outcome, attempt, iteration, empties, executions, answer, unanswered, history>>

\* tools.Get throws KeyNotFoundException: the model is told so, nothing runs.
RefuseUnknown ==
  /\ pc = "tools"
  /\ calls # <<>> /\ Head(calls) = "unknown"
  /\ calls' = Tail(calls)
  /\ unanswered' = unanswered - 1
  /\ UNCHANGED <<row, pc, outcome, attempt, iteration, empties, executions, answer, history>>

\* A registered tool runs (RequireApproval returns null for every tool) and its
\* result is recorded and answered; every exception of a tool is a failed result.
ExecuteTool(result) ==
  /\ pc = "tools"
  /\ calls # <<>> /\ Head(calls) # "unknown"
  /\ calls' = Tail(calls)
  /\ executions' = executions \cup {result}
  /\ unanswered' = unanswered - 1
  /\ toolResults' = toolResults \cup {result}
  /\ UNCHANGED <<row, pc, outcome, attempt, iteration, empties, answer, generations, lateTurns>>

\* The batch is done: the next iteration.
ToolsDone ==
  /\ pc = "tools" /\ calls = <<>>
  /\ iteration' = iteration + 1
  /\ Goto("check")
  /\ UNCHANGED <<row, attempt, empties, calls, executions, answer, unanswered, history>>

\* A mutant: the verifier looks at the answer only.
VerifiedByLength == answer = "real"

\* GroundedAnswerVerifier: two characters at least, and if the attempt executed
\* tools, one of them succeeded.
Verified == answer = "real" /\ (executions # {} => "ok" \in executions)

\* The verdict: completion begins, or recovery.
Verify ==
  /\ pc = "verify"
  /\ IF Verified THEN Goto("complete") /\ UNCHANGED loop ELSE Recover
  /\ UNCHANGED <<row, answer, unanswered, history>>

\* A mutant: a refused transition leads back to the verifier instead of throwing.
BeginCompletionRetries ==
  /\ pc = "complete"
  /\ IF row = "Running" THEN row' = "Verifying" /\ Goto("record")
                        ELSE UNCHANGED row /\ Goto("verify")
  /\ UNCHANGED <<loop, answer, unanswered, history>>

\* Complete: Transition(Verifying), which throws on a cancelled or deleted row.
BeginCompletion ==
  /\ pc = "complete"
  /\ IF row = "Running" THEN row' = "Verifying" /\ Goto("record")
                        ELSE UNCHANGED row /\ End("thrown")
  /\ UNCHANGED <<loop, answer, unanswered, history>>

\* Complete: SetResult and Transition(Completed), then Publish, which may throw.
\* The user interface cannot move a Verifying mission.
FinishCompletion ==
  /\ pc = "record"
  /\ row' = "Completed"
  /\ End("completed") \/ End("thrown")
  /\ UNCHANGED <<loop, answer, unanswered, history>>

\* The store reads, writes and Publish calls between the turns may throw too
\* (database busy), out of RunAsync.
StatementThrows ==
  /\ pc \in {"check", "tools", "verify", "complete", "record"}
  /\ End("thrown")
  /\ UNCHANGED <<row, loop, answer, unanswered, history>>

\* POST /api/missions/{id}/transition with Cancelled, as both pages send it.
Cancel ==
  /\ row = "Running"
  /\ row' = "Cancelled"
  /\ UNCHANGED <<pc, outcome, loop, answer, unanswered, history>>

\* DELETE /api/memory ("Forget all") deletes the row of a cancelled mission,
\* whose run may still be going on.
Forget ==
  /\ row = "Cancelled"
  /\ row' = "Deleted"
  /\ UNCHANGED <<pc, outcome, loop, answer, unanswered, history>>
-------------------------------------------------------------------------------
ModelTurn ==
  \/ Generate \/ GenerationFails \/ EmptyReceived
  \/ \E a \in Answers : AnswerReceived(a)
  \/ \E n \in 1..MaxCalls : \E proposed \in [1..n -> Calls] : CallsReceived(proposed)

ToolTurn == RefuseUnknown \/ ToolsDone \/ \E result \in Results : ExecuteTool(result)

Agent ==
  \/ Preflight \/ OutOfIterations \/ CheckCancelled \/ ModelTurn \/ ToolTurn
  \/ Verify \/ BeginCompletion \/ FinishCompletion \/ StatementThrows

\* The run is over: the caller has the outcome.
Finished == pc = "done" /\ UNCHANGED vars

Next == Agent \/ Cancel \/ Forget \/ Finished

Spec == Init /\ [][Next]_vars

\* RunAsync runs on: model and tools have timeouts, so each step ends.  The user
\* never has to cancel.
FairSpec == Spec /\ WF_vars(Agent)
-------------------------------------------------------------------------------
TypeOK ==
  /\ row \in {"Running", "Verifying", "Completed", "Cancelled", "Deleted"}
  /\ pc \in {"preflight", "check", "generate", "response", "tools", "verify",
             "complete", "record", "done"}
  /\ outcome \in {"none", "completed", "aborted", "thrown"}
  /\ attempt \in Nat /\ iteration \in Nat /\ empties \in Nat
  /\ calls \in Seq(Calls) /\ executions \subseteq Results
  /\ answer \in Answers /\ unanswered \in Nat
  /\ generations \in Nat /\ lateTurns \in Nat
  /\ toolResults \subseteq Results

\* Recovery is bounded: whatever the model answers, a mission costs at most
\* MaxIterationsPerAttempt turns in each of MaxRecoveryAttempts + 1 attempts.
TurnsBounded == generations <= (MaxRecoveryAttempts + 1) * MaxIterationsPerAttempt

\* A cancelled mission is never completed, not even when its row is deleted
\* under the run, and while the row is there it gets no second model turn: the
\* cancel may land after the check, so one turn can still be under way.
CancelStopsAgent ==
  /\ row = "Cancelled" => lateTurns <= 1
  /\ row \in {"Cancelled", "Deleted"} => outcome \in {"none", "aborted", "thrown"}

\* Ollama's protocol: when the next turn is requested, every tool call already
\* in the conversation has its tool message, refused and failed ones included.
CallsAnswered == pc \in {"generate", "response"} => unanswered = 0

\* A mission completes only with an answer the verifier accepts for the attempt
\* that produced it.
CompletesVerified ==
  /\ row = "Completed" => answer = "real" /\ executions # {"failed"}
  /\ outcome = "completed" => row = "Completed"

\* Every run ends: the recovery and planning loops cannot go on for ever.
RunEnds == <>(pc = "done")

\* What the parts of the invariant below rest on: how many turns each point of
\* the loops can have spent, ...
Working == pc \in {"response", "tools", "verify", "complete", "record"}
TurnsSpent ==
  /\ pc # "done" => attempt <= MaxRecoveryAttempts /\ iteration <= MaxIterationsPerAttempt
  /\ Working \/ pc = "generate" => iteration < MaxIterationsPerAttempt
  /\ pc = "preflight" => generations = 0
  /\ ~Working /\ pc # "done" => generations <= attempt * MaxIterationsPerAttempt + iteration
  /\ Working => generations <= attempt * MaxIterationsPerAttempt + iteration + 1
  /\ TurnsBounded

\* ... where a late turn can have been counted, and how a run's end, the row and
\* the verdict go together.
EndsMatchRow ==
  /\ row \notin {"Cancelled", "Deleted"} => lateTurns = 0
  /\ row = "Cancelled" => lateTurns = 0 \/ (lateTurns = 1 /\ pc # "generate")
  /\ pc = "done" <=> outcome # "none"
  /\ pc \in {"complete", "record"} \/ row = "Completed" => Verified
  /\ row = "Completed" => pc = "done"
  /\ outcome = "completed" => row = "Completed"
  /\ pc = "record" => row = "Verifying"
  /\ row = "Verifying" => pc = "record" \/ outcome = "thrown"

\* Only the batch being handled has calls waiting, and those are the unanswered.
CallsTracked == unanswered = Len(calls) /\ (pc \notin {"tools", "done"} => calls = <<>>)

\* The inductive invariant of the run.
LoopInvariant == TypeOK /\ TurnsSpent /\ EndsMatchRow /\ CallsTracked

\* The comment on GroundedAnswerVerifier: when tools were used on the mission,
\* it completes only if at least one of them completed successfully.
GroundedWhenToolsUsed ==
  row = "Completed" /\ toolResults # {} => "ok" \in toolResults
===============================================================================
