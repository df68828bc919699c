---------------------------- MODULE AgentLoopProofs ----------------------------
(***************************************************************************)
(* For every number of iterations and recovery attempts: the run's work is *)
(* bounded, a cancelled mission is not completed and gets at most one more *)
(* turn, every tool call is answered before the next turn, and completion  *)
(* is verified.  One inductive invariant, LoopInvariant, carries all four. *)
(***************************************************************************)
EXTENDS AgentLoop, TLAPS

\* The turns of one more attempt.
LEMMA AttemptTurns ==
  \A n \in Nat : (n + 1) * MaxIterationsPerAttempt
                   = n * MaxIterationsPerAttempt + MaxIterationsPerAttempt
BY IterationsAssumption

\* Attempts within the recovery bound fit in the bound on turns.
LEMMA AttemptsWithinBound ==
  \A n \in Nat : n <= MaxRecoveryAttempts =>
    n * MaxIterationsPerAttempt + MaxIterationsPerAttempt
      <= (MaxRecoveryAttempts + 1) * MaxIterationsPerAttempt
<1> SUFFICES ASSUME NEW n \in Nat, n <= MaxRecoveryAttempts
             PROVE (n + 1) * MaxIterationsPerAttempt
                     <= (MaxRecoveryAttempts + 1) * MaxIterationsPerAttempt
  BY AttemptTurns
<1> QED
  BY IterationsAssumption, RecoveryAssumption

\* The empty batch of calls is a batch of calls.
LEMMA NoCalls == <<>> \in Seq(Calls) /\ Len(<<>>) = 0
OBVIOUS

\* Each action keeps the types.
LEMMA TypeStep == TypeOK /\ CallsTracked /\ [Next]_vars => TypeOK'
<1> SUFFICES ASSUME TypeOK, CallsTracked, [Next]_vars PROVE TypeOK'
  OBVIOUS
<1> USE DEF TypeOK, loop, history, Goto, End
<1>1. CASE Preflight \/ CheckCancelled \/ Generate \/ GenerationFails
  BY <1>1 DEF Preflight, CheckCancelled, Generate, GenerationFails
<1>2. CASE OutOfIterations \/ EmptyReceived \/ Verify
  <2>1. CASE Recover /\ UNCHANGED <<row, answer, unanswered, history>>
    BY <2>1, NoCalls DEF Recover
  <2>2. QED
    BY <1>2, <2>1 DEF OutOfIterations, EmptyReceived, Verify
<1>3. ASSUME NEW a \in Answers, AnswerReceived(a) PROVE TypeOK'
  BY <1>3 DEF AnswerReceived
<1>4. ASSUME NEW n \in 1..MaxCalls, NEW proposed \in [1..n -> Calls], CallsReceived(proposed)
      PROVE TypeOK'
  <2>1. proposed \in Seq(Calls) /\ Len(proposed) \in Nat
    BY CallsAssumption
  <2>2. QED
    BY <1>4, <2>1 DEF CallsReceived
<1>5. CASE RefuseUnknown \/ \E result \in Results : ExecuteTool(result)
  <2>1. calls # <<>> /\ unanswered = Len(calls)
    BY <1>5 DEF RefuseUnknown, ExecuteTool, CallsTracked
  <2>2. unanswered - 1 \in Nat /\ Tail(calls) \in Seq(Calls)
    BY <2>1
  <2>3. QED
    BY <1>5, <2>2 DEF RefuseUnknown, ExecuteTool
<1>6. CASE ToolsDone \/ BeginCompletion \/ FinishCompletion \/ StatementThrows \/ Cancel \/ Forget
  BY <1>6 DEF ToolsDone, BeginCompletion, FinishCompletion, StatementThrows, Cancel, Forget
<1>7. CASE Finished \/ UNCHANGED vars
  BY <1>7 DEF Finished, vars
<1>8. QED
  BY <1>1, <1>2, <1>3, <1>4, <1>5, <1>6, <1>7 DEF Next, Agent, ModelTurn, ToolTurn

\* Each action keeps the count of unanswered calls equal to the calls waiting.
LEMMA CallsStep == TypeOK /\ CallsTracked /\ [Next]_vars => CallsTracked'
<1> SUFFICES ASSUME TypeOK, CallsTracked, [Next]_vars PROVE CallsTracked'
  OBVIOUS
<1> USE DEF TypeOK, CallsTracked, loop, history, Goto, End
<1>1. CASE Preflight \/ CheckCancelled \/ Generate \/ GenerationFails
  BY <1>1 DEF Preflight, CheckCancelled, Generate, GenerationFails
<1>2. CASE OutOfIterations \/ EmptyReceived \/ Verify
  BY <1>2 DEF OutOfIterations, EmptyReceived, Verify, Recover
<1>3. ASSUME NEW a \in Answers, AnswerReceived(a) PROVE CallsTracked'
  BY <1>3 DEF AnswerReceived
<1>4. ASSUME NEW n \in 1..MaxCalls, NEW proposed \in [1..n -> Calls], CallsReceived(proposed)
      PROVE CallsTracked'
  <2>1. Len(proposed) \in Nat /\ unanswered = 0
    BY <1>4, CallsAssumption DEF CallsReceived
  <2>2. QED
    BY <1>4, <2>1 DEF CallsReceived
<1>5. CASE RefuseUnknown \/ \E result \in Results : ExecuteTool(result)
  <2>1. calls # <<>> /\ pc = "tools" /\ pc' = "tools"
    BY <1>5 DEF RefuseUnknown, ExecuteTool
  <2>2. Len(Tail(calls)) = Len(calls) - 1
    BY <2>1
  <2>3. QED
    BY <1>5, <2>1, <2>2 DEF RefuseUnknown, ExecuteTool
<1>6. CASE ToolsDone \/ BeginCompletion \/ FinishCompletion \/ StatementThrows \/ Cancel \/ Forget
  BY <1>6 DEF ToolsDone, BeginCompletion, FinishCompletion, StatementThrows, Cancel, Forget
<1>7. CASE Finished \/ UNCHANGED vars
  BY <1>7 DEF Finished, vars
<1>8. QED
  BY <1>1, <1>2, <1>3, <1>4, <1>5, <1>6, <1>7 DEF Next, Agent, ModelTurn, ToolTurn

\* Each action spends at most the turns its loop counters account for.
LEMMA TurnsStep == TypeOK /\ TurnsSpent /\ [Next]_vars => TurnsSpent'
<1> SUFFICES ASSUME TypeOK, TurnsSpent, [Next]_vars PROVE TurnsSpent'
  OBVIOUS
<1> USE IterationsAssumption, RecoveryAssumption
        DEF TypeOK, TurnsSpent, TurnsBounded, Working, loop, history, Goto, End
<1>1. CASE Preflight \/ CheckCancelled \/ GenerationFails
  BY <1>1 DEF Preflight, CheckCancelled, GenerationFails
<1>2. CASE Generate
  BY <1>2, AttemptsWithinBound DEF Generate
<1>3. ASSUME Recover, pc # "done", UNCHANGED generations PROVE TurnsSpent'
  <2> DEFINE spent == attempt * MaxIterationsPerAttempt
             later == attempt' * MaxIterationsPerAttempt
  <2>1. spent \in Nat /\ later \in Nat
    BY <1>3 DEF Recover
  <2>2. later = spent + MaxIterationsPerAttempt
    BY <1>3, AttemptTurns DEF Recover
  <2> HIDE DEF spent, later
  <2>3. generations <= spent + MaxIterationsPerAttempt
    BY <1>3, <2>1 DEF spent
  <2>4. generations' <= later + iteration' /\ TurnsBounded'
    BY <1>3, <2>1, <2>2, <2>3 DEF Recover
  <2>5. pc' \in {"check", "done"} /\ (pc' = "check" => attempt' <= MaxRecoveryAttempts) /\ iteration' = 0
    BY <1>3 DEF Recover
  <2>6. QED
    BY <2>4, <2>5 DEF later
<1>4. CASE EmptyReceived \/ ToolsDone
  BY <1>3, <1>4 DEF EmptyReceived, ToolsDone
<1>5. CASE OutOfIterations \/ Verify
  BY <1>3, <1>5 DEF OutOfIterations, Verify
<1>6. CASE (\E a \in Answers : AnswerReceived(a)) \/ BeginCompletion \/ FinishCompletion \/ StatementThrows \/ Cancel \/ Forget
  BY <1>6 DEF AnswerReceived, BeginCompletion, FinishCompletion, StatementThrows, Cancel, Forget
<1>7. CASE RefuseUnknown \/ \E result \in Results : ExecuteTool(result)
  BY <1>7 DEF RefuseUnknown, ExecuteTool
<1>8. ASSUME NEW proposed, CallsReceived(proposed) PROVE TurnsSpent'
  BY <1>8 DEF CallsReceived
<1>9. CASE Finished \/ UNCHANGED vars
  BY <1>9 DEF Finished, vars
<1>10. QED
  BY <1>1, <1>2, <1>4, <1>5, <1>6, <1>7, <1>8, <1>9 DEF Next, Agent, ModelTurn, ToolTurn

\* Each action keeps the end of the run, the row and the verdict in step.
LEMMA EndsStep == TypeOK /\ EndsMatchRow /\ [Next]_vars => EndsMatchRow'
<1> SUFFICES ASSUME TypeOK, EndsMatchRow, [Next]_vars PROVE EndsMatchRow'
  OBVIOUS
<1> USE DEF TypeOK, EndsMatchRow, Verified, loop, history, Goto, End
<1>1. CASE Preflight \/ CheckCancelled \/ Generate \/ GenerationFails
  BY <1>1 DEF Preflight, CheckCancelled, Generate, GenerationFails
<1>2. CASE OutOfIterations \/ EmptyReceived
  BY <1>2 DEF OutOfIterations, EmptyReceived, Recover
<1>3. CASE Verify
  BY <1>3 DEF Verify, Recover
<1>4. CASE (\E a \in Answers : AnswerReceived(a)) \/ ToolsDone
  BY <1>4 DEF AnswerReceived, ToolsDone
<1>5. ASSUME NEW proposed, CallsReceived(proposed) PROVE EndsMatchRow'
  BY <1>5 DEF CallsReceived
<1>6. CASE RefuseUnknown \/ \E result \in Results : ExecuteTool(result)
  BY <1>6 DEF RefuseUnknown, ExecuteTool
<1>7. CASE BeginCompletion \/ FinishCompletion \/ StatementThrows \/ Cancel \/ Forget
  BY <1>7 DEF BeginCompletion, FinishCompletion, StatementThrows, Cancel, Forget
<1>8. CASE Finished \/ UNCHANGED vars
  BY <1>8 DEF Finished, vars
<1>9. QED
  BY <1>1, <1>2, <1>3, <1>4, <1>5, <1>6, <1>7, <1>8 DEF Next, Agent, ModelTurn, ToolTurn

\* LoopInvariant holds throughout every run of the agent.
THEOREM LoopInvariantHolds == Spec => []LoopInvariant
<1>1. Init => LoopInvariant
  <2> SUFFICES ASSUME Init PROVE LoopInvariant
    OBVIOUS
  <2>1. 0 <= (MaxRecoveryAttempts + 1) * MaxIterationsPerAttempt
    BY IterationsAssumption, RecoveryAssumption
  <2>2. TypeOK
    BY NoCalls DEF Init, TypeOK, Answers
  <2>3. EndsMatchRow
    BY DEF Init, EndsMatchRow
  <2>4. CallsTracked
    BY NoCalls DEF Init, CallsTracked
  <2>5. TurnsSpent
    BY <2>1, IterationsAssumption, RecoveryAssumption DEF Init, TurnsSpent, TurnsBounded, Working
  <2>6. QED
    BY <2>2, <2>3, <2>4, <2>5 DEF LoopInvariant
<1>2. LoopInvariant /\ [Next]_vars => LoopInvariant'
  BY TypeStep, CallsStep, TurnsStep, EndsStep DEF LoopInvariant
<1>3. QED
  BY <1>1, <1>2, PTL DEF Spec

\* The agent keeps its types, for any bounds on iterations, recoveries and calls.
THEOREM AgentTypeOK == Spec => []TypeOK
<1>1. LoopInvariant => TypeOK
  BY DEF LoopInvariant
<1>2. QED
  BY <1>1, LoopInvariantHolds, PTL

\* A mission costs at most MaxIterationsPerAttempt model turns per attempt and
\* MaxRecoveryAttempts + 1 attempts, whatever the model and the tools answer.
THEOREM TurnsAreBounded == Spec => []TurnsBounded
<1>1. LoopInvariant => TurnsBounded
  BY DEF LoopInvariant, TurnsSpent
<1>2. QED
  BY <1>1, LoopInvariantHolds, PTL

\* A cancel ends the run after at most the turn already past its check, and the
\* mission is not completed.
THEOREM CancelStops == Spec => []CancelStopsAgent
<1>1. LoopInvariant => CancelStopsAgent
  BY DEF LoopInvariant, TypeOK, EndsMatchRow, CancelStopsAgent
<1>2. QED
  BY <1>1, LoopInvariantHolds, PTL

\* No turn is requested with a tool call still unanswered in the conversation.
THEOREM EveryCallAnswered == Spec => []CallsAnswered
<1>1. LoopInvariant => CallsAnswered
  BY DEF LoopInvariant, CallsTracked, CallsAnswered
<1>2. QED
  BY <1>1, LoopInvariantHolds, PTL

\* The mission is completed only on an answer the verifier accepted.
THEOREM CompletionIsVerified == Spec => []CompletesVerified
<1>1. LoopInvariant => CompletesVerified
  BY DEF LoopInvariant, TypeOK, Results, EndsMatchRow, CompletesVerified, Verified
<1>2. QED
  BY <1>1, LoopInvariantHolds, PTL
===============================================================================
