--------------------------- MODULE MissionExecution ---------------------------
(***************************************************************************)
(* Missions end to end: the Server's request handlers, the Workers that    *)
(* claim and run missions, and the SQLite tables they share, with process  *)
(* crashes, graceful stops and restarts.                                   *)
(*                                                                         *)
(* Grain.  One action per database statement a handler or the worker loop  *)
(* executes, except that IMissionStore.Transition is one atomic step: its  *)
(* SELECT/UPDATE loop is shown to implement that in SqliteMissionStore.    *)
(* SetResult is not atomic and keeps its two statements.  A model turn of  *)
(* the agent (AgentLoop) is one step; MaxTurns stands for the bound proved *)
(* there, (MaxRecoveryAttempts + 1) * MaxIterationsPerAttempt.             *)
(*                                                                         *)
(* PermissionEngine raises no approval, so no mission ever has a granted   *)
(* approval and ClaimNext only takes Created missions here.                *)
(***************************************************************************)
EXTENDS MissionContracts, Naturals, FiniteSets

CONSTANTS Missions,      \* mission ids
          Workers,       \* worker processes; one is deployed, the claim is built for several
          None,          \* no mission
          UserTargets,   \* statuses POST /transition is called with; the UI sends Cancelled
          MaxTurns,      \* model turns one run can take
          MaxCrashes,    \* bound: worker crashes in a behaviour
          MaxStops,      \* bound: graceful worker stops in a behaviour
          MaxFaults      \* bound: statements that throw (database busy or full)

ASSUME FiniteMissions == IsFiniteSet(Missions)
ASSUME NoneIsNoMission == None \notin Missions
ASSUME TargetsAssumption == UserTargets \subseteq Status
ASSUME TurnsAssumption == MaxTurns \in Nat
ASSUME BoundsAssumption == MaxCrashes \in Nat /\ MaxStops \in Nat /\ MaxFaults \in Nat

VARIABLES
  status,       \* [Missions -> RowState]: the missions table's Status column
  outcome,      \* [Missions -> {"none", "answer", "error"}]: Result and Error
  birth,        \* [Missions -> Nat]: CreatedAt as a rank
  log,          \* the events table's mission events, as <<mission, type>> pairs
  pc,           \* [Workers -> Label]: the worker loop's next statement
  job,          \* [Workers -> Missions \cup {None}]: the mission it is running
  turns,        \* [Workers -> Nat]: model turns taken by the run
  stopping,     \* workers whose stoppingToken is cancelled
  unpublished,  \* <<mission, type>>: events of requests between store and Publish
  forgetting,   \* a DELETE /api/memory request has yet to clear the events
  claims,       \* history: how often each mission was claimed
  crashes, stops, faults   \* counters for the bounds

rows   == <<status, outcome, birth>>
worker == <<pc, job, turns>>
server == <<unpublished, forgetting>>
counts == <<claims, crashes, stops, faults>>
vars   == <<rows, log, worker, stopping, server, counts>>

\* The mission events whose publication follows a write of the row.  TOOL_* and
\* VERIFICATION events are activity only and are left out.
EventType == {"MISSION_CREATED", "MISSION_STARTED", "MISSION_COMPLETED",
              "MISSION_FAILED", "MISSION_CANCELLED"}

\* Statements of AgentService.RunAsync, whose exceptions end in FailMissionAsync.
Running == {"load", "check", "generate", "verifying", "result.select", "result.update",
            "completed", "publish.completed"}
\* Statements of FailMissionAsync, which swallows its own exceptions.
Failing == {"fail.get", "fail.select", "fail.update", "fail.move", "publish.failed"}
Label == {"idle", "publish.started", "down"} \cup Running \cup Failing

NextBirth == 1 + Cardinality({m \in Missions : status[m] # "Unborn"})
-------------------------------------------------------------------------------
Init ==
  /\ status = [m \in Missions |-> "Unborn"]
  /\ outcome = [m \in Missions |-> "none"]
  /\ birth = [m \in Missions |-> 0]
  /\ log = {}
  /\ pc = [w \in Workers |-> "idle"]
  /\ job = [w \in Workers |-> None]
  /\ turns = [w \in Workers |-> 0]
  /\ stopping = {}
  /\ unpublished = {} /\ forgetting = FALSE
  /\ claims = [m \in Missions |-> 0]
  /\ crashes = 0 /\ stops = 0 /\ faults = 0

Goto(w, label) == pc' = [pc EXCEPT ![w] = label] /\ UNCHANGED <<job, turns>>

\* The run is over and the loop polls again, or the process is gone: either way
\* nothing of the run is left in memory.
Leave(w, label) ==
  /\ pc' = [pc EXCEPT ![w] = label]
  /\ job' = [job EXCEPT ![w] = None]
  /\ turns' = [turns EXCEPT ![w] = 0]

\* IMissionStore.Transition: the row moves and the caller goes on, or it throws.
MoveRow(m, next) == status' = [status EXCEPT ![m] = next]
-------------------------------------------------------------------------------
(* The Server's handlers. *)

\* POST /api/missions: the INSERT; Publish(MISSION_CREATED) is its next step.
PostMission(m) ==
  /\ status[m] = "Unborn"
  /\ MoveRow(m, "Created")
  /\ birth' = [birth EXCEPT ![m] = NextBirth]
  /\ unpublished' = unpublished \cup {<<m, "MISSION_CREATED">>}
  /\ UNCHANGED <<outcome, log, worker, stopping, forgetting, counts>>

\* POST /api/missions/{id}/transition: a move the table forbids is a 409 and
\* changes nothing; only a cancel is announced.
PostTransition(m, next) ==
  /\ IsAllowed(status[m], next)
  /\ MoveRow(m, next)
  /\ unpublished' = IF next = "Cancelled"
                      THEN unpublished \cup {<<m, "MISSION_CANCELLED">>} ELSE unpublished
  /\ UNCHANGED <<outcome, birth, log, worker, stopping, forgetting, counts>>

\* The Publish that ends either handler.
PublishRequest(event) ==
  /\ event \in unpublished
  /\ log' = log \cup {event}
  /\ unpublished' = unpublished \ {event}
  /\ UNCHANGED <<rows, worker, stopping, forgetting, counts>>

\* DELETE /api/memory: ClearTerminal, then the event trail (the approvals in
\* between are not modelled here).
ForgetMissions ==
  /\ ~forgetting
  /\ status' = [m \in Missions |-> IF status[m] \in Terminal THEN "Deleted" ELSE status[m]]
  /\ outcome' = [m \in Missions |-> IF status[m] \in Terminal THEN "none" ELSE outcome[m]]
  /\ forgetting' = TRUE
  /\ UNCHANGED <<birth, log, worker, stopping, unpublished, counts>>

ForgetEvents ==
  /\ forgetting
  /\ log' = {}
  /\ forgetting' = FALSE
  /\ UNCHANGED <<rows, worker, stopping, unpublished, counts>>

\* The Server process dies: requests in flight are never finished.
ServerCrash ==
  /\ unpublished # {} \/ forgetting
  /\ unpublished' = {} /\ forgetting' = FALSE
  /\ UNCHANGED <<rows, log, worker, stopping, counts>>
-------------------------------------------------------------------------------
(* MissionWorker.ExecuteAsync. *)

\* A mutant: the claim also takes Running rows, to pick up interrupted missions.
ClaimInterrupted(w, m) ==
  /\ pc[w] = "idle" /\ w \notin stopping
  /\ status[m] \in {"Created", "Running"}
  /\ MoveRow(m, "Running")
  /\ pc' = [pc EXCEPT ![w] = "publish.started"]
  /\ job' = [job EXCEPT ![w] = m]
  /\ claims' = [claims EXCEPT ![m] = @ + 1]
  /\ UNCHANGED <<outcome, birth, log, turns, stopping, server, crashes, stops, faults>>

\* ClaimNext: the oldest Created mission becomes Running in one statement.
Claim(w, m) ==
  /\ pc[w] = "idle" /\ w \notin stopping
  /\ status[m] = "Created"
  /\ \A n \in Missions : status[n] = "Created" => birth[m] <= birth[n]
  /\ MoveRow(m, "Running")
  /\ pc' = [pc EXCEPT ![w] = "publish.started"]
  /\ job' = [job EXCEPT ![w] = m]
  /\ claims' = [claims EXCEPT ![m] = @ + 1]
  /\ UNCHANGED <<outcome, birth, log, turns, stopping, server, crashes, stops, faults>>

\* The three events the worker publishes, each once the row says so.
PublishFrom(w, label, type, next) ==
  /\ pc[w] = label
  /\ log' = log \cup {<<job[w], type>>}
  /\ IF next = "idle" THEN Leave(w, "idle") ELSE Goto(w, next)
  /\ UNCHANGED <<rows, stopping, server, counts>>

PublishStarted(w)   == PublishFrom(w, "publish.started", "MISSION_STARTED", "load")
PublishCompleted(w) == PublishFrom(w, "publish.completed", "MISSION_COMPLETED", "idle")
PublishFailed(w)    == PublishFrom(w, "publish.failed", "MISSION_FAILED", "idle")

\* RunAsync: no row throws, a cancelled row aborts, Ollama or the workspace may
\* throw, or the planning loop starts.
Load(w) ==
  /\ pc[w] = "load"
  /\ \/ status[job[w]] = "Cancelled" /\ Leave(w, "idle")
     \/ status[job[w]] \in Status \ {"Cancelled"} /\ Goto(w, "check")
     \/ status[job[w]] # "Cancelled" /\ Goto(w, "fail.get")
  /\ UNCHANGED <<rows, log, stopping, server, counts>>

\* A mutant: no bound on the turns of a run.
CheckUnbounded(w) ==
  /\ pc[w] = "check"
  /\ IF status[job[w]] = "Cancelled" THEN Leave(w, "idle") ELSE Goto(w, "generate")
  /\ UNCHANGED <<rows, log, stopping, server, counts>>

\* The read before every model turn: only a Cancelled row aborts, a row deleted
\* in the meantime does not.  With no turn left the run throws.
Check(w) ==
  /\ pc[w] = "check"
  /\ \/ turns[w] >= MaxTurns /\ Goto(w, "fail.get")
     \/ turns[w] < MaxTurns /\ status[job[w]] = "Cancelled" /\ Leave(w, "idle")
     \/ turns[w] < MaxTurns /\ status[job[w]] # "Cancelled" /\ Goto(w, "generate")
  /\ UNCHANGED <<rows, log, stopping, server, counts>>

\* A mutant: a run interrupted by a stop is dropped instead of failed.
TurnDroppedByStop(w) ==
  /\ pc[w] = "generate"
  /\ IF w \in stopping
       THEN Leave(w, "idle")
       ELSE /\ turns' = [turns EXCEPT ![w] = @ + 1]
            /\ \E label \in {"check", "verifying", "fail.get"} : pc' = [pc EXCEPT ![w] = label]
            /\ UNCHANGED job
  /\ UNCHANGED <<rows, log, stopping, server, counts>>

\* One model turn with its tool calls: it leads to another turn, to a verified
\* answer, or throws (also when the worker is being stopped).
Turn(w) ==
  /\ pc[w] = "generate"
  /\ turns' = [turns EXCEPT ![w] = @ + 1]
  /\ \E label \in {"check", "verifying", "fail.get"} : pc' = [pc EXCEPT ![w] = label]
  /\ UNCHANGED <<rows, log, job, stopping, server, counts>>

\* A mutant: the write is not held to the transition table.
TransitionUnchecked(w, label, next, then, thrown) ==
  /\ pc[w] = label
  /\ IF status[job[w]] \in Status
       THEN MoveRow(job[w], next) /\ Goto(w, then)
       ELSE UNCHANGED status /\ IF thrown = "idle" THEN Leave(w, "idle") ELSE Goto(w, thrown)
  /\ UNCHANGED <<outcome, birth, log, stopping, server, counts>>

\* Transition(from a label of the run, to next): forbidden or no row throws.
TransitionFrom(w, label, next, then, thrown) ==
  /\ pc[w] = label
  /\ IF IsAllowed(status[job[w]], next)
       THEN MoveRow(job[w], next) /\ Goto(w, then)
       ELSE UNCHANGED status /\ IF thrown = "idle" THEN Leave(w, "idle") ELSE Goto(w, thrown)
  /\ UNCHANGED <<outcome, birth, log, stopping, server, counts>>

\* SetResult's SELECT: a terminal or missing row throws.
SelectFrom(w, label, then, thrown) ==
  /\ pc[w] = label
  /\ IF status[job[w]] \in Status \ Terminal
       THEN Goto(w, then)
       ELSE IF thrown = "idle" THEN Leave(w, "idle") ELSE Goto(w, thrown)
  /\ UNCHANGED <<rows, log, stopping, server, counts>>

\* A mutant: the UPDATE sets Result only.
UpdateResultOnly(w, label, value, then) ==
  /\ pc[w] = label
  /\ outcome' = IF status[job[w]] \in Status /\ value = "answer"
                  THEN [outcome EXCEPT ![job[w]] = value] ELSE outcome
  /\ Goto(w, then)
  /\ UNCHANGED <<status, birth, log, stopping, server, counts>>

\* SetResult's UPDATE ... WHERE Id = @id, whatever the status is by now.
UpdateFrom(w, label, value, then) ==
  /\ pc[w] = label
  /\ outcome' = IF status[job[w]] \in Status
                  THEN [outcome EXCEPT ![job[w]] = value] ELSE outcome
  /\ Goto(w, then)
  /\ UNCHANGED <<status, birth, log, stopping, server, counts>>

\* AgentService.Complete, statement by statement.
ToVerifying(w)    == TransitionFrom(w, "verifying", "Verifying", "result.select", "fail.get")
SelectForAnswer(w) == SelectFrom(w, "result.select", "result.update", "fail.get")
WriteAnswer(w)    == UpdateFrom(w, "result.update", "answer", "completed")
ToCompleted(w)    == TransitionFrom(w, "completed", "Completed", "publish.completed", "fail.get")

\* FailMissionAsync: its Get returns early on a missing or terminal row, which
\* is the test SetResult's own SELECT makes again.
GetForFailure(w)  == SelectFrom(w, "fail.get", "fail.select", "idle")
SelectForError(w) == SelectFrom(w, "fail.select", "fail.update", "idle")
WriteError(w)     == UpdateFrom(w, "fail.update", "error", "fail.move")
\* A mutant: the failure is announced even if the transition was refused.
ToFailedAnyway(w) == TransitionFrom(w, "fail.move", "Failed", "publish.failed", "publish.failed")
ToFailed(w)       == TransitionFrom(w, "fail.move", "Failed", "publish.failed", "idle")

\* Any of these statements may throw: before RunAsync the loop backs off and
\* polls again, in RunAsync FailMissionAsync takes over, in it nothing does.
StatementFaults(w) ==
  /\ faults < MaxFaults
  /\ faults' = faults + 1
  /\ \/ pc[w] \in {"publish.started"} \cup Failing /\ Leave(w, "idle")
     \/ pc[w] \in Running \ {"generate"} /\ Goto(w, "fail.get")
  /\ UNCHANGED <<rows, log, stopping, server, claims, crashes, stops>>

\* The host is asked to stop; the loop leaves when it next polls.
Stop(w) ==
  /\ pc[w] # "down" /\ w \notin stopping /\ stops < MaxStops
  /\ stopping' = stopping \cup {w}
  /\ stops' = stops + 1
  /\ UNCHANGED <<rows, log, worker, server, claims, crashes, faults>>

Exit(w) ==
  /\ pc[w] = "idle" /\ w \in stopping
  /\ Leave(w, "down")
  /\ UNCHANGED <<rows, log, stopping, server, counts>>

\* The worker process dies at any statement.
Crash(w) ==
  /\ pc[w] # "down" /\ crashes < MaxCrashes
  /\ Leave(w, "down")
  /\ crashes' = crashes + 1
  /\ UNCHANGED <<rows, log, stopping, server, claims, stops, faults>>

\* The worker process is started again: it only begins to poll.
Start(w) ==
  /\ pc[w] = "down"
  /\ Goto(w, "idle")
  /\ stopping' = stopping \ {w}
  /\ UNCHANGED <<rows, log, server, counts>>
-------------------------------------------------------------------------------
Agent(w) ==
  \/ Load(w) \/ Check(w) \/ Turn(w)
  \/ ToVerifying(w) \/ SelectForAnswer(w) \/ WriteAnswer(w) \/ ToCompleted(w)

FailMission(w) == GetForFailure(w) \/ SelectForError(w) \/ WriteError(w) \/ ToFailed(w)

Publish(w) == PublishStarted(w) \/ PublishCompleted(w) \/ PublishFailed(w)

\* What a worker process does by itself, faults and crashes apart.
Work(w) ==
  \/ \E m \in Missions : Claim(w, m)
  \/ Publish(w) \/ Agent(w) \/ FailMission(w) \/ Exit(w)

Server ==
  \/ \E m \in Missions : PostMission(m) \/ \E next \in UserTargets : PostTransition(m, next)
  \/ \E event \in unpublished : PublishRequest(event)
  \/ ForgetMissions \/ ForgetEvents \/ ServerCrash

Next ==
  \/ Server
  \/ \E w \in Workers : Work(w) \/ StatementFaults(w) \/ Stop(w) \/ Crash(w) \/ Start(w)

Spec == Init /\ [][Next]_vars

\* A live worker keeps executing, and a stopped or crashed one is started again.
FairSpec == Spec /\ \A w \in Workers : WF_vars(Work(w)) /\ WF_vars(Start(w))
-------------------------------------------------------------------------------
TypeOK ==
  /\ status \in [Missions -> RowState]
  /\ outcome \in [Missions -> {"none", "answer", "error"}]
  /\ birth \in [Missions -> Nat]
  /\ log \subseteq Missions \X EventType
  /\ pc \in [Workers -> Label]
  /\ job \in [Workers -> Missions \cup {None}]
  /\ turns \in [Workers -> 0..MaxTurns]
  /\ stopping \subseteq Workers
  /\ unpublished \subseteq Missions \X {"MISSION_CREATED", "MISSION_CANCELLED"}
  /\ forgetting \in BOOLEAN
  /\ claims \in [Missions -> Nat]
  /\ crashes \in Nat /\ stops \in Nat /\ faults \in Nat

\* docs/architecture.md on ClaimNext: exactly one consumer ever gets a mission.
\* Across crashes, restarts and several workers, no mission is claimed twice, so
\* none runs twice, and no two workers run the same one.
ClaimedOnce ==
  /\ \A m \in Missions : claims[m] <= 1
  /\ \A w, v \in Workers : job[w] = job[v] /\ job[w] # None => w = v

\* The statuses a mission can have once an event about it is in the trail.
Announces ==
  [type \in EventType |->
     CASE type = "MISSION_CREATED"   -> RowState \ {"Unborn"}
       [] type = "MISSION_STARTED"   -> RowState \ {"Unborn", "Created"}
       [] type = "MISSION_COMPLETED" -> {"Completed", "Deleted"}
       [] type = "MISSION_FAILED"    -> {"Failed", "Deleted"}
       [] type = "MISSION_CANCELLED" -> {"Cancelled", "Deleted"}]

\* An event is published after the write it announces, and a mission that ended
\* stays as announced: an observer of the trail is never told of an end that the
\* mission then does not have.
EventsFollowState == \A event \in log : status[event[1]] \in Announces[event[2]]

\* A completed mission shows its answer and a failed one its error, although the
\* result and the status are written by separate statements, the failure path
\* may run after the answer was written, and any statement may fail.
OutcomeFitsStatus ==
  \A m \in Missions :
    /\ status[m] = "Completed" => outcome[m] = "answer"
    /\ status[m] = "Failed" => outcome[m] = "error"

\* A claimed mission that has not ended loses its worker only to a crash or to a
\* statement that fails: neither a cancel, a stop of the worker nor a throwing
\* run leaves it Running or Verifying with nobody to end it.
Active(m) == status[m] \in {"Running", "Verifying"}
Executed(m) == \E w \in Workers : job[w] = m
KeepsExecutor ==
  [][\A m \in Missions :
       Active(m) /\ Executed(m) /\ ~Executed(m)' =>
         ~Active(m)' \/ crashes' > crashes \/ faults' > faults]_vars

\* The whole system keeps the promise of the mission lifecycle.
Lifecycle == INSTANCE MissionLifecycle WITH Missions <- Missions, status <- status
ImplementsLifecycle == Lifecycle!Spec

\* Every mission created is brought to an end, by the worker or by the user, also
\* when workers are stopped and started again.
EveryMissionEnds ==
  \A m \in Missions : []<>(status[m] \in {"Unborn", "Deleted"} \cup Terminal)

\* What the invariants above rest on.  A worker holds a job exactly while it runs
\* one, it has claimed that mission and has a turn left when it takes one, and
\* nothing unclaimed has been started.
Ownership ==
  /\ \A w \in Workers :
       /\ job[w] = None <=> pc[w] \in {"idle", "down"}
       /\ job[w] # None => claims[job[w]] = 1
       /\ pc[w] = "generate" => turns[w] < MaxTurns
  /\ \A m \in Missions : status[m] \in {"Unborn", "Created"} => claims[m] = 0
  /\ ClaimedOnce

\* An event about to be published already fits the row.
Publications ==
  /\ \A event \in log \cup unpublished : status[event[1]] \in Announces[event[2]]
  /\ \A w \in Workers :
       /\ job[w] # None => status[job[w]] \in Announces["MISSION_STARTED"]
       /\ pc[w] = "publish.completed" => status[job[w]] \in Announces["MISSION_COMPLETED"]
       /\ pc[w] = "publish.failed" => status[job[w]] \in Announces["MISSION_FAILED"]

\* The row under the statements that record an answer or an error, where the
\* only user request is a cancel.
Recording ==
  /\ OutcomeFitsStatus
  /\ \A w \in Workers :
       /\ pc[w] \in {"result.select", "result.update", "completed"} =>
            status[job[w]] = "Verifying"
       /\ pc[w] = "completed" => outcome[job[w]] = "answer"
       /\ pc[w] \in {"fail.update", "fail.move"} => status[job[w]] \notin {"Completed", "Failed"}
       /\ pc[w] = "fail.move" =>
            outcome[job[w]] = "error" \/ status[job[w]] \in {"Cancelled", "Deleted"}

\* SetResult: "Mission {id} is already in a terminal state."  The result of a
\* mission that has ended is not written any more.
TerminalOutcomeFrozen ==
  [][\A m \in Missions :
       status[m] \in Terminal /\ status'[m] = status[m] => outcome'[m] = outcome[m]]_vars
===============================================================================
