------------------------ MODULE MissionExecutionProofs ------------------------
(***************************************************************************)
(* For any number of missions, workers, turns, crashes, stops and faults:  *)
(* the running system keeps its types, claims each mission once, announces *)
(* only what holds, and implements the mission lifecycle; where users only *)
(* cancel, completed missions have their answer and failed ones an error.  *)
(***************************************************************************)
EXTENDS MissionExecution, TLAPS, FiniteSetTheorems

\* The rank of the next mission is a natural number.
LEMMA NextBirthInNat == NextBirth \in Nat
<1> DEFINE born == {m \in Missions : status[m] # "Unborn"}
<1>1. IsFiniteSet(born)
  BY FiniteMissions, FS_Subset
<1>2. Cardinality(born) \in Nat
  BY <1>1, FS_CardinalityType
<1>3. QED
  BY <1>2 DEF NextBirth

\* The initial state is well typed.
LEMMA TypeInit == Init => TypeOK
<1> SUFFICES ASSUME Init PROVE TypeOK
  OBVIOUS
<1> USE DEF Init
<1>1. status \in [Missions -> RowState] /\ pc \in [Workers -> Label]
  BY DEF RowState, NoRow, Label
<1>2. turns \in [Workers -> 0..MaxTurns]
  BY TurnsAssumption
<1>3. QED
  BY <1>1, <1>2 DEF TypeOK

\* The Server's requests keep the types.
LEMMA TypeServer == TypeOK /\ Server => TypeOK'
<1> SUFFICES ASSUME TypeOK, Server PROVE TypeOK'
  OBVIOUS
<1> USE DEF TypeOK, rows, worker, server, counts, MoveRow, RowState, EventType
<1>1. ASSUME NEW m \in Missions, PostMission(m) PROVE TypeOK'
  BY <1>1, NextBirthInNat DEF PostMission, Status
<1>2. ASSUME NEW m \in Missions, NEW next \in UserTargets, PostTransition(m, next)
      PROVE TypeOK'
  BY <1>2, TargetsAssumption DEF PostTransition
<1>3. ASSUME NEW event \in unpublished, PublishRequest(event) PROVE TypeOK'
  BY <1>3 DEF PublishRequest
<1>4. CASE ForgetMissions
  BY <1>4 DEF ForgetMissions, NoRow
<1>5. CASE ForgetEvents \/ ServerCrash
  BY <1>5 DEF ForgetEvents, ServerCrash
<1>6. QED
  BY <1>1, <1>2, <1>3, <1>4, <1>5 DEF Server

\* A worker that runs something has a mission as its job.
LEMMA JobIsMission ==
  ASSUME TypeOK, Ownership, NEW w \in Workers, pc[w] \notin {"idle", "down"}
  PROVE  job[w] \in Missions
BY DEF TypeOK, Ownership

\* The worker's own steps keep the types.
LEMMA TypeWork ==
  ASSUME TypeOK, Ownership, NEW w \in Workers, Work(w)
  PROVE  TypeOK'
<1> USE TurnsAssumption DEF TypeOK, rows, worker, server, counts, Goto, Leave, Label, Running, Failing
<1>1. ASSUME NEW m \in Missions, Claim(w, m) PROVE TypeOK'
  BY <1>1 DEF Claim, MoveRow, RowState, Status
<1>2. CASE Publish(w)
  BY <1>2, JobIsMission DEF Publish, PublishStarted, PublishCompleted, PublishFailed, PublishFrom,
     EventType
<1>3. CASE Load(w) \/ Check(w)
  BY <1>3 DEF Load, Check
<1>4. CASE Turn(w)
  BY <1>4 DEF Turn, Ownership
<1>5. CASE ToVerifying(w) \/ ToCompleted(w) \/ ToFailed(w)
  BY <1>5 DEF ToVerifying, ToCompleted, ToFailed, TransitionFrom, MoveRow, RowState, Status
<1>6. CASE SelectForAnswer(w) \/ GetForFailure(w) \/ SelectForError(w)
  BY <1>6 DEF SelectForAnswer, GetForFailure, SelectForError, SelectFrom
<1>7. CASE WriteAnswer(w) \/ WriteError(w)
  BY <1>7 DEF WriteAnswer, WriteError, UpdateFrom
<1>8. CASE Exit(w)
  BY <1>8 DEF Exit
<1>9. QED
  BY <1>1, <1>2, <1>3, <1>4, <1>5, <1>6, <1>7, <1>8 DEF Work, Agent, FailMission

\* What happens to a worker from outside keeps the types.
LEMMA TypeEnvironment ==
  ASSUME TypeOK, NEW w \in Workers, StatementFaults(w) \/ Stop(w) \/ Crash(w) \/ Start(w)
  PROVE  TypeOK'
<1> USE TurnsAssumption DEF TypeOK, rows, worker, server, counts, Goto, Leave, Label, Running, Failing
<1>1. CASE StatementFaults(w)
  BY <1>1, BoundsAssumption DEF StatementFaults
<1>2. CASE Stop(w) \/ Start(w)
  BY <1>2 DEF Stop, Start
<1>3. CASE Crash(w)
  BY <1>3 DEF Crash
<1>4. QED
  BY <1>1, <1>2, <1>3

\* The Server's requests claim nothing and move no mission back to Created.
LEMMA OwnershipServer == TypeOK /\ Ownership /\ Server => Ownership'
<1> SUFFICES ASSUME TypeOK, Ownership, Server PROVE Ownership'
  OBVIOUS
<1>1. UNCHANGED <<pc, job, turns, claims>>
  BY DEF Server, PostMission, PostTransition, PublishRequest, ForgetMissions, ForgetEvents,
     ServerCrash, worker, counts
<1>2. ASSUME NEW m \in Missions, status'[m] \in {"Unborn", "Created"}
      PROVE  status[m] \in {"Unborn", "Created"}
  <2> USE DEF TypeOK, MoveRow, rows
  <2>1. ASSUME NEW n \in Missions, PostMission(n) PROVE status[m] \in {"Unborn", "Created"}
    BY <1>2, <2>1 DEF PostMission
  <2>2. ASSUME NEW n \in Missions, NEW next \in UserTargets, PostTransition(n, next)
        PROVE  status[m] \in {"Unborn", "Created"}
    <3>1. next # "Created" /\ next # "Unborn"
      BY <2>2, TargetsAssumption DEF PostTransition, IsAllowed, Allowed, Terminal, Status
    <3>2. QED
      BY <1>2, <2>2, <3>1 DEF PostTransition
  <2>3. CASE ForgetMissions
    BY <1>2, <2>3 DEF ForgetMissions, Terminal
  <2>4. CASE (\E event \in unpublished : PublishRequest(event)) \/ ForgetEvents \/ ServerCrash
    BY <1>2, <2>4 DEF PublishRequest, ForgetEvents, ServerCrash
  <2>5. QED
    BY <2>1, <2>2, <2>3, <2>4 DEF Server
<1>3. QED
  BY <1>1, <1>2 DEF TypeOK, Ownership, ClaimedOnce

\* A step that leaves the claims alone, creates nothing and gives no worker a
\* job keeps the ownership of missions.
LEMMA OwnershipFrame ==
  ASSUME TypeOK, Ownership, NEW w \in Workers, UNCHANGED claims,
         \A m \in Missions : status'[m] \in {"Unborn", "Created"} => status'[m] = status[m],
         NEW label \in Label,
         \/ /\ label \in {"idle", "down"} /\ Leave(w, label)
         \/ /\ label \notin {"idle", "down"} /\ pc[w] \notin {"idle", "down"}
            /\ pc' = [pc EXCEPT ![w] = label] /\ UNCHANGED job
            /\ \A v \in Workers : v # w => turns'[v] = turns[v]
            /\ label = "generate" => turns'[w] < MaxTurns
  PROVE  Ownership'
<1> USE DEF TypeOK, Ownership, ClaimedOnce, Leave
<1>1. CASE label \in {"idle", "down"} /\ Leave(w, label)
  BY <1>1, NoneIsNoMission
<1>2. CASE label \notin {"idle", "down"}
  BY <1>2
<1>3. QED
  BY <1>1, <1>2

\* The worker's own steps keep the ownership: only the claim gives a job, and it
\* takes a mission nobody has claimed.
LEMMA OwnershipWork ==
  ASSUME TypeOK, Ownership, NEW w \in Workers, Work(w)
  PROVE  Ownership'
<1> USE DEF TypeOK, rows, worker, server, counts, Goto, Leave, Label, Running, Failing
<1>1. ASSUME NEW m \in Missions, Claim(w, m) PROVE Ownership'
  <2>1. claims[m] = 0 /\ \A v \in Workers : job[v] # m
    BY <1>1, NoneIsNoMission DEF Claim, Ownership
  <2>2. QED
    BY <1>1, <2>1, NoneIsNoMission DEF Claim, MoveRow, Ownership, ClaimedOnce
<1>2. CASE Publish(w)
  BY <1>2, OwnershipFrame DEF Publish, PublishStarted, PublishCompleted, PublishFailed, PublishFrom
<1>3. CASE Load(w)
  BY <1>3, OwnershipFrame DEF Load
<1>4. CASE Check(w)
  BY <1>4, OwnershipFrame DEF Check
<1>5. CASE Turn(w)
  BY <1>5, OwnershipFrame DEF Turn
<1>6. ASSUME NEW label \in Running \cup Failing, NEW next \in Status \ {"Created"},
             NEW then \in Running \cup Failing, NEW thrown \in {"idle", "fail.get"},
             then # "generate",
             TransitionFrom(w, label, next, then, thrown)
      PROVE  Ownership'
  <2>1. \A m \in Missions : status'[m] \in {"Unborn", "Created"} => status'[m] = status[m]
    BY <1>6 DEF TransitionFrom, MoveRow, Status
  <2>2. QED
    BY <1>6, <2>1, OwnershipFrame DEF TransitionFrom
<1>7. CASE ToVerifying(w) \/ ToCompleted(w) \/ ToFailed(w)
  BY <1>6, <1>7 DEF ToVerifying, ToCompleted, ToFailed, Status
<1>8. CASE SelectForAnswer(w) \/ GetForFailure(w) \/ SelectForError(w)
  BY <1>8, OwnershipFrame DEF SelectForAnswer, GetForFailure, SelectForError, SelectFrom
<1>9. CASE WriteAnswer(w) \/ WriteError(w)
  BY <1>9, OwnershipFrame DEF WriteAnswer, WriteError, UpdateFrom
<1>10. CASE Exit(w)
  BY <1>10, OwnershipFrame DEF Exit
<1>11. QED
  BY <1>1, <1>2, <1>3, <1>4, <1>5, <1>7, <1>8, <1>9, <1>10 DEF Work, Agent, FailMission

\* So does what happens to a worker from outside.
LEMMA OwnershipEnvironment ==
  ASSUME TypeOK, Ownership, NEW w \in Workers,
         StatementFaults(w) \/ Stop(w) \/ Crash(w) \/ Start(w)
  PROVE  Ownership'
<1> USE DEF rows, worker, server, counts, Goto, Label, Running, Failing
<1>1. CASE StatementFaults(w)
  BY <1>1, OwnershipFrame DEF StatementFaults
<1>2. CASE Stop(w)
  BY <1>2 DEF Stop, Ownership, ClaimedOnce
<1>3. CASE Crash(w)
  BY <1>3, OwnershipFrame DEF Crash
<1>4. CASE Start(w)
  BY <1>4 DEF Start, TypeOK, Ownership, ClaimedOnce
<1>5. QED
  BY <1>1, <1>2, <1>3, <1>4

\* Types and ownership are one inductive invariant.
LEMMA Owned == Spec => [](TypeOK /\ Ownership)
<1>1. Init => TypeOK /\ Ownership
  BY TypeInit DEF Init, Ownership, ClaimedOnce
<1>2. TypeOK /\ Ownership /\ [Next]_vars => TypeOK' /\ Ownership'
  <2> SUFFICES ASSUME TypeOK, Ownership, [Next]_vars PROVE TypeOK' /\ Ownership'
    OBVIOUS
  <2>1. CASE Server
    BY <2>1, TypeServer, OwnershipServer
  <2>2. CASE \E w \in Workers : Work(w)
    BY <2>2, TypeWork, OwnershipWork
  <2>3. CASE \E w \in Workers : StatementFaults(w) \/ Stop(w) \/ Crash(w) \/ Start(w)
    BY <2>3, TypeEnvironment, OwnershipEnvironment
  <2>4. CASE UNCHANGED vars
    BY <2>4 DEF vars, rows, worker, server, counts, TypeOK, Ownership, ClaimedOnce
  <2>5. QED
    BY <2>1, <2>2, <2>3, <2>4 DEF Next
<1>3. QED
  BY <1>1, <1>2, PTL DEF Spec

\* The variables keep their types for every number of missions and workers.
THEOREM ExecutionTypeOK == Spec => []TypeOK
BY Owned, PTL

\* No mission is ever claimed twice and no two workers run the same one.
THEOREM EachClaimedOnce == Spec => []ClaimedOnce
<1>1. Ownership => ClaimedOnce
  BY DEF Ownership
<1>2. QED
  BY <1>1, Owned, PTL

\* The lifecycle speaks of the same statuses and the same table.
LEMMA Vocabulary ==
  /\ Lifecycle!Status = Status /\ Lifecycle!Terminal = Terminal
  /\ \A s, t : Lifecycle!IsAllowed(s, t) <=> IsAllowed(s, t)
<1>1. Lifecycle!Status = Status /\ Lifecycle!Terminal = Terminal
  BY DEF Lifecycle!Status, Lifecycle!Terminal, Status, Terminal
<1>2. Lifecycle!Allowed = Allowed
  BY <1>1 DEF Lifecycle!Allowed, Allowed
<1>3. QED
  BY <1>1, <1>2 DEF Lifecycle!IsAllowed, IsAllowed

\* A move the table allows is, on the row it is applied to, a lifecycle step.
LEMMA MoveStep ==
  ASSUME NEW m \in Missions, NEW next \in Status, IsAllowed(status[m], next),
         status' = [status EXCEPT ![m] = next]
  PROVE  Lifecycle!Next
BY Vocabulary DEF Lifecycle!Next, Lifecycle!Move

\* A refused or accepted Transition of a worker is a move of the lifecycle.
LEMMA TransitionIsMove ==
  ASSUME TypeOK, Ownership, NEW w \in Workers, NEW label, NEW next \in Status, NEW then, NEW thrown,
         label \notin {"idle", "down"}, TransitionFrom(w, label, next, then, thrown)
  PROVE  Lifecycle!Next \/ UNCHANGED status
<1>1. job[w] \in Missions
  BY JobIsMission DEF TransitionFrom
<1>2. QED
  BY <1>1, MoveStep DEF TransitionFrom, MoveRow

\* Every step of the system is a step of the lifecycle or leaves the rows' status.
LEMMA LifecycleStep ==
  TypeOK /\ Ownership /\ [Next]_vars => Lifecycle!Next \/ UNCHANGED status
<1> SUFFICES ASSUME TypeOK, Ownership, [Next]_vars PROVE Lifecycle!Next \/ UNCHANGED status
  OBVIOUS
<1> USE DEF rows
<1>1. ASSUME NEW m \in Missions, PostMission(m) PROVE Lifecycle!Next
  BY <1>1 DEF PostMission, MoveRow, Lifecycle!Next, Lifecycle!Create
<1>2. ASSUME NEW m \in Missions, NEW next \in UserTargets, PostTransition(m, next)
      PROVE  Lifecycle!Next
  BY <1>2, TargetsAssumption, MoveStep DEF PostTransition, MoveRow
<1>3. CASE ForgetMissions
  BY <1>3, Vocabulary DEF ForgetMissions, Lifecycle!Next, Lifecycle!ForgetTerminal
<1>4. CASE (\E event \in unpublished : PublishRequest(event)) \/ ForgetEvents \/ ServerCrash
  BY <1>4 DEF PublishRequest, ForgetEvents, ServerCrash
<1>5. ASSUME NEW w \in Workers, NEW m \in Missions, Claim(w, m) PROVE Lifecycle!Next
  <2>1. IsAllowed(status[m], "Running")
    BY <1>5 DEF Claim, IsAllowed, Allowed, Status
  <2>2. QED
    BY <1>5, <2>1, MoveStep DEF Claim, MoveRow, Status
<1>6. ASSUME NEW w \in Workers, ToVerifying(w) \/ ToCompleted(w) \/ ToFailed(w)
      PROVE  Lifecycle!Next \/ UNCHANGED status
  <2> {"Verifying", "Completed", "Failed"} \subseteq Status
    BY DEF Status
  <2>1. CASE ToVerifying(w)
    BY <2>1, TransitionIsMove DEF ToVerifying
  <2>2. CASE ToCompleted(w)
    BY <2>2, TransitionIsMove DEF ToCompleted
  <2>3. CASE ToFailed(w)
    BY <2>3, TransitionIsMove DEF ToFailed
  <2>4. QED
    BY <1>6, <2>1, <2>2, <2>3
<1>7. ASSUME NEW w \in Workers, Publish(w) \/ Load(w) \/ Check(w) \/ Turn(w) \/ Exit(w)
      PROVE  UNCHANGED status
  BY <1>7 DEF Publish, PublishStarted, PublishCompleted, PublishFailed, PublishFrom, Load, Check,
     Turn, Exit
<1>8. ASSUME NEW w \in Workers, SelectForAnswer(w) \/ WriteAnswer(w) \/ GetForFailure(w)
                                  \/ SelectForError(w) \/ WriteError(w)
      PROVE  UNCHANGED status
  BY <1>8 DEF SelectForAnswer, GetForFailure, SelectForError, SelectFrom, WriteAnswer, WriteError,
     UpdateFrom
<1>9. ASSUME NEW w \in Workers, StatementFaults(w) \/ Stop(w) \/ Crash(w) \/ Start(w)
      PROVE  UNCHANGED status
  BY <1>9 DEF StatementFaults, Stop, Crash, Start
<1>10. CASE UNCHANGED vars
  BY <1>10 DEF vars
<1>11. QED
  BY <1>1, <1>2, <1>3, <1>4, <1>5, <1>6, <1>7, <1>8, <1>9, <1>10
     DEF Next, Server, Work, Agent, FailMission

\* The running system implements the abstract lifecycle of a mission.
THEOREM ExecutionImplementsLifecycle == Spec => ImplementsLifecycle
<1>1. Init => Lifecycle!Init
  BY DEF Init, Lifecycle!Init
<1>2. TypeOK /\ Ownership /\ [Next]_vars => [Lifecycle!Next]_status
  BY LifecycleStep
<1>3. QED
  BY <1>1, <1>2, Owned, PTL DEF Spec, ImplementsLifecycle, Lifecycle!Spec

\* Along the lifecycle a mission never leaves the statuses an event announced.
LEMMA AnnouncedStays ==
  ASSUME TypeOK, Lifecycle!Next \/ UNCHANGED status,
         NEW type \in EventType, NEW m \in Missions, status[m] \in Announces[type]
  PROVE  status'[m] \in Announces[type]
<1> USE DEF TypeOK
<1>1. ASSUME NEW n \in Missions, Lifecycle!Create(n) PROVE status'[m] \in Announces[type]
  BY <1>1 DEF Lifecycle!Create, Announces, EventType, RowState, NoRow, Status
<1>2. ASSUME NEW n \in Missions, NEW next \in Status, Lifecycle!Move(n, next)
      PROVE  status'[m] \in Announces[type]
  <2>1. CASE n # m
    BY <1>2, <2>1 DEF Lifecycle!Move
  <2>2. CASE n = m
    <3>1. status'[m] = next /\ status[m] \in Status /\ next \in Allowed[status[m]]
      BY <1>2, <2>2, Vocabulary DEF Lifecycle!Move, IsAllowed
    <3>2. next # "Created" /\ status[m] \notin Terminal
      BY <3>1 DEF Allowed, Terminal, Status
    <3>3. QED
      BY <3>1, <3>2 DEF Announces, EventType, RowState, NoRow, Terminal, Status
  <2>3. QED
    BY <2>1, <2>2
<1>3. CASE Lifecycle!ForgetTerminal
  BY <1>3, Vocabulary DEF Lifecycle!ForgetTerminal, Announces, EventType, RowState, NoRow, Terminal, Status
<1>4. QED
  BY <1>1, <1>2, <1>3, Vocabulary DEF Lifecycle!Next

\* What a step can add to the trail and to the requests still to be announced,
\* and where it can take a worker, already fits the rows.
LEMMA PublicationsStep ==
  TypeOK /\ Ownership /\ Publications /\ [Next]_vars => Publications'
<1> SUFFICES ASSUME TypeOK, Ownership, Publications, [Next]_vars PROVE Publications'
  OBVIOUS
<1>1. \A type \in EventType : \A m \in Missions :
        status[m] \in Announces[type] => status'[m] \in Announces[type]
  BY LifecycleStep, AnnouncedStays
<1>2. \A event \in log \cup unpublished : event[1] \in Missions /\ event[2] \in EventType
  BY DEF TypeOK, EventType
<1>3. ASSUME log' \cup unpublished' \subseteq log \cup unpublished
      PROVE  \A event \in log' \cup unpublished' : status'[event[1]] \in Announces[event[2]]
  BY <1>1, <1>2, <1>3 DEF Publications
<1>4. ASSUME UNCHANGED <<pc, job>>
      PROVE  \A w \in Workers :
               /\ job'[w] # None => status'[job'[w]] \in Announces["MISSION_STARTED"]
               /\ pc'[w] = "publish.completed" => status'[job'[w]] \in Announces["MISSION_COMPLETED"]
               /\ pc'[w] = "publish.failed" => status'[job'[w]] \in Announces["MISSION_FAILED"]
  <2> SUFFICES ASSUME NEW w \in Workers, job[w] # None
               PROVE /\ status'[job[w]] \in Announces["MISSION_STARTED"]
                     /\ pc[w] = "publish.completed" => status'[job[w]] \in Announces["MISSION_COMPLETED"]
                     /\ pc[w] = "publish.failed" => status'[job[w]] \in Announces["MISSION_FAILED"]
    BY <1>4 DEF Ownership
  <2>1. job[w] \in Missions
    BY DEF TypeOK
  <2>2. QED
    BY <1>1, <2>1 DEF Publications, EventType
<1>5. ASSUME NEW w \in Workers, NEW label,
             UNCHANGED <<log, unpublished>>,
             pc' = [pc EXCEPT ![w] = label],
             \/ job' = [job EXCEPT ![w] = None] /\ label \in {"idle", "down"}
             \/ /\ UNCHANGED job /\ label \notin {"idle", "down", "publish.completed", "publish.failed"}
      PROVE  Publications'
  <2>1. \A v \in Workers : job'[v] # None => job'[v] = job[v] /\ job[v] \in Missions
    BY <1>5 DEF TypeOK
  <2>2. \A v \in Workers : pc'[v] \in {"publish.completed", "publish.failed"} =>
          pc'[v] = pc[v] /\ job'[v] = job[v] /\ job[v] \in Missions
    BY <1>5 DEF TypeOK, Ownership
  <2>3. \A v \in Workers :
               /\ job'[v] # None => status'[job'[v]] \in Announces["MISSION_STARTED"]
               /\ pc'[v] = "publish.completed" => status'[job'[v]] \in Announces["MISSION_COMPLETED"]
               /\ pc'[v] = "publish.failed" => status'[job'[v]] \in Announces["MISSION_FAILED"]
    BY <1>1, <2>1, <2>2 DEF Publications, EventType
  <2>4. QED
    BY <1>3, <1>5, <2>3 DEF Publications
<1>6. ASSUME Server PROVE Publications'
  <2>1. UNCHANGED <<pc, job>>
    BY <1>6 DEF Server, PostMission, PostTransition, PublishRequest, ForgetMissions, ForgetEvents,
       ServerCrash, worker
  <2>2. ASSUME NEW m \in Missions, NEW type \in EventType, status'[m] \in Announces[type],
               log' \cup unpublished' \subseteq log \cup unpublished \cup {<<m, type>>}
        PROVE  Publications'
    <3>1. \A event \in log' \cup unpublished' : status'[event[1]] \in Announces[event[2]]
      BY <1>1, <1>2, <2>2 DEF Publications
    <3>2. QED
      BY <1>4, <2>1, <3>1 DEF Publications
  <2>3. ASSUME NEW m \in Missions, PostMission(m) PROVE Publications'
    <3>1. status'[m] \in Announces["MISSION_CREATED"] /\ "MISSION_CREATED" \in EventType
      BY <2>3 DEF PostMission, MoveRow, TypeOK, Announces, EventType, RowState, NoRow, Status
    <3>2. QED
      BY <2>2, <2>3, <3>1 DEF PostMission
  <2>4. ASSUME NEW m \in Missions, NEW next \in UserTargets, PostTransition(m, next)
        PROVE  Publications'
    <3>1. CASE next = "Cancelled"
      <4>1. status'[m] \in Announces["MISSION_CANCELLED"] /\ "MISSION_CANCELLED" \in EventType
        BY <2>4, <3>1 DEF PostTransition, MoveRow, TypeOK, Announces, EventType
      <4>2. QED
        BY <2>2, <2>4, <3>1, <4>1 DEF PostTransition
    <3>2. CASE next # "Cancelled"
      BY <1>3, <1>4, <2>1, <2>4, <3>2 DEF PostTransition, Publications
    <3>3. QED
      BY <3>1, <3>2
  <2>5. CASE (\E event \in unpublished : PublishRequest(event)) \/ ForgetMissions
             \/ ForgetEvents \/ ServerCrash
    <3>1. log' \cup unpublished' \subseteq log \cup unpublished
      BY <2>5 DEF PublishRequest, ForgetMissions, ForgetEvents, ServerCrash
    <3>2. QED
      BY <1>3, <1>4, <2>1, <3>1 DEF Publications
  <2>6. QED
    BY <1>6, <2>3, <2>4, <2>5 DEF Server
<1>7. ASSUME NEW w \in Workers, Work(w) PROVE Publications'
  <2> USE DEF Leave, Goto, server
  <2>1. ASSUME NEW m \in Missions, Claim(w, m) PROVE Publications'
    <3>1. status'[m] \in Announces["MISSION_STARTED"]
      BY <2>1 DEF Claim, MoveRow, TypeOK, Announces, EventType, RowState, NoRow, Status
    <3>2. ASSUME NEW v \in Workers, v # w
          PROVE  /\ job'[v] # None => status'[job'[v]] \in Announces["MISSION_STARTED"]
                 /\ pc'[v] = "publish.completed" => status'[job'[v]] \in Announces["MISSION_COMPLETED"]
                 /\ pc'[v] = "publish.failed" => status'[job'[v]] \in Announces["MISSION_FAILED"]
      <4>1. job'[v] = job[v] /\ pc'[v] = pc[v] /\ (job[v] # None => job[v] \in Missions)
        BY <2>1, <3>2 DEF Claim, TypeOK
      <4>2. pc[v] \in {"publish.completed", "publish.failed"} => job[v] # None
        BY DEF Ownership
      <4>3. QED
        BY <1>1, <4>1, <4>2 DEF Publications, EventType
    <3>3. job'[w] = m /\ pc'[w] = "publish.started"
      BY <2>1 DEF Claim, TypeOK
    <3>4. UNCHANGED <<log, unpublished>>
      BY <2>1 DEF Claim
    <3>5. QED
      BY <1>3, <3>1, <3>2, <3>3, <3>4 DEF Publications
  <2>2. CASE Publish(w)
    <3>1. ASSUME NEW label, NEW type \in EventType, NEW next, PublishFrom(w, label, type, next),
                 job[w] \in Missions, status[job[w]] \in Announces[type],
                 next \notin {"down", "publish.completed", "publish.failed"}
          PROVE  Publications'
      <4>1. \A event \in log' \cup unpublished' : status'[event[1]] \in Announces[event[2]]
        BY <1>1, <1>2, <3>1 DEF PublishFrom, Publications
      <4>2. \A v \in Workers : job'[v] # None => job'[v] = job[v] /\ job[v] \in Missions
        BY <3>1 DEF PublishFrom, TypeOK
      <4>3. \A v \in Workers : pc'[v] \in {"publish.completed", "publish.failed"} =>
              pc'[v] = pc[v] /\ job'[v] = job[v] /\ job[v] \in Missions
        BY <3>1 DEF PublishFrom, TypeOK, Ownership
      <4>4. QED
        BY <1>1, <4>1, <4>2, <4>3 DEF Publications, EventType
    <3>2. job[w] \in Missions
      BY <2>2, JobIsMission DEF Publish, PublishStarted, PublishCompleted, PublishFailed, PublishFrom
    <3>3. CASE PublishStarted(w)
      <4>1. status[job[w]] \in Announces["MISSION_STARTED"]
        BY <3>2, NoneIsNoMission DEF Publications
      <4>2. QED
        BY <3>1, <3>2, <3>3, <4>1 DEF PublishStarted, EventType
    <3>4. CASE PublishCompleted(w)
      <4>1. status[job[w]] \in Announces["MISSION_COMPLETED"]
        BY <3>4 DEF PublishCompleted, PublishFrom, Publications
      <4>2. QED
        BY <3>1, <3>2, <3>4, <4>1 DEF PublishCompleted, EventType
    <3>5. CASE PublishFailed(w)
      <4>1. status[job[w]] \in Announces["MISSION_FAILED"]
        BY <3>5 DEF PublishFailed, PublishFrom, Publications
      <4>2. QED
        BY <3>1, <3>2, <3>5, <4>1 DEF PublishFailed, EventType
    <3>6. QED
      BY <2>2, <3>3, <3>4, <3>5 DEF Publish
  <2>3. CASE Load(w) \/ Exit(w)
    BY <1>5, <2>3 DEF Load, Exit
  <2>4. CASE Check(w)
    BY <1>5, <2>4 DEF Check
  <2>5. CASE Turn(w)
    BY <1>5, <2>5 DEF Turn
  <2>6. ASSUME NEW label, NEW next, NEW then, NEW thrown,
               label \notin {"idle", "down"},
               thrown \in {"idle", "fail.get"},
               \/ next = "Completed" /\ then = "publish.completed"
               \/ next = "Failed" /\ then = "publish.failed",
               TransitionFrom(w, label, next, then, thrown)
        PROVE  Publications'
    <3>1. CASE ~IsAllowed(status[job[w]], next)
      BY <1>5, <2>6, <3>1 DEF TransitionFrom
    <3>2. CASE IsAllowed(status[job[w]], next)
      <4>1. job[w] \in Missions /\ job' = job /\ pc' = [pc EXCEPT ![w] = then]
            /\ status'[job[w]] = next /\ UNCHANGED <<log, unpublished>>
        BY <2>6, <3>2, JobIsMission DEF TransitionFrom, MoveRow, TypeOK
      <4>2. \A v \in Workers : job[v] # None => job[v] \in Missions
        BY DEF TypeOK
      <4>3. \A v \in Workers \ {w} : pc'[v] = pc[v] /\
              (pc[v] \in {"publish.completed", "publish.failed"} => job[v] # None)
        BY <4>1 DEF TypeOK, Ownership
      <4>4. pc'[w] = then
        BY <4>1 DEF TypeOK
      <4>5. next = "Completed" => next \in Announces["MISSION_COMPLETED"]
        BY DEF Announces, EventType
      <4>6. next = "Failed" => next \in Announces["MISSION_FAILED"]
        BY DEF Announces, EventType
      <4>7. QED
        BY <1>1, <1>3, <2>6, <4>1, <4>2, <4>3, <4>4, <4>5, <4>6 DEF Publications, EventType
    <3>3. QED
      BY <3>1, <3>2
  <2>7. CASE ToCompleted(w)
    BY <2>6, <2>7 DEF ToCompleted
  <2>8. CASE ToFailed(w)
    BY <2>6, <2>8 DEF ToFailed
  <2>9. CASE ToVerifying(w)
    BY <1>5, <2>9 DEF ToVerifying, TransitionFrom
  <2>10. CASE SelectForAnswer(w) \/ GetForFailure(w) \/ SelectForError(w)
    BY <1>5, <2>10 DEF SelectForAnswer, GetForFailure, SelectForError, SelectFrom
  <2>11. CASE WriteAnswer(w) \/ WriteError(w)
    BY <1>5, <2>11 DEF WriteAnswer, WriteError, UpdateFrom
  <2>12. QED
    BY <1>7, <2>1, <2>2, <2>3, <2>4, <2>5, <2>7, <2>8, <2>9, <2>10, <2>11
       DEF Work, Agent, FailMission
<1>8. ASSUME NEW w \in Workers, StatementFaults(w) \/ Stop(w) \/ Crash(w) \/ Start(w)
      PROVE  Publications'
  <2> USE DEF Leave, Goto, server, worker
  <2>1. CASE StatementFaults(w)
    <3>1. CASE Leave(w, "idle")
      BY <1>5, <2>1, <3>1 DEF StatementFaults
    <3>2. CASE Goto(w, "fail.get")
      BY <1>5, <2>1, <3>2 DEF StatementFaults
    <3>3. QED
      BY <2>1, <3>1, <3>2 DEF StatementFaults
  <2>2. CASE Stop(w)
    BY <1>3, <1>4, <2>2 DEF Stop, Publications
  <2>3. CASE Crash(w)
    BY <1>5, <2>3 DEF Crash
  <2>4. CASE Start(w)
    <3>1. pc' = [pc EXCEPT ![w] = "idle"] /\ job' = [job EXCEPT ![w] = None]
      BY <2>4 DEF Start, TypeOK, Ownership
    <3>2. QED
      BY <1>5, <2>4, <3>1 DEF Start
  <2>5. QED
    BY <1>8, <2>1, <2>2, <2>3, <2>4
<1>9. CASE UNCHANGED vars
  BY <1>3, <1>4, <1>9 DEF vars, worker, server, Publications
<1>10. QED
  BY <1>6, <1>7, <1>8, <1>9 DEF Next

\* The event trail never tells of an end the mission does not have, in any
\* interleaving of requests, workers, crashes and failing statements.
THEOREM EventsAreTrue == Spec => []EventsFollowState
<1>1. Init => Publications
  BY DEF Init, Publications
<1>2. Publications => EventsFollowState
  BY DEF Publications, EventsFollowState
<1>3. QED
  BY <1>1, <1>2, Owned, PublicationsStep, PTL DEF Spec

\* A step that touches neither Status nor the results keeps Recording, if the
\* label it takes the worker to asks for nothing the row does not have.
LEMMA RecordingFrame ==
  ASSUME TypeOK, Ownership, Recording, NEW w \in Workers, NEW label,
         UNCHANGED <<status, outcome>>,
         pc' = [pc EXCEPT ![w] = label],
         \A v \in Workers : v # w => job'[v] = job[v],
         label \in {"result.select", "result.update", "completed", "fail.update", "fail.move"} =>
           /\ UNCHANGED job
           /\ \/ label = "result.update" /\ pc[w] = "result.select"
              \/ label = "fail.update" /\ status[job[w]] \notin {"Completed", "Failed"}
  PROVE  Recording'
<1>1. OutcomeFitsStatus'
  BY DEF Recording, OutcomeFitsStatus
<1>2. ASSUME NEW v \in Workers \ {w} PROVE pc'[v] = pc[v] /\ job'[v] = job[v]
  BY DEF TypeOK
<1>3. pc'[w] = label
  BY DEF TypeOK
<1>4. QED
  BY <1>1, <1>2, <1>3 DEF Recording

\* In particular a step that takes the worker to a label that asks for nothing.
LEMMA RecordingMove ==
  ASSUME TypeOK, Ownership, Recording, NEW w \in Workers, UNCHANGED <<status, outcome>>,
         NEW label, label \notin {"result.select", "result.update", "completed", "fail.update", "fail.move"},
         Goto(w, label) \/ Leave(w, label)
  PROVE  Recording'
<1>1. CASE Goto(w, label)
  BY <1>1, RecordingFrame DEF Goto
<1>2. CASE Leave(w, label)
  <2>1. \A v \in Workers : v # w => job'[v] = job[v]
    BY <1>2 DEF Leave, TypeOK
  <2>2. QED
    BY <1>2, <2>1, RecordingFrame DEF Leave
<1>3. QED
  BY <1>1, <1>2

\* The Server's requests: a cancel cannot reach a Verifying row, and only rows of
\* ended missions are deleted.
LEMMA RecordingServer ==
  ASSUME UserTargets \subseteq {"Cancelled"}, TypeOK, Ownership, Recording, Server
  PROVE  Recording'
<1> USE DEF TypeOK, rows, worker, MoveRow
<1>1. ASSUME NEW v \in Workers, pc[v] \notin {"idle", "down"} PROVE job[v] \in Missions
  BY <1>1, JobIsMission
<1>2. ASSUME NEW m \in Missions, PostMission(m) PROVE Recording'
  BY <1>1, <1>2 DEF PostMission, Recording, OutcomeFitsStatus
<1>3. ASSUME NEW m \in Missions, NEW next \in UserTargets, PostTransition(m, next)
      PROVE  Recording'
  <2>1. next = "Cancelled" /\ status[m] # "Verifying"
    BY <1>3 DEF PostTransition, IsAllowed, Allowed, Status
  <2>2. QED
    BY <1>1, <1>3, <2>1 DEF PostTransition, Recording, OutcomeFitsStatus
<1>4. CASE ForgetMissions
  BY <1>1, <1>4 DEF ForgetMissions, Recording, OutcomeFitsStatus, Terminal
<1>5. CASE (\E event \in unpublished : PublishRequest(event)) \/ ForgetEvents \/ ServerCrash
  BY <1>5 DEF PublishRequest, ForgetEvents, ServerCrash, Recording, OutcomeFitsStatus
<1>6. QED
  BY <1>2, <1>3, <1>4, <1>5 DEF Server

\* The worker's writes: each touches its own mission only, and in the order
\* Verifying, answer, Completed or error, Failed.
LEMMA RecordingWork ==
  ASSUME TypeOK, Ownership, Recording, NEW w \in Workers, Work(w)
  PROVE  Recording'
<1> USE DEF rows
<1>1. ASSUME NEW v \in Workers, pc[v] \notin {"idle", "down"} PROVE job[v] \in Missions
  BY <1>1, JobIsMission
<1>2. ASSUME NEW v \in Workers \ {w}, pc[v] \notin {"idle", "down"} PROVE job[v] # job[w]
  BY <1>1, <1>2, NoneIsNoMission DEF Ownership, ClaimedOnce
<1>3. ASSUME NEW m \in Missions, Claim(w, m) PROVE Recording'
  BY <1>1, <1>3 DEF Claim, MoveRow, TypeOK, Recording, OutcomeFitsStatus
<1>4. CASE Publish(w)
  BY <1>4, RecordingMove DEF Publish, PublishStarted, PublishCompleted, PublishFailed, PublishFrom
<1>5. CASE Load(w) \/ Check(w) \/ Exit(w)
  BY <1>5, RecordingMove DEF Load, Check, Exit
<1>6. CASE Turn(w)
  BY <1>6, RecordingFrame DEF Turn
<1>7. CASE SelectForAnswer(w) \/ GetForFailure(w) \/ SelectForError(w)
  <2>1. CASE Leave(w, "idle") \/ Goto(w, "fail.get") \/ Goto(w, "fail.select")
    BY <1>7, <2>1, RecordingMove DEF SelectForAnswer, GetForFailure, SelectForError, SelectFrom
  <2>2. CASE Goto(w, "result.update") /\ pc[w] = "result.select"
    <3>1. UNCHANGED <<status, outcome>>
      BY <1>7 DEF SelectForAnswer, GetForFailure, SelectForError, SelectFrom
    <3>2. QED
      BY <2>2, <3>1, RecordingFrame DEF Goto
  <2>3. CASE Goto(w, "fail.update") /\ status[job[w]] \in Status \ Terminal
    BY <1>7, <2>3, RecordingFrame
       DEF SelectForAnswer, GetForFailure, SelectForError, SelectFrom, Goto, Terminal
  <2>4. QED
    BY <1>7, <2>1, <2>2, <2>3 DEF SelectForAnswer, GetForFailure, SelectForError, SelectFrom
<1>8. CASE WriteAnswer(w)
  <2>1. job[w] \in Missions /\ status[job[w]] = "Verifying"
    BY <1>1, <1>8 DEF WriteAnswer, UpdateFrom, Recording
  <2>2. QED
    BY <1>1, <1>2, <1>8, <2>1 DEF WriteAnswer, UpdateFrom, Goto, TypeOK, Recording, OutcomeFitsStatus, Status
<1>9. CASE WriteError(w)
  <2>1. /\ job[w] \in Missions
        /\ status[job[w]] \notin {"Completed", "Failed", "Unborn"}
    <3>1. pc[w] = "fail.update" /\ job[w] \in Missions
      BY <1>1, <1>9 DEF WriteError, UpdateFrom
    <3>2. QED
      BY <3>1, NoneIsNoMission DEF Recording, Ownership
  <2>2. CASE status[job[w]] \in Status
    BY <1>1, <1>2, <1>9, <2>1, <2>2 DEF WriteError, UpdateFrom, Goto, TypeOK, Recording, OutcomeFitsStatus
  <2>3. QED
    BY <1>1, <1>2, <1>9, <2>1, <2>2
       DEF WriteError, UpdateFrom, Goto, TypeOK, Recording, OutcomeFitsStatus, RowState, NoRow
<1>10. CASE ToVerifying(w)
  <2>1. CASE IsAllowed(status[job[w]], "Verifying")
    BY <1>1, <1>2, <1>10, <2>1
       DEF ToVerifying, TransitionFrom, MoveRow, Goto, TypeOK, Recording, OutcomeFitsStatus
  <2>2. QED
    BY <1>10, <2>1, RecordingMove DEF ToVerifying, TransitionFrom
<1>11. CASE ToCompleted(w)
  <2>1. CASE IsAllowed(status[job[w]], "Completed")
    BY <1>1, <1>2, <1>11, <2>1
       DEF ToCompleted, TransitionFrom, MoveRow, Goto, TypeOK, Recording, OutcomeFitsStatus
  <2>2. QED
    BY <1>11, <2>1, RecordingMove DEF ToCompleted, TransitionFrom
<1>12. CASE ToFailed(w)
  <2>1. CASE IsAllowed(status[job[w]], "Failed")
    <3>1. outcome[job[w]] = "error"
      BY <1>12, <2>1 DEF ToFailed, TransitionFrom, Recording, IsAllowed, Allowed, Status
    <3>2. QED
      BY <1>1, <1>2, <1>12, <2>1, <3>1
         DEF ToFailed, TransitionFrom, MoveRow, Goto, TypeOK, Recording, OutcomeFitsStatus
  <2>2. QED
    BY <1>12, <2>1, RecordingMove DEF ToFailed, TransitionFrom
<1>13. QED
  BY <1>3, <1>4, <1>5, <1>6, <1>7, <1>8, <1>9, <1>10, <1>11, <1>12 DEF Work, Agent, FailMission

\* Where users only cancel, a completed mission has its answer and a failed one
\* its error, whatever crashes or fails in between.
THEOREM OutcomesFit ==
  ASSUME UserTargets \subseteq {"Cancelled"}
  PROVE  Spec => []OutcomeFitsStatus
<1>1. Init => Recording
  BY DEF Init, Recording, OutcomeFitsStatus
<1>2. TypeOK /\ Ownership /\ Recording /\ [Next]_vars => Recording'
  <2> SUFFICES ASSUME TypeOK, Ownership, Recording, [Next]_vars PROVE Recording'
    OBVIOUS
  <2>1. CASE Server
    BY <2>1, RecordingServer
  <2>2. ASSUME NEW w \in Workers, Work(w) PROVE Recording'
    BY <2>2, RecordingWork
  <2>3. ASSUME NEW w \in Workers, StatementFaults(w) \/ Stop(w) \/ Crash(w) \/ Start(w)
        PROVE  Recording'
    <3> USE DEF rows, worker
    <3>1. CASE StatementFaults(w) \/ Crash(w) \/ Start(w)
      BY <3>1, RecordingMove DEF StatementFaults, Crash, Start
    <3>2. CASE Stop(w)
      BY <3>2 DEF Stop, Recording, OutcomeFitsStatus
    <3>3. QED
      BY <2>3, <3>1, <3>2
  <2>4. CASE UNCHANGED vars
    BY <2>4 DEF vars, rows, worker, Recording, OutcomeFitsStatus
  <2>5. QED
    BY <2>1, <2>2, <2>3, <2>4 DEF Next
<1>3. Recording => OutcomeFitsStatus
  BY DEF Recording
<1>4. QED
  BY <1>1, <1>2, <1>3, Owned, PTL DEF Spec

\* A worker lets go of an active mission only by a crash or a failing statement,
\* however many workers there are and whatever statuses users write.
THEOREM ActiveKeepsExecutor == Spec => KeepsExecutor
<1> DEFINE Kept(m) == Active(m) /\ Executed(m) /\ ~Executed(m)' =>
                        ~Active(m)' \/ crashes' > crashes \/ faults' > faults
<1>1. TypeOK /\ Ownership /\ Publications /\ [Next]_vars => [\A m \in Missions : Kept(m)]_vars
  <2> SUFFICES ASSUME TypeOK, Ownership, Publications, Next, NEW m \in Missions,
                      Active(m), Executed(m), ~Executed(m)',
                      ~(crashes' > crashes), ~(faults' > faults)
               PROVE  ~Active(m)'
    BY DEF vars, rows, worker, server, counts
  <2> USE DEF rows, worker, counts
  <2>1. PICK v \in Workers : job[v] = m /\ job'[v] # m
    BY DEF Executed
  <2>2. pc[v] \notin {"idle", "down"} /\ m # None
    BY <2>1, NoneIsNoMission DEF Ownership
  <2>3. CASE Server
    BY <2>1, <2>3 DEF Server, PostMission, PostTransition, PublishRequest, ForgetMissions,
       ForgetEvents, ServerCrash
  <2>4. ASSUME NEW w \in Workers, w # v, Work(w) \/ StatementFaults(w) \/ Stop(w) \/ Crash(w) \/ Start(w)
        PROVE  job'[v] = job[v]
    <3> USE DEF TypeOK, Goto, Leave
    <3>1. CASE Publish(w) \/ Exit(w) \/ \E n \in Missions : Claim(w, n)
      BY <2>4, <3>1 DEF Publish, PublishStarted, PublishCompleted, PublishFailed, PublishFrom, Exit, Claim
    <3>2. CASE Agent(w)
      BY <2>4, <3>2 DEF Agent, Load, Check, Turn, ToVerifying, ToCompleted, TransitionFrom,
         SelectForAnswer, SelectFrom, WriteAnswer, UpdateFrom
    <3>3. CASE FailMission(w)
      BY <2>4, <3>3 DEF FailMission, GetForFailure, SelectForError, SelectFrom, WriteError,
         UpdateFrom, ToFailed, TransitionFrom
    <3>4. CASE StatementFaults(w) \/ Stop(w) \/ Crash(w) \/ Start(w)
      BY <2>4, <3>4 DEF StatementFaults, Stop, Crash, Start
    <3>5. QED
      BY <2>4, <3>1, <3>2, <3>3, <3>4 DEF Work
  <2>5. CASE Publish(v)
    BY <2>1, <2>5 DEF Publish, PublishStarted, PublishCompleted, PublishFailed, PublishFrom, Goto,
       Publications, Announces, EventType, Active
  <2>6. CASE Agent(v)
    <3>1. Load(v) \/ Check(v)
      BY <2>1, <2>6 DEF Agent, Turn, Goto, ToVerifying, ToCompleted, TransitionFrom,
         SelectForAnswer, SelectFrom, WriteAnswer, UpdateFrom
    <3>2. status[m] = "Cancelled"
      BY <2>1, <3>1 DEF Load, Check, Goto
    <3>3. QED
      BY <3>2 DEF Active
  <2>7. CASE FailMission(v)
    <3>1. CASE GetForFailure(v) \/ SelectForError(v)
      BY <2>1, <3>1 DEF GetForFailure, SelectForError, SelectFrom, Goto, Active, Terminal, Status
    <3>2. CASE ToFailed(v)
      BY <2>1, <3>2 DEF ToFailed, TransitionFrom, Goto, Active, IsAllowed, Allowed, Terminal, Status
    <3>3. CASE WriteError(v)
      BY <2>1, <3>3 DEF WriteError, UpdateFrom, Goto
    <3>4. QED
      BY <2>7, <3>1, <3>2, <3>3 DEF FailMission
  <2>8. ASSUME StatementFaults(v) \/ Stop(v) \/ Crash(v) \/ Start(v) \/ Exit(v)
                 \/ \E n \in Missions : Claim(v, n)
        PROVE  FALSE
    BY <2>1, <2>2, <2>8, BoundsAssumption DEF StatementFaults, Stop, Crash, Start, Exit, Claim, TypeOK
  <2>9. QED
    BY <2>1, <2>3, <2>4, <2>5, <2>6, <2>7, <2>8 DEF Next, Work
<1>2. Init => Publications
  BY DEF Init, Publications
<1>3. QED
  BY <1>1, <1>2, Owned, PublicationsStep, PTL DEF Spec, KeepsExecutor
===============================================================================
