---------------------------- MODULE AutomationsProofs ----------------------------
(***************************************************************************)
(* For any automations, users, intervals and length of the day: the table  *)
(* keeps to the rules, what was stopped fires at most once more, and the   *)
(* missions of one automation are spaced as its schedule says.             *)
(***************************************************************************)
EXTENDS Automations, TLAPS

\* The clock arithmetic of NextDailyLocal: a number splits into days and minutes.
LEMMA DaySplit ==
  ASSUME NEW n \in Nat
  PROVE  /\ n \div Day \in Nat /\ n % Day \in 0..Day - 1
         /\ n = Day * (n \div Day) + (n % Day)
BY DayAssumption

\* A later day begins after an earlier one has ended.
LEMMA DaysApart ==
  ASSUME NEW p \in Nat, NEW q \in Nat, p < q PROVE Day * p + Day <= Day * q
BY DayAssumption

\* The first HH:mm after a later anchor is no earlier.
LEMMA NextDailyMonotone ==
  ASSUME NEW m \in Nat, NEW n \in Nat, m <= n, NEW time \in 0..Day - 1
  PROVE  NextDaily(m, time) \in Nat /\ NextDaily(m, time) <= NextDaily(n, time)
<1> DEFINE p == m \div Day
           q == n \div Day
           x == m % Day
           y == n % Day
           P == Day * p
           Q == Day * q
<1>1. /\ p \in Nat /\ q \in Nat /\ x \in 0..Day - 1 /\ y \in 0..Day - 1
      /\ m = P + x /\ n = Q + y
  BY DaySplit
<1>2. Day \in Nat /\ P \in Nat /\ Q \in Nat
  BY <1>1, DayAssumption
<1>3. p <= q
  <2>1. CASE q < p
    <3>1. Q + Day <= P
      BY <2>1, <1>1, DaysApart
    <3>2. QED
      BY <3>1, <1>1, <1>2
  <2>2. QED
    BY <2>1, <1>1
<1>4. p = q \/ P + Day <= Q
  BY <1>1, <1>3, DaysApart
<1>5. NextDaily(m, time) = IF P + time <= m THEN (P + time) + Day ELSE P + time
  BY <1>1, <1>2 DEF NextDaily
<1>6. NextDaily(n, time) = IF Q + time <= n THEN (Q + time) + Day ELSE Q + time
  BY <1>1, <1>2 DEF NextDaily
<1> HIDE DEF p, q, x, y
<1>7. CASE p = q
  BY <1>7, <1>1, <1>2, <1>5, <1>6
<1>8. CASE P + Day <= Q
  <2> HIDE DEF P, Q
  <2>1. QED
    BY <1>8, <1>1, <1>2, <1>5, <1>6
<1>9. QED
  BY <1>4, <1>7, <1>8

\* Counting from a later anchor never makes a schedule due earlier.
LEMMA NextDueMonotone ==
  ASSUME NEW s \in Schedule, Valid(s), NEW m \in Nat, NEW n \in Nat, m <= n
  PROVE  NextDue(s, m) \in Nat /\ NextDue(s, m) <= NextDue(s, n)
<1>1. CASE s.frequency = "Interval"
  <2>1. s.interval \in Nat
    BY <1>1, IntervalsAssumption DEF Valid, Schedule
  <2>2. QED
    BY <1>1, <2>1 DEF NextDue
<1>2. CASE s.frequency # "Interval"
  <2>1. s.dailyAt \in 0..Day - 1
    BY <1>2 DEF Valid
  <2>2. QED
    BY <1>2, <2>1, NextDailyMonotone DEF NextDue
<1>3. QED
  BY <1>1, <1>2
-------------------------------------------------------------------------------
(* Types. *)

\* The scheduler holds an automation only between creating its mission and moving on,
\* and lists only automations that have had a row.
Pass ==
  /\ pc \in {"down", "idle", "create"} => current = Null
  /\ due \subseteq rows \cup deleted

Typed == TypeOK /\ Pass

\* Null is no automation.
LEMMA NullApart == Null \notin Automations
BY ValuesAssumption

\* The request handlers keep the types.
LEMMA TypedServer ==
  ASSUME Typed, Server \/ \E u \in Users : UpdateWrite(u) PROVE Typed'
<1> USE DEF Typed, TypeOK, Pass
<1>1. ASSUME NEW a \in Automations, NEW s \in Schedule, Create(a, s) PROVE Typed'
  BY <1>1 DEF Create, scheduler, history
<1>2. ASSUME NEW a \in Automations, NEW u \in Users, NEW r \in Request, UpdateGet(u, a, r)
      PROVE Typed'
  <2> DEFINE merged == [frequency |-> Field(r.frequency, schedule[a].frequency),
                        interval  |-> Field(r.interval, schedule[a].interval),
                        dailyAt   |-> Field(r.dailyAt, schedule[a].dailyAt)]
             written == [target |-> a, schedule |-> merged,
                         enabled |-> r.enabled = "on" \/ (r.enabled = Null /\ a \in enabled)]
  <2>1. merged \in Schedule
    BY DEF Field, Schedule, Request
  <2>2. (r.enabled = "on" \/ (r.enabled = Null /\ a \in enabled)) \in BOOLEAN
    OBVIOUS
  <2>3. written \in Edit
    <3> HIDE DEF merged
    <3>1. QED
      BY <2>1, <2>2 DEF Edit
  <2>4. edit' = [edit EXCEPT ![u] = written]
    BY <1>2 DEF UpdateGet
  <2>5. edit' \in [Users -> Edit]
    <3> HIDE DEF written
    <3>1. QED
      BY <2>3, <2>4
  <2>6. QED
    BY <1>2, <2>5 DEF UpdateGet, table, scheduler, history
<1>3. ASSUME NEW a \in Automations, Delete(a) PROVE Typed'
  BY <1>3 DEF Delete, scheduler, history
<1>4. ASSUME NEW u \in Users, UpdateWrite(u) PROVE Typed'
  <2>1. edit[u] \in [target : Automations, schedule : Schedule, enabled : BOOLEAN]
    BY <1>4 DEF UpdateWrite, Edit
  <2>2. edit' \in [Users -> Edit]
    BY <1>4 DEF UpdateWrite, Edit
  <2>3. CASE edit[u].target \in rows
    BY <1>4, <2>1, <2>2, <2>3 DEF UpdateWrite, Renew, scheduler
  <2>4. CASE edit[u].target \notin rows
    BY <1>4, <2>2, <2>4 DEF UpdateWrite, scheduler
  <2>5. QED
    BY <2>3, <2>4
<1>5. QED
  BY <1>1, <1>2, <1>3, <1>4 DEF Server

\* The scheduler and its failures keep the types.
LEMMA TypedScheduler ==
  ASSUME Typed, Scheduler \/ StatementThrows \/ Crash PROVE Typed'
<1> USE NullApart DEF Typed, TypeOK, Pass
<1>0. AnySchedule \in Schedule
  BY DEF AnySchedule, Schedule
<1>1. CASE List
  <2>1. listed' \in [Automations -> Schedule]
    BY <1>0, <1>1 DEF List
  <2>2. due' \subseteq rows
    BY <1>1 DEF List
  <2>3. QED
    BY <1>1, <2>1, <2>2 DEF List, table, history
<1>2. CASE ListNothing
  BY <1>2 DEF ListNothing, vars, table, scheduler, history
<1>3. ASSUME NEW a \in due, CreateMission(a) PROVE Typed'
  <2>1. /\ fires' \in [Automations -> Nat] /\ firedLast' \in [Automations -> Nat]
        /\ late' \in [Automations -> Nat]
    BY <1>3 DEF CreateMission
  <2>2. QED
    BY <1>3, <2>1 DEF CreateMission, table
<1>4. CASE MarkFired
  <2>1. CASE current \in rows
    <3>1. lastFired' \in [Automations -> Nat \cup {Null}]
      BY <1>4, <2>1 DEF MarkFired
    <3>2. QED
      BY <1>4, <2>1, <3>1 DEF MarkFired
  <2>2. CASE current \notin rows
    BY <1>0, <1>4, <2>2 DEF MarkFired, PassEnds
  <2>3. QED
    BY <2>1, <2>2
<1>5. CASE PublishCreated
  BY <1>0, <1>5 DEF PublishCreated, PassEnds, table, history
<1>6. CASE Start
  BY <1>6 DEF Start, table, history
<1>7. CASE StatementThrows
  BY <1>0, <1>7 DEF StatementThrows, PassEnds, Fault, table, history
<1>8. CASE Crash
  BY <1>0, <1>8 DEF Crash, PassEnds, Fault, table, history
<1>9. QED
  BY <1>1, <1>2, <1>3, <1>4, <1>5, <1>6, <1>7, <1>8 DEF Scheduler

\* Every step keeps the types.
LEMMA TypedStep == Typed /\ [Next]_vars => Typed'
<1>1. ASSUME Typed, Tick PROVE Typed'
  BY <1>1 DEF Tick, Typed, TypeOK, Pass, table, scheduler, history
<1>2. ASSUME Typed, UNCHANGED vars PROVE Typed'
  BY <1>2 DEF Typed, TypeOK, Pass, vars, table, scheduler, history
<1>3. QED
  BY <1>1, <1>2, TypedServer, TypedScheduler DEF Next

\* The types hold at the start.
LEMMA TypedInit == Init => Typed
<1> SUFFICES ASSUME Init PROVE Typed
  OBVIOUS
<1>1. AnySchedule \in Schedule
  BY DEF AnySchedule, Schedule
<1>2. QED
  BY <1>1 DEF Init, Typed, TypeOK, Pass, Edit

LEMMA AlwaysTyped == Spec => []Typed
BY TypedInit, TypedStep, PTL DEF Spec

\* The table and the scheduler keep their types, for any number of automations and
\* users and whatever fails.
THEOREM AutomationsTypeOK == Spec => []TypeOK
<1>1. Typed => TypeOK
  BY DEF Typed
<1>2. QED
  BY <1>1, AlwaysTyped, PTL
-------------------------------------------------------------------------------
(* The rules. *)

\* What an UPDATE will write was validated as a whole.
Validated ==
  /\ RulesKept
  /\ \A u \in Users : edit[u] # NoEdit => Valid(edit[u].schedule)

\* Every step keeps the rows, and the edits on their way to them, valid.
LEMMA ValidatedStep == Typed /\ Validated /\ [Next]_vars => Validated'
<1> SUFFICES ASSUME Typed, Validated, [Next]_vars PROVE Validated'
  OBVIOUS
<1> USE DEF Validated, RulesKept
<1>0. /\ rows \subseteq Automations /\ schedule \in [Automations -> Schedule]
      /\ edit \in [Users -> Edit]
  BY DEF Typed, TypeOK
<1>1. ASSUME rows' \subseteq rows, UNCHANGED <<schedule, edit>> PROVE Validated'
  BY <1>1
<1>2. ASSUME NEW a \in Automations, NEW s \in Schedule, Create(a, s) PROVE Validated'
  BY <1>0, <1>2 DEF Create
<1>3. ASSUME NEW a \in Automations, NEW u \in Users, NEW r \in Request, UpdateGet(u, a, r)
      PROVE Validated'
  <2>1. Valid(edit'[u].schedule)
    BY <1>0, <1>3 DEF UpdateGet
  <2>2. \A v \in Users : v # u => edit'[v] = edit[v]
    BY <1>0, <1>3 DEF UpdateGet
  <2>3. UNCHANGED <<rows, schedule>>
    BY <1>3 DEF UpdateGet, table
  <2>4. QED
    BY <2>1, <2>2, <2>3
<1>4. ASSUME NEW a \in Automations, Delete(a) PROVE Validated'
  BY <1>1, <1>4 DEF Delete
<1>5. ASSUME NEW u \in Users, UpdateWrite(u) PROVE Validated'
  <2>1. \A v \in Users : edit'[v] # NoEdit => edit'[v] = edit[v]
    BY <1>0, <1>5 DEF UpdateWrite
  <2>2. \A b \in rows : schedule'[b] \in {schedule[b], edit[u].schedule}
    BY <1>0, <1>5 DEF UpdateWrite
  <2>3. Valid(edit[u].schedule) /\ rows' = rows
    BY <1>5 DEF UpdateWrite
  <2>4. QED
    BY <2>1, <2>2, <2>3
<1>6. CASE Tick \/ Scheduler \/ StatementThrows \/ Crash \/ UNCHANGED vars
  <2>1. UNCHANGED <<rows, schedule, edit>>
    BY <1>6 DEF Tick, Scheduler, List, ListNothing, CreateMission, MarkFired, PublishCreated,
      Start, StatementThrows, Crash, vars, table
  <2>2. QED
    BY <1>1, <2>1
<1>7. QED
  BY <1>2, <1>3, <1>4, <1>5, <1>6 DEF Next, Server

LEMMA AlwaysValidated == Spec => []Validated
<1>1. Init => Validated
  BY DEF Init, Validated, RulesKept
<1>2. QED
  BY <1>1, ValidatedStep, AlwaysTyped, PTL DEF Spec

\* However the updates of any number of users interleave, every row has a schedule
\* the rules accept.
THEOREM RulesAreKept == Spec => []RulesKept
<1>1. Validated => RulesKept
  BY DEF Validated
<1>2. QED
  BY <1>1, AlwaysValidated, PTL
-------------------------------------------------------------------------------
(* Stopping. *)

\* The one late mission of an automation takes it off the list of the pass, and no
\* list has it again before it is enabled.
Stopped ==
  \A a \in Automations :
    /\ late[a] <= 1
    /\ late[a] = 1 => a \notin due /\ a \notin rows \cap enabled
    /\ a \notin rows \cup deleted => late[a] = 0

\* Every step keeps that.
LEMMA StoppedStep == Typed /\ Stopped /\ [Next]_vars => Stopped'
<1> SUFFICES ASSUME Typed, Stopped, [Next]_vars, NEW b \in Automations
             PROVE  /\ late'[b] <= 1
                    /\ late'[b] = 1 => b \notin due' /\ b \notin rows' \cap enabled'
                    /\ b \notin rows' \cup deleted' => late'[b] = 0
  BY DEF Stopped
<1> DEFINE Kept == /\ late'[b] <= 1
                   /\ late'[b] = 1 => b \notin due' /\ b \notin rows' \cap enabled'
                   /\ b \notin rows' \cup deleted' => late'[b] = 0
<1>0. /\ late[b] \in 0..1 /\ late \in [Automations -> Nat]
      /\ late[b] = 1 => b \notin due /\ b \notin rows \cap enabled
      /\ b \notin rows \cup deleted => late[b] = 0
      /\ rows \subseteq Automations /\ enabled \subseteq Automations
      /\ due \subseteq rows \cup deleted /\ due \subseteq Automations
  BY DEF Typed, TypeOK, Pass, Stopped
<1>1. ASSUME UNCHANGED <<rows, enabled, deleted, late>>, due' \subseteq due PROVE Kept
  BY <1>0, <1>1
<1>2. ASSUME NEW a \in Automations, NEW s \in Schedule, Create(a, s) PROVE Kept
  BY <1>0, <1>2 DEF Create, scheduler, history
<1>3. ASSUME NEW a \in Automations, NEW u \in Users, NEW r \in Request, UpdateGet(u, a, r)
      PROVE Kept
  BY <1>1, <1>3 DEF UpdateGet, table, scheduler, history
<1>4. ASSUME NEW a \in Automations, Delete(a) PROVE Kept
  BY <1>0, <1>4 DEF Delete, scheduler, history
<1>5. ASSUME NEW u \in Users, UpdateWrite(u) PROVE Kept
  <2> DEFINE a == edit[u].target
  <2>1. UNCHANGED <<rows, deleted, due>>
    BY <1>5 DEF UpdateWrite, scheduler
  <2>2. CASE a \in rows /\ edit[u].enabled
    <3>1. /\ late' = [late EXCEPT ![a] = 0] /\ enabled' = enabled \cup {a}
      BY <1>5, <2>2 DEF UpdateWrite, Renew
    <3> HIDE DEF a
    <3>2. QED
      BY <1>0, <2>1, <3>1
  <2>3. CASE a \in rows /\ ~edit[u].enabled
    <3>1. late' = late /\ enabled' = enabled \ {a}
      BY <1>5, <2>3 DEF UpdateWrite, Renew
    <3> HIDE DEF a
    <3>2. QED
      BY <1>0, <2>1, <3>1
  <2>4. CASE a \notin rows
    <3>1. UNCHANGED <<late, enabled>>
      BY <1>5, <2>4 DEF UpdateWrite
    <3>2. QED
      BY <1>1, <2>1, <3>1
  <2>5. QED
    BY <2>2, <2>3, <2>4
<1>6. CASE List
  <2>1. due' \subseteq rows \cap enabled
    BY <1>6 DEF List, IsDue
  <2>2. UNCHANGED <<rows, deleted, enabled, late>>
    BY <1>6 DEF List, table, history
  <2>3. QED
    BY <1>0, <2>1, <2>2
<1>7. ASSUME NEW a \in due, CreateMission(a) PROVE Kept
  <2>1. UNCHANGED <<rows, deleted, enabled>> /\ due' = due \ {a}
    BY <1>7 DEF CreateMission, table
  <2>2. CASE a \in rows \cap enabled
    BY <1>1, <1>7, <2>1, <2>2 DEF CreateMission
  <2>3. CASE a \notin rows \cap enabled
    <3>1. late' = [late EXCEPT ![a] = @ + 1]
      BY <1>7, <2>3 DEF CreateMission
    <3>2. a \in Automations /\ a \in rows \cup deleted
      BY <1>0
    <3>3. CASE b = a
      <4>1. late[b] = 0
        BY <1>0, <3>3
      <4>2. QED
        BY <1>0, <2>1, <2>3, <3>1, <3>2, <3>3, <4>1
    <3>4. CASE b # a
      BY <1>0, <2>1, <3>1, <3>4
    <3>5. QED
      BY <3>3, <3>4
  <2>4. QED
    BY <2>2, <2>3
<1>8. CASE MarkFired \/ PublishCreated \/ StatementThrows \/ Crash
  <2>1. due' \subseteq due
    BY <1>8 DEF MarkFired, PublishCreated, StatementThrows, Crash, PassEnds
  <2>2. UNCHANGED <<rows, deleted, enabled, late>>
    BY <1>8 DEF MarkFired, PublishCreated, StatementThrows, Crash, table, history
  <2>3. QED
    BY <1>1, <2>1, <2>2
<1>9. CASE Tick \/ ListNothing \/ Start \/ UNCHANGED vars
  BY <1>1, <1>9 DEF Tick, ListNothing, Start, vars, table, scheduler, history
<1>10. QED
  BY <1>2, <1>3, <1>4, <1>5, <1>6, <1>7, <1>8, <1>9 DEF Next, Server, Scheduler

\* An automation that was disabled or deleted fires at most once more, whatever edits,
\* failures and crashes come in between.
THEOREM StoppedFiresOnce == Spec => []StopsFiring
<1>1. Init => Stopped
  BY DEF Init, Stopped
<1>2. Stopped => StopsFiring
  BY DEF Stopped, StopsFiring
<1>3. QED
  BY <1>1, <1>2, StoppedStep, AlwaysTyped, PTL DEF Spec
-------------------------------------------------------------------------------
(* Spacing. *)

\* The last recorded mission is no later than LastFiredAt, from which the next one is
\* counted, and whoever is on the list was due when it was made.
Counted(a) ==
  /\ firedLast[a] <= clock
  /\ fires[a] > 0 /\ a \notin unmarked => lastFired[a] # Null /\ firedLast[a] <= lastFired[a]

OnTime(a) ==
  /\ Valid(listed[a])
  /\ fires[a] > 0 /\ a \notin unmarked => NextDue(listed[a], firedLast[a]) <= clock

Spaced == (\A a \in Automations : Counted(a)) /\ (\A a \in due : OnTime(a))

\* A step that leaves the history alone and the list no longer keeps the spacing.
LEMMA SpacedFrame ==
  ASSUME Typed, Spaced, due' \subseteq due, clock' \in Nat, clock <= clock',
         UNCHANGED <<lastFired, fires, firedLast, unmarked>>,
         \A a \in due' : listed'[a] = listed[a]
  PROVE  Spaced'
<1>0. /\ clock \in Nat /\ due \subseteq Automations
      /\ firedLast \in [Automations -> Nat] /\ listed \in [Automations -> Schedule]
  BY DEF Typed, TypeOK
<1>1. \A a \in Automations : Counted(a)'
  BY <1>0 DEF Spaced, Counted
<1>2. ASSUME NEW a \in due' PROVE OnTime(a)'
  <2>1. OnTime(a) /\ a \in Automations
    BY <1>0 DEF Spaced
  <2>2. NextDue(listed[a], firedLast[a]) \in Nat
    BY <1>0, <2>1, NextDueMonotone DEF OnTime
  <2>3. listed'[a] = listed[a]
    OBVIOUS
  <2>4. QED
    BY <1>0, <2>1, <2>2, <2>3 DEF OnTime
<1>3. QED
  BY <1>1, <1>2 DEF Spaced

\* List: what is due now was counted from LastFiredAt, hence not before the schedule
\* allows after the mission it records.
LEMMA SpacedList == ASSUME Typed, Validated, Spaced, List PROVE Spaced'
<1>0. /\ clock \in Nat /\ rows \subseteq Automations
      /\ schedule \in [Automations -> Schedule] /\ createdAt \in [Automations -> Nat]
      /\ firedLast \in [Automations -> Nat] /\ lastFired \in [Automations -> Nat \cup {Null}]
  BY DEF Typed, TypeOK
<1>1. UNCHANGED <<clock, schedule, createdAt, lastFired, fires, firedLast, unmarked>>
  BY DEF List, table, history
<1>2. \A a \in Automations : Counted(a)'
  BY <1>1 DEF Spaced, Counted
<1>3. ASSUME NEW a \in due' PROVE OnTime(a)'
  <2>1. a \in rows /\ IsDue(a)
    BY <1>3 DEF List
  <2>2. listed'[a] = schedule[a]
    BY <1>0, <2>1 DEF List
  <2>3. Valid(schedule[a]) /\ schedule[a] \in Schedule
    BY <1>0, <2>1 DEF Validated, RulesKept
  <2>4. NextDue(schedule[a], Anchor(a)) <= clock
    <3>1. Anchor(a) \in Nat
      BY <1>0, <2>1 DEF Anchor
    <3>2. NextDue(schedule[a], Anchor(a)) \in Nat
      BY <2>3, <3>1, NextDueMonotone
    <3>3. QED
      BY <1>0, <2>1, <3>2 DEF IsDue
  <2>5. ASSUME fires[a] > 0, a \notin unmarked PROVE NextDue(schedule[a], firedLast[a]) <= clock
    <3>1. /\ lastFired[a] \in Nat /\ firedLast[a] \in Nat
          /\ firedLast[a] <= lastFired[a] /\ Anchor(a) = lastFired[a]
      BY <1>0, <2>1, <2>5 DEF Spaced, Counted, Anchor
    <3>2. /\ NextDue(schedule[a], firedLast[a]) \in Nat
          /\ NextDue(schedule[a], lastFired[a]) \in Nat
          /\ NextDue(schedule[a], firedLast[a]) <= NextDue(schedule[a], lastFired[a])
      BY <2>3, <3>1, NextDueMonotone
    <3>3. QED
      BY <1>0, <2>4, <3>1, <3>2
  <2>6. QED
    BY <1>1, <2>2, <2>3, <2>5 DEF OnTime
<1>4. QED
  BY <1>2, <1>3 DEF Spaced

\* Every step keeps the spacing.
LEMMA SpacedStep == Typed /\ Validated /\ Spaced /\ [Next]_vars => Spaced'
<1> SUFFICES ASSUME Typed, Validated, Spaced, [Next]_vars PROVE Spaced'
  OBVIOUS
<1>0. /\ clock \in Nat /\ rows \subseteq Automations /\ due \subseteq Automations \ {current}
      /\ lastFired \in [Automations -> Nat \cup {Null}]
      /\ fires \in [Automations -> Nat] /\ firedLast \in [Automations -> Nat]
      /\ listed \in [Automations -> Schedule] /\ Null \notin Nat
  BY ValuesAssumption DEF Typed, TypeOK
<1>1. CASE Tick
  BY <1>0, <1>1, SpacedFrame DEF Tick, table, scheduler, history
<1>2. CASE Server \/ \E u \in Users : UpdateWrite(u)
  <2>1. UNCHANGED <<clock, lastFired, due, listed, fires, firedLast, unmarked>>
    BY <1>2 DEF Server, Create, UpdateGet, Delete, UpdateWrite, table, scheduler, history
  <2>2. QED
    BY <1>0, <2>1, SpacedFrame
<1>3. CASE List
  BY <1>3, SpacedList
<1>4. ASSUME NEW a \in due, CreateMission(a) PROVE Spaced'
  <2>1. /\ firedLast' = [firedLast EXCEPT ![a] = clock] /\ fires' = [fires EXCEPT ![a] = @ + 1]
        /\ unmarked' = unmarked \cup {a} /\ due' = due \ {a}
        /\ UNCHANGED <<clock, lastFired, listed>>
    BY <1>4 DEF CreateMission, table
  <2>2. ASSUME NEW b \in Automations PROVE Counted(b)'
    BY <1>0, <2>1 DEF Spaced, Counted
  <2>3. ASSUME NEW b \in due' PROVE OnTime(b)'
    <3>1. b \in due /\ b # a /\ OnTime(b) /\ b \in Automations
      BY <1>0, <2>1 DEF Spaced
    <3>2. fires'[b] = fires[b] /\ firedLast'[b] = firedLast[b]
      BY <1>0, <2>1, <3>1
    <3>3. QED
      BY <2>1, <3>1, <3>2 DEF OnTime
  <2>4. QED
    BY <2>2, <2>3 DEF Spaced
<1>5. CASE MarkFired
  <2>1. CASE current \in rows
    <3>1. /\ lastFired' = [lastFired EXCEPT ![current] = clock]
          /\ unmarked' = unmarked \ {current}
          /\ UNCHANGED <<clock, due, listed, fires, firedLast>>
      BY <1>5, <2>1 DEF MarkFired
    <3>2. ASSUME NEW b \in Automations PROVE Counted(b)'
      BY <1>0, <2>1, <3>1 DEF Spaced, Counted
    <3>3. ASSUME NEW b \in due' PROVE OnTime(b)'
      BY <1>0, <3>1 DEF Spaced, OnTime
    <3>4. QED
      BY <3>2, <3>3 DEF Spaced
  <2>2. CASE current \notin rows
    BY <1>0, <1>5, <2>2, SpacedFrame DEF MarkFired, PassEnds
  <2>3. QED
    BY <2>1, <2>2
<1>6. CASE PublishCreated \/ StatementThrows \/ Crash
  <2>1. UNCHANGED <<clock, lastFired, fires, firedLast, unmarked>>
    BY <1>6 DEF PublishCreated, StatementThrows, Crash, table, history
  <2>2. due' = {} \/ UNCHANGED <<due, listed>>
    BY <1>6 DEF PublishCreated, StatementThrows, Crash, PassEnds
  <2>3. QED
    BY <1>0, <2>1, <2>2, SpacedFrame
<1>7. CASE ListNothing \/ Start \/ UNCHANGED vars
  BY <1>0, <1>7, SpacedFrame DEF ListNothing, Start, vars, table, scheduler, history
<1>8. QED
  BY <1>1, <1>2, <1>3, <1>4, <1>5, <1>6, <1>7 DEF Next, Scheduler

\* A mission is created from the list only.
LEMMA FiresFromList ==
  ASSUME [Next]_vars, NEW a \in Automations, fires'[a] # fires[a], Typed PROVE a \in due
<1>1. ASSUME NEW b \in due, CreateMission(b) PROVE a \in due
  BY <1>1 DEF CreateMission, Typed, TypeOK
<1>2. CASE UNCHANGED fires
  BY <1>2
<1>3. QED
  BY <1>1, <1>2 DEF Next, Tick, Server, Create, UpdateGet, Delete, UpdateWrite, Scheduler, List,
    ListNothing, MarkFired, PublishCreated, Start, StatementThrows, Crash, vars, history

\* Missions of one automation are spaced as its schedule says, for every schedule,
\* every length of the day and any edits in between, unless MarkFired did not get to
\* record the last one.
THEOREM MissionsAreSpaced == Spec => FiresSpaced
<1> DEFINE Due(a) == fires'[a] # fires[a] /\ fires[a] > 0 /\ a \notin unmarked =>
                       clock >= NextDue(listed[a], firedLast[a])
<1>1. Typed /\ Spaced /\ [Next]_vars => [\A a \in Automations : Due(a)]_vars
  <2> SUFFICES ASSUME Typed, Spaced, [Next]_vars, NEW a \in Automations,
                      fires'[a] # fires[a], fires[a] > 0, a \notin unmarked
               PROVE  clock >= NextDue(listed[a], firedLast[a])
    OBVIOUS
  <2>1. OnTime(a)
    BY FiresFromList DEF Spaced
  <2>2. clock \in Nat /\ listed[a] \in Schedule /\ firedLast[a] \in Nat
    BY DEF Typed, TypeOK
  <2>3. NextDue(listed[a], firedLast[a]) \in Nat
    BY <2>1, <2>2, NextDueMonotone DEF OnTime
  <2>4. QED
    BY <2>1, <2>2, <2>3 DEF OnTime
<1>2. Init => Spaced
  BY DEF Init, Spaced, Counted
<1>3. Spec => []Spaced
  BY <1>2, SpacedStep, AlwaysTyped, AlwaysValidated, PTL DEF Spec
<1>4. QED
  BY <1>1, <1>3, AlwaysTyped, PTL DEF Spec, FiresSpaced
===============================================================================
