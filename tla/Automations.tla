------------------------------ MODULE Automations ------------------------------
(***************************************************************************)
(* Scheduled missions: SqliteAutomationStore under the requests of several *)
(* users, the rules of AutomationRules, and the Worker's                   *)
(* AutomationScheduler, which lists the automations, and for each due one  *)
(* creates a mission, marks it fired and publishes MISSION_CREATED - three *)
(* statements that may fail or be cut off by a crash.                      *)
(*                                                                         *)
(* Time is a local clock in minutes; a day has Day of them.  Labels and    *)
(* prompts carry no behaviour and are left out, changes of the clock's     *)
(* offset (daylight saving) too.                                           *)
(***************************************************************************)
EXTENDS Naturals, FiniteSets

CONSTANTS Automations,   \* automation ids
          Users,         \* request threads, each with one PUT in progress
          Intervals,     \* values of intervalMinutes in requests
          Day,           \* minutes in a day
          Null,          \* an absent field, and no value in a column
          Blank,         \* an empty DailyAt
          Malformed,     \* a DailyAt that is no HH:mm
          MaxTime,       \* bound: the last minute of a behaviour
          MaxFaults      \* bound: failing statements and crashes

ASSUME DayAssumption == Day \in Nat \ {0}
ASSUME IntervalsAssumption == Intervals \subseteq Nat
ASSUME ValuesAssumption ==
  /\ {Null, Blank, Malformed} \cap (Nat \cup Automations) = {}
  /\ Null \notin {Blank, Malformed}
ASSUME BoundsAssumption == MaxTime \in Nat /\ MaxFaults \in Nat

VARIABLES
  clock,       \* the current minute
  rows,        \* automations with a row
  deleted,     \* automations whose row has been deleted
  schedule,    \* [Automations -> Schedule]: Frequency, IntervalMinutes, DailyAt
  enabled,     \* automations whose Enabled column is 1
  createdAt,   \* [Automations -> minute]: CreatedAt
  lastFired,   \* [Automations -> minute or Null]: LastFiredAt
  edit,        \* [Users -> Edit]: the PUT each user is inside
  pc,          \* the scheduler: "down", "idle" or its next statement
  current,     \* the automation it is firing, or Null
  due,         \* automations the pass has yet to come to
  listed,      \* [Automations -> Schedule]: their schedules as List returned them
  fires,       \* history: missions created for each automation
  firedLast,   \* history: when the last of them was created
  unmarked,    \* history: automations with a mission that MarkFired does not know
  late,        \* history: missions created while the row was disabled or gone
  faults       \* counter for the bound

table     == <<rows, deleted, schedule, enabled, createdAt, lastFired>>
scheduler == <<pc, current, due, listed>>
history   == <<fires, firedLast, unmarked, late>>
vars      == <<clock, table, edit, scheduler, history, faults>>

\* DailyAt: a minute of the day, blank, or text that is no HH:mm.
DailyTimes == (0..Day - 1) \cup {Blank, Malformed}
Schedule == [frequency : {"Interval", "Daily"},
             interval : Intervals \cup {Null}, dailyAt : DailyTimes \cup {Null}]

\* AutomationRules.Validate.
Valid(s) ==
  \/ /\ s.frequency = "Interval"
     /\ s.interval # Null /\ s.interval >= 1
     /\ s.dailyAt \in {Null, Blank}
  \/ /\ s.frequency = "Daily"
     /\ s.dailyAt \in 0..Day - 1
     /\ s.interval = Null

\* The instant an automation is due, counted from its anchor; NextDailyLocal is
\* the first HH:mm strictly after the anchor.
NextDaily(anchor, time) ==
  LET candidate == (anchor - (anchor % Day)) + time
  IN  IF candidate <= anchor THEN candidate + Day ELSE candidate

NextDue(s, anchor) ==
  IF s.frequency = "Interval" THEN anchor + s.interval ELSE NextDaily(anchor, s.dailyAt)

\* A mutant: the countdown always starts at CreatedAt.
AnchorCreated(a) == createdAt[a]

Anchor(a) == IF lastFired[a] = Null THEN createdAt[a] ELSE lastFired[a]

\* A mutant: Enabled is not looked at.
IsDueAnyway(a) == a \in rows /\ clock >= NextDue(schedule[a], Anchor(a))

\* AutomationRules.IsDue.
IsDue(a) == a \in rows \cap enabled /\ clock >= NextDue(schedule[a], Anchor(a))
-------------------------------------------------------------------------------
\* Request fields that are absent keep what was read: request.X ?? current.X.
Field(value, stored) == IF value = Null THEN stored ELSE value

Toggles == {"on", "off", Null}
Request == [frequency : {"Interval", "Daily", Null}, interval : Intervals \cup {Null},
            dailyAt : DailyTimes \cup {Null}, enabled : Toggles]

\* A PUT between its Get and its UPDATE: the merged, validated columns.
NoEdit == [target |-> Null]
Edit == {NoEdit} \cup [target : Automations, schedule : Schedule, enabled : BOOLEAN]

AnySchedule == [frequency |-> "Interval", interval |-> Null, dailyAt |-> Null]

Init ==
  /\ clock = 0
  /\ rows = {} /\ deleted = {} /\ enabled = {}
  /\ schedule = [a \in Automations |-> AnySchedule]
  /\ createdAt = [a \in Automations |-> 0]
  /\ lastFired = [a \in Automations |-> Null]
  /\ edit = [u \in Users |-> NoEdit]
  /\ pc = "idle" /\ current = Null /\ due = {} /\ listed = schedule
  /\ fires = [a \in Automations |-> 0] /\ firedLast = [a \in Automations |-> 0]
  /\ unmarked = {} /\ late = [a \in Automations |-> 0]
  /\ faults = 0

Tick ==
  /\ clock < MaxTime
  /\ clock' = clock + 1
  /\ UNCHANGED <<table, edit, scheduler, history, faults>>
-------------------------------------------------------------------------------
(* SqliteAutomationStore, as the Server's handlers call it. *)

\* POST: Create validates and inserts an enabled row that has never fired.
Create(a, s) ==
  /\ a \notin rows \cup deleted
  /\ Valid(s)
  /\ rows' = rows \cup {a} /\ enabled' = enabled \cup {a}
  /\ schedule' = [schedule EXCEPT ![a] = s]
  /\ createdAt' = [createdAt EXCEPT ![a] = clock]
  /\ UNCHANGED <<clock, deleted, lastFired, edit, scheduler, history, faults>>

\* PUT: Update's Get, the merge and Validate.  A missing row or an invalid merge
\* throws, which changes nothing.
UpdateGet(u, a, r) ==
  LET merged == [frequency |-> Field(r.frequency, schedule[a].frequency),
                 interval  |-> Field(r.interval, schedule[a].interval),
                 dailyAt   |-> Field(r.dailyAt, schedule[a].dailyAt)]
  IN  /\ edit[u] = NoEdit
      /\ a \in rows
      /\ Valid(merged)
      /\ edit' = [edit EXCEPT ![u] =
           [target |-> a, schedule |-> merged,
            enabled |-> r.enabled = "on" \/ (r.enabled = Null /\ a \in enabled)]]
      /\ UNCHANGED <<clock, table, scheduler, history, faults>>

\* A history count: an automation that is enabled again starts afresh.
Renew(a, on) == late' = IF on THEN [late EXCEPT ![a] = 0] ELSE late

\* A mutant: IntervalMinutes is missing from the SET list.
UpdateWriteNoInterval(u) ==
  LET a == edit[u].target IN
  /\ edit[u] # NoEdit
  /\ edit' = [edit EXCEPT ![u] = NoEdit]
  /\ IF a \in rows
       THEN /\ schedule' = [schedule EXCEPT ![a].frequency = edit[u].schedule.frequency,
                                           ![a].dailyAt = edit[u].schedule.dailyAt]
            /\ enabled' = IF edit[u].enabled THEN enabled \cup {a} ELSE enabled \ {a}
            /\ Renew(a, edit[u].enabled)
       ELSE UNCHANGED <<schedule, enabled, late>>
  /\ UNCHANGED <<clock, rows, deleted, createdAt, lastFired, scheduler, fires, firedLast, unmarked, faults>>

\* The UPDATE writes every column of the merged row, or no row if it is gone.
UpdateWrite(u) ==
  LET a == edit[u].target IN
  /\ edit[u] # NoEdit
  /\ edit' = [edit EXCEPT ![u] = NoEdit]
  /\ IF a \in rows
       THEN /\ schedule' = [schedule EXCEPT ![a] = edit[u].schedule]
            /\ enabled' = IF edit[u].enabled THEN enabled \cup {a} ELSE enabled \ {a}
            /\ Renew(a, edit[u].enabled)
       ELSE UNCHANGED <<schedule, enabled, late>>
  /\ UNCHANGED <<clock, rows, deleted, createdAt, lastFired, scheduler, fires, firedLast, unmarked, faults>>

\* DELETE.
Delete(a) ==
  /\ a \in rows
  /\ rows' = rows \ {a} /\ deleted' = deleted \cup {a}
  /\ UNCHANGED <<clock, schedule, enabled, createdAt, lastFired, edit, scheduler, history, faults>>
-------------------------------------------------------------------------------
(* AutomationScheduler.ExecuteAsync. *)

\* List, filtered by IsDue at one instant.
List ==
  /\ pc = "idle"
  /\ \E a \in rows : IsDue(a)
  /\ due' = {a \in rows : IsDue(a)}
  /\ listed' = [a \in Automations |-> IF IsDue(a) THEN schedule[a] ELSE AnySchedule]
  /\ pc' = "create"
  /\ UNCHANGED <<clock, table, edit, current, history, faults>>

\* A pass with nothing due.
ListNothing ==
  /\ pc = "idle"
  /\ \A a \in rows : ~IsDue(a)
  /\ UNCHANGED vars

\* Back to the delay before the next pass, or out of the process.
PassEnds(next) ==
  /\ pc' = next /\ current' = Null /\ due' = {}
  /\ listed' = [a \in Automations |-> AnySchedule]

\* missions.Create for the next automation of the list, youngest first.
CreateMission(a) ==
  /\ pc = "create" /\ a \in due
  /\ \A b \in due : createdAt[a] >= createdAt[b]
  /\ current' = a /\ due' = due \ {a} /\ pc' = "mark"
  /\ fires' = [fires EXCEPT ![a] = @ + 1]
  /\ firedLast' = [firedLast EXCEPT ![a] = clock]
  /\ unmarked' = unmarked \cup {a}
  /\ late' = IF a \in rows \cap enabled THEN late ELSE [late EXCEPT ![a] = @ + 1]
  /\ UNCHANGED <<clock, table, edit, listed, faults>>

\* A mutant: a MarkFired that throws is tried again until it succeeds.
MarkFiredRetries ==
  /\ pc = "mark"
  /\ IF current \in rows
       THEN /\ lastFired' = [lastFired EXCEPT ![current] = clock]
            /\ unmarked' = unmarked \ {current}
            /\ pc' = "publish"
       ELSE UNCHANGED <<pc, lastFired, unmarked>>
  /\ UNCHANGED <<clock, rows, deleted, schedule, enabled, createdAt, edit, current, due, listed, fires, firedLast, late, faults>>

\* MarkFired: one UPDATE; it throws on an automation deleted since List, and the
\* catch ends the pass.
MarkFired ==
  /\ pc = "mark"
  /\ IF current \in rows
       THEN /\ lastFired' = [lastFired EXCEPT ![current] = clock]
            /\ unmarked' = unmarked \ {current}
            /\ pc' = "publish"
            /\ UNCHANGED <<current, due, listed>>
       ELSE PassEnds("idle") /\ UNCHANGED <<lastFired, unmarked>>
  /\ UNCHANGED <<clock, rows, deleted, schedule, enabled, createdAt, edit, fires, firedLast, late, faults>>

\* Publish(MISSION_CREATED), and on to the next one.
PublishCreated ==
  /\ pc = "publish"
  /\ IF due = {} THEN PassEnds("idle")
                 ELSE pc' = "create" /\ current' = Null /\ UNCHANGED <<due, listed>>
  /\ UNCHANGED <<clock, table, edit, history, faults>>

Fault == faults < MaxFaults /\ faults' = faults + 1

\* Any of the three statements may throw: the catch ends the pass.
StatementThrows ==
  /\ pc \in {"create", "mark", "publish"}
  /\ Fault
  /\ PassEnds("idle")
  /\ UNCHANGED <<clock, table, edit, history>>

\* The Worker dies and is started again.
Crash ==
  /\ pc # "down"
  /\ Fault
  /\ PassEnds("down")
  /\ UNCHANGED <<clock, table, edit, history>>

Start ==
  /\ pc = "down"
  /\ pc' = "idle"
  /\ UNCHANGED <<clock, table, edit, current, due, listed, history, faults>>
-------------------------------------------------------------------------------
Scheduler ==
  \/ List \/ ListNothing \/ MarkFired \/ PublishCreated \/ Start
  \/ \E a \in due : CreateMission(a)

Server ==
  \E a \in Automations :
    \/ \E s \in Schedule : Create(a, s)
    \/ \E u \in Users, r \in Request : UpdateGet(u, a, r)
    \/ Delete(a)

Next ==
  \/ Tick \/ Server \/ Scheduler \/ StatementThrows \/ Crash
  \/ \E u \in Users : UpdateWrite(u)

Spec == Init /\ [][Next]_vars

\* The scheduler polls every 20 seconds for ever, its statements end, and a dead
\* Worker is started again.  Requests need not come, nor time pass.
FairSpec == Spec /\ WF_vars(Scheduler)
-------------------------------------------------------------------------------
TypeOK ==
  /\ clock \in Nat /\ faults \in Nat
  /\ rows \subseteq Automations /\ deleted \subseteq Automations /\ rows \cap deleted = {}
  /\ enabled \subseteq Automations
  /\ schedule \in [Automations -> Schedule] /\ listed \in [Automations -> Schedule]
  /\ createdAt \in [Automations -> Nat] /\ lastFired \in [Automations -> Nat \cup {Null}]
  /\ edit \in [Users -> Edit]
  /\ pc \in {"down", "idle", "create", "mark", "publish"}
  /\ current \in Automations \cup {Null} /\ due \subseteq Automations \ {current}
  /\ fires \in [Automations -> Nat] /\ firedLast \in [Automations -> Nat]
  /\ unmarked \subseteq Automations /\ late \in [Automations -> Nat]

\* However updates of one automation interleave, the row always has a schedule the
\* rules accept: every UPDATE writes all the columns that were validated together.
RulesKept == \A a \in rows : Valid(schedule[a])

\* docs/architecture.md, Automations: the countdown restarts at each fire.  A mission
\* is created no earlier than the schedule the pass listed allows after the last
\* one, unless MarkFired did not get to record that one (a crash, a failing
\* statement), although firing goes on after the list was read.
FiresSpaced ==
  [][\A a \in Automations :
       fires'[a] # fires[a] /\ fires[a] > 0 /\ a \notin unmarked =>
         clock >= NextDue(listed[a], firedLast[a])]_vars

\* A disabled or deleted automation fires at most once more, from the list of a
\* pass that had already begun.
StopsFiring == \A a \in Automations : late[a] <= 1

\* Every due automation fires, or is changed or deleted, also behind others that
\* were deleted in the middle of a pass.
DueFires == \A a \in Automations : []<>~IsDue(a)
===============================================================================
