----------------------------- MODULE MissionChecklist -----------------------------
(***************************************************************************)
(* The step checklist on a mission's card (lib/activity.ts), derived from  *)
(* the list of activity the page holds: the mission's events in the order  *)
(* they are published, streamed one by one by the broadcaster and replaced *)
(* as a whole by the answer of GET /api/activity, which may be older than  *)
(* what was streamed (lib/live.ts), and the steps built from what the list *)
(* has at each moment.                                                     *)
(*                                                                         *)
(* A row changes before the event that tells of it is published, and that  *)
(* event may be lost, as in EventStream.  The card is judged with the row  *)
(* of the database; the pages' copy of it is LiveStore's.  Labels, tones   *)
(* and the changes of a status no page asks for are left out.              *)
(***************************************************************************)
EXTENDS MissionContracts, Integers, Sequences

CONSTANTS Tools,       \* names of tools
          Limit,       \* entries of this mission the page's list has room for
          MaxEvents,   \* bound: events published
          MaxSlips     \* bound: entries the broadcaster repeats and entries the page overlooks

VARIABLES
  agent,           \* what the worker does: "waiting", "working", a tool, "completing", "done"
  missionStatus,   \* the mission's status
  goalSaysFailed,  \* the goal contains the word "failed"
  owed,            \* entries whose row is written and that are not published yet
  trail,           \* the mission's entries in the events table, oldest first
  sent,            \* how many of them the broadcaster has handled
  activity,        \* the page's list: positions in trail, oldest first
  missed,          \* history: the list may lack an entry newer than its oldest
  slips            \* entries repeated and overlooked so far

process == <<agent, missionStatus, goalSaysFailed, owed>>
list    == <<sent, activity, missed, slips>>
vars == <<process, trail, list>>

NoTool == "no tool"
ToolTypes == {"TOOL_STARTED", "TOOL_COMPLETED", "TOOL_FAILED"}
Types == ToolTypes \cup {"MISSION_CREATED", "MISSION_STARTED", "MISSION_COMPLETED",
                         "MISSION_FAILED", "MISSION_CANCELLED", "VERIFICATION"}

\* mapEventToActivity: the tool of an entry, and whether its detail says "failed".
Entry(type, tool, saysFailed) == [type |-> type, tool |-> tool, saysFailed |-> saysFailed]
Entries == [type : Types, tool : Tools \cup {NoTool}, saysFailed : BOOLEAN]
Plain(type) == Entry(type, NoTool, FALSE)

\* The events two statements of the Server tell of; the worker publishes the others.
FromServer == {Plain("MISSION_CREATED"), Plain("MISSION_CANCELLED")}

Shown(i) == trail[activity[i]]
Happened(type) == \E i \in 1..Len(activity) : Shown(i).type = type
ToolHappened(type, name) ==
  \E i \in 1..Len(activity) : Shown(i).type = type /\ Shown(i).tool = name
-------------------------------------------------------------------------------
(* buildChecklist: a set of steps; their order is left out. *)

Step(key, stage) == {[key |-> key, stage |-> stage]}
NoStep == {}

CreatedStep ==
  IF Happened("MISSION_CREATED") THEN Step("created", "done") ELSE NoStep

PlanningStep ==
  LET started == {i \in 1..Len(activity) : Shown(i).type = "MISSION_STARTED"}
      further == \E i \in started, j \in 1..Len(activity) : i < j /\ Shown(j).type # "MISSION_STARTED"
  IN  IF started = {} THEN NoStep
      ELSE Step("planning", IF missionStatus \in Terminal \/ further THEN "done" ELSE "active")

\* A failure is remembered: a tool that failed once stays an error.
ToolStage(name) ==
  IF ToolHappened("TOOL_FAILED", name) THEN "error"
  ELSE IF ToolHappened("TOOL_COMPLETED", name) THEN "done" ELSE "active"

ToolSteps ==
  UNION {Step(name, ToolStage(name)) :
           name \in {n \in Tools : \E type \in ToolTypes : ToolHappened(type, n)}}

Verifications == {i \in 1..Len(activity) : Shown(i).type = "VERIFICATION"}

VerifyStage(verification) ==
  IF verification.saysFailed THEN "error"
  ELSE IF missionStatus \in Terminal THEN "done" ELSE "active"

\* A mutant: the first verification is shown.
VerifyStepFirst ==
  UNION {Step("verify", VerifyStage(Shown(i))) :
           i \in {n \in Verifications : \A later \in Verifications : n <= later}}

\* The last verification is shown.
VerifyStep ==
  UNION {Step("verify", VerifyStage(Shown(i))) :
           i \in {n \in Verifications : \A other \in Verifications : other <= n}}

EndStep ==
  IF Happened("MISSION_COMPLETED") THEN Step("done", "done")
  ELSE IF Happened("MISSION_FAILED") \/ Happened("MISSION_CANCELLED") THEN Step("done", "error")
  ELSE NoStep

Checklist ==
  LET steps == CreatedStep \cup PlanningStep \cup ToolSteps \cup VerifyStep \cup EndStep
  IN  IF steps = {} THEN Step("starting", "active") ELSE steps

\* MissionCard: a single step is not drawn.
Drawn == IF \E s, t \in Checklist : s # t THEN Checklist ELSE {}
-------------------------------------------------------------------------------
\* The first entry is there before a worker claims; a list without it is a crowded one.
Init ==
  /\ agent = "waiting" /\ missionStatus = "Created" /\ goalSaysFailed \in BOOLEAN
  /\ owed = {} /\ trail = <<Plain("MISSION_CREATED")>>
  /\ sent = 0 /\ activity = <<>> /\ missed = FALSE /\ slips = 0

(* The worker and the Server. *)

\* The worker has published what it has to tell, and goes on.
GoesOn == owed \subseteq FromServer

Publish(e) == Len(trail) < MaxEvents /\ trail' = Append(trail, e)

\* A status changes, and its entry is published by a later statement.
Owing(status, e) == missionStatus' = status /\ owed' = owed \cup {e} /\ UNCHANGED <<trail, list>>

\* That statement; a process that stops before it, or cannot write, never takes it.
Published(e) ==
  /\ Publish(e) /\ owed' = owed \ {e}
  /\ UNCHANGED <<agent, missionStatus, goalSaysFailed, list>>

Claimed ==
  /\ agent = "waiting" /\ missionStatus = "Created"
  /\ agent' = "working" /\ Owing("Running", Plain("MISSION_STARTED"))
  /\ UNCHANGED goalSaysFailed

ToolStarts(tool) ==
  /\ agent = "working" /\ GoesOn
  /\ agent' = tool /\ Publish(Entry("TOOL_STARTED", tool, FALSE))
  /\ UNCHANGED <<missionStatus, goalSaysFailed, owed, list>>

ToolEnds ==
  /\ agent \in Tools /\ agent' = "working"
  /\ \E type \in {"TOOL_COMPLETED", "TOOL_FAILED"} : Publish(Entry(type, agent, FALSE))
  /\ UNCHANGED <<missionStatus, goalSaysFailed, owed, list>>

VerificationFails ==
  /\ agent = "working" /\ GoesOn /\ Publish(Entry("VERIFICATION", NoTool, TRUE))
  /\ UNCHANGED <<process, list>>

\* Complete announces the verification with the goal as its detail.
Verifying ==
  /\ agent = "working" /\ GoesOn /\ missionStatus = "Running"
  /\ agent' = "completing" /\ Owing("Verifying", Entry("VERIFICATION", NoTool, goalSaysFailed))
  /\ UNCHANGED goalSaysFailed

Completed ==
  /\ agent = "completing" /\ GoesOn /\ missionStatus = "Verifying"
  /\ agent' = "done" /\ Owing("Completed", Plain("MISSION_COMPLETED"))
  /\ UNCHANGED goalSaysFailed

\* A cancelled mission ends its run without an event; another run that ends fails the
\* mission, also one that could not publish an entry, which is lost.
RunEnds ==
  /\ agent \notin {"waiting", "done"} /\ Plain("MISSION_STARTED") \notin owed
  /\ agent' = "done"
  /\ IF missionStatus \in Terminal
     THEN missionStatus' = missionStatus /\ owed' = owed \cap FromServer
     ELSE /\ missionStatus' = "Failed"
          /\ owed' = (owed \cap FromServer) \cup {Plain("MISSION_FAILED")}
  /\ UNCHANGED <<goalSaysFailed, trail, list>>

CancelledByUser ==
  /\ IsAllowed(missionStatus, "Cancelled")
  /\ Owing("Cancelled", Plain("MISSION_CANCELLED"))
  /\ UNCHANGED <<agent, goalSaysFailed>>
-------------------------------------------------------------------------------
(* The page. *)

\* onmessage: a new entry pushes the oldest one off a full list.
Stream ==
  /\ sent < Len(trail)
  /\ activity' = IF Len(activity) < Limit THEN Append(activity, sent + 1)
                 ELSE Append(Tail(activity), sent + 1)
  /\ UNCHANGED <<process, trail, missed>>

Streamed == Stream /\ sent' = sent + 1 /\ UNCHANGED slips

Slip == slips < MaxSlips /\ slips' = slips + 1

\* The pass of the broadcaster fails behind the entry, and the next one sends it again.
Repeated == Slip /\ Stream /\ UNCHANGED sent

\* The page's socket is not there when the broadcaster handles an entry, or the Server
\* starts behind it, or "Forget all" takes it away.
Overlooked ==
  /\ Slip /\ sent < Len(trail) /\ sent' = sent + 1 /\ missed' = TRUE
  /\ UNCHANGED <<process, trail, activity>>

\* refreshInitial goes on: the answer of GET /api/activity replaces the list, also one
\* that is ahead.  Any number of requests may be under way, each for as long as it takes,
\* so an answer may be as old as any: it was read when the table had n entries.
Refreshed ==
  \E n \in 0..Len(trail) :
    LET room == IF n < Limit THEN n ELSE Limit IN
    /\ activity' = [i \in 1..room |-> n - room + i]
    /\ missed' = (n < sent)
    /\ UNCHANGED <<process, trail, sent, slips>>

\* An entry of another mission pushes the oldest one off, or takes its place in an
\* answer, which "Forget all" shortens too.
Crowded ==
  /\ activity # <<>> /\ activity' = Tail(activity)
  /\ UNCHANGED <<process, trail, sent, missed, slips>>

Next ==
  \/ \E e \in owed : Published(e)
  \/ Claimed \/ ToolEnds \/ VerificationFails \/ Verifying \/ Completed \/ RunEnds
  \/ CancelledByUser
  \/ \E tool \in Tools : ToolStarts(tool)
  \/ Streamed \/ Repeated \/ Overlooked \/ Refreshed \/ Crowded

Spec == Init /\ [][Next]_vars
-------------------------------------------------------------------------------
\* The list never outgrows its limit and has entries of the table only.  Every step has
\* its own key (React tells the rows apart by it).
TypeOK ==
  /\ agent \in {"waiting", "working", "completing", "done"} \cup Tools
  /\ missionStatus \in Status /\ goalSaysFailed \in BOOLEAN
  /\ owed \subseteq Entries /\ trail \in Seq(Entries) /\ Len(trail) <= MaxEvents
  /\ sent \in 0..Len(trail) /\ missed \in BOOLEAN /\ slips \in 0..MaxSlips
  /\ activity \in Seq(1..Len(trail)) /\ Len(activity) <= Limit
  /\ \A s, t \in Checklist : s.key = t.key => s = t

\* A page that shows a mission as completed and has been told of all its entries has no
\* step in progress on its card, whatever failed or was retried on the way, however many
\* entries came twice or have fallen off the list, and shows it as verified, also after
\* verifications that failed, unless its own goal speaks of a failure.  An answer that is
\* older than the list, and entries that were overlooked, do leave a card with a step in
\* progress, until the next answer (live.ts:47).
CompletedCard ==
  missionStatus = "Completed" /\ sent = Len(trail) /\ ~missed =>
    \A s \in Drawn :
      /\ s.stage # "active"
      /\ s.key = "verify" /\ ~goalSaysFailed => s.stage = "done"
===============================================================================
