------------------------------ MODULE EventStream ------------------------------
(***************************************************************************)
(* How a change of a mission leaves the Server.  Writers change the row    *)
(* and then Publish an event (SqliteEventBus); the Server's                *)
(* EventBroadcaster polls the events table from a watermark and sends each *)
(* event, and after the ones that announce a new status also the mission's *)
(* row, to every socket in EventHub.  The Server may crash at any          *)
(* statement, a pass may fail after reaching some sockets, and "Forget     *)
(* all" clears the trail under the broadcaster.                            *)
(*                                                                         *)
(* What the pages do with what they receive is not modelled, nor are       *)
(* approvals.  Of the events that are only shown (TOOL_*, VERIFYING, ...)  *)
(* MISSION_CREATED stands for all.  A message is sent to all sockets in    *)
(* one step; a send that throws has reached any of them.                   *)
(***************************************************************************)
EXTENDS Naturals, FiniteSets

CONSTANTS Missions,      \* mission ids
          Clients,       \* browser pages; each has at most one socket
          MaxFaults      \* bound: failing passes, broken sockets, crashes, lost events

ASSUME FiniteInstances == IsFiniteSet(Missions) /\ IsFiniteSet(Clients)
ASSUME BoundsAssumption == MaxFaults \in Nat

\* How far a row has come.  Ended stands for Completed, Failed and Cancelled;
\* an id has no row (NoRow) before Create, and a Deleted one after "Forget all".
NoRow == 0
Created == 1
Running == 2
Verifying == 3
Ended == 4
Deleted == 5
Rank == NoRow..Deleted

VARIABLES
  row,          \* [Missions -> Rank]: the missions table
  events,       \* the events table: records [id, mission, rank]
  lastEventId,  \* the AUTOINCREMENT counter of the events table
  unpublished,  \* <<mission, rank>>: rows written whose Publish is still to come
  forgetting,   \* a DELETE /api/memory has cleared the missions, not yet the events
  stage,        \* the broadcaster: "down", "idle", or its next step for an event
  lastId,       \* its watermark
  batch,        \* what is left of the list Since(lastId) returned
  loaded,       \* the row Get returned for the event being sent
  open,         \* clients whose socket is open
  hub,          \* those of them EventHub.Add has registered
  since,        \* history: the event at which the client's socket joined
  got,          \* history: the events sent over the socket
  told,         \* history: [Clients -> [Missions -> Rank]]: row sent last over it
  faults        \* counter for the bound

table   == <<row, events, lastEventId, unpublished, forgetting>>
caster  == <<stage, lastId, batch, loaded>>
history == <<since, got, told>>
sockets == <<open, hub, history>>
vars    == <<table, caster, sockets, faults>>

Event == [id : Nat, mission : Missions, rank : {Created, Running, Ended}]
Blank == [m \in Missions |-> NoRow]

\* A mutant: cancelled and other ended missions are not announced as states.
AnnouncesRunningOnly(e) == e.rank = Running

\* MissionStateEvents: MISSION_CREATED is not one of them.
AnnouncesState(e) == e.rank # Created
-------------------------------------------------------------------------------
Init ==
  /\ row = Blank /\ events = {} /\ lastEventId = 0
  /\ unpublished = {} /\ forgetting = FALSE
  /\ stage = "idle" /\ lastId = 0 /\ batch = {} /\ loaded = NoRow
  /\ open = {} /\ hub = {}
  /\ since = [c \in Clients |-> 0] /\ got = [c \in Clients |-> {}]
  /\ told = [c \in Clients |-> Blank]
  /\ faults = 0

Fault == faults < MaxFaults /\ faults' = faults + 1
-------------------------------------------------------------------------------
(* The writers: request handlers and the Worker. *)

\* The moves the user interface and the Worker make: create, claim, cancel,
\* begin completion (not announced), end.
Moves == {<<NoRow, Created>>, <<Created, Running>>, <<Created, Ended>>,
          <<Running, Verifying>>, <<Running, Ended>>, <<Verifying, Ended>>}

WriteRow(m, next) ==
  /\ <<row[m], next>> \in Moves
  /\ row' = [row EXCEPT ![m] = next]
  /\ unpublished' = IF next = Verifying THEN unpublished ELSE unpublished \cup {<<m, next>>}
  /\ UNCHANGED <<events, lastEventId, forgetting, caster, sockets, faults>>

\* A mutant: ids are taken from the rows that are left, not from a counter.
PublishReusingIds(m, rank) ==
  LET id == 1 + Cardinality(events) IN
  /\ <<m, rank>> \in unpublished
  /\ unpublished' = unpublished \ {<<m, rank>>}
  /\ lastEventId' = id
  /\ events' = events \cup {[id |-> id, mission |-> m, rank |-> rank]}
  /\ UNCHANGED <<row, forgetting, caster, sockets, faults>>

\* SqliteEventBus.Publish: one INSERT; ids grow and are never used again.
Publish(m, rank) ==
  LET id == lastEventId + 1 IN
  /\ <<m, rank>> \in unpublished
  /\ unpublished' = unpublished \ {<<m, rank>>}
  /\ lastEventId' = id
  /\ events' = events \cup {[id |-> id, mission |-> m, rank |-> rank]}
  /\ UNCHANGED <<row, forgetting, caster, sockets, faults>>

\* The writer dies, or its INSERT throws, before the event is there.
LosePublish(m, rank) ==
  /\ <<m, rank>> \in unpublished
  /\ unpublished' = unpublished \ {<<m, rank>>}
  /\ Fault
  /\ UNCHANGED <<row, events, lastEventId, forgetting, caster, sockets>>

\* DELETE /api/memory: ClearTerminal, then ClearAll.
ForgetMissions ==
  /\ ~forgetting
  /\ \E m \in Missions : row[m] = Ended
  /\ row' = [m \in Missions |-> IF row[m] = Ended THEN Deleted ELSE row[m]]
  /\ forgetting' = TRUE
  /\ UNCHANGED <<events, lastEventId, unpublished, caster, sockets, faults>>

ForgetEvents ==
  /\ forgetting
  /\ events' = {}
  /\ forgetting' = FALSE
  /\ UNCHANGED <<row, lastEventId, unpublished, caster, sockets, faults>>
-------------------------------------------------------------------------------
(* EventBroadcaster.ExecuteAsync and EventHub.SendAsync. *)

\* events.Since(lastId), when it finds something.
Poll ==
  /\ stage = "idle"
  /\ \E e \in events : e.id > lastId
  /\ batch' = {e \in events : e.id > lastId}
  /\ stage' = "activity"
  /\ UNCHANGED <<table, lastId, loaded, sockets, faults>>

\* A pass that finds nothing.
PollEmpty ==
  /\ stage = "idle"
  /\ \A e \in events : e.id <= lastId
  /\ UNCHANGED vars

\* A mutant: the query without its ORDER BY.
IsNextUnordered(e) == e \in batch

\* The events of a pass are handled in the order of their ids.
IsNext(e) == e \in batch /\ \A f \in batch : e.id <= f.id

\* lastId = evt.Sequence, and on to the next event of the list.
Advance(e) ==
  /\ lastId' = e.id
  /\ batch' = batch \ {e}
  /\ loaded' = NoRow
  /\ stage' = IF batch = {e} THEN "idle" ELSE "activity"

\* SendAsync of the activity entry to every socket of the hub.
SendActivity(e) ==
  /\ stage = "activity" /\ IsNext(e)
  /\ got' = [c \in Clients |-> IF c \in hub THEN got[c] \cup {e} ELSE got[c]]
  /\ IF AnnouncesState(e) THEN stage' = "load" /\ UNCHANGED <<lastId, batch, loaded>>
                          ELSE Advance(e)
  /\ UNCHANGED <<table, open, hub, since, told, faults>>

\* A mutant: the result of Get is used without the null check.
LoadMissionUnchecked(e) ==
  /\ stage = "load" /\ IsNext(e)
  /\ loaded' = row[e.mission]
  /\ stage' = "mission"
  /\ UNCHANGED <<lastId, batch, table, sockets, faults>>

\* A mutant: a null mission goes on with the list before the watermark has moved.
LoadMissionContinues(e) ==
  /\ stage = "load" /\ IsNext(e)
  /\ IF row[e.mission] = Deleted
       THEN /\ batch' = batch \ {e}
            /\ stage' = IF batch = {e} THEN "idle" ELSE "activity"
            /\ UNCHANGED <<lastId, loaded>>
       ELSE /\ loaded' = row[e.mission]
            /\ stage' = "mission"
            /\ UNCHANGED <<lastId, batch>>
  /\ UNCHANGED <<table, sockets, faults>>

\* missions.Get: a row that has been deleted is not sent.
LoadMission(e) ==
  /\ stage = "load" /\ IsNext(e)
  /\ IF row[e.mission] = Deleted
       THEN Advance(e)
       ELSE /\ loaded' = row[e.mission]
            /\ stage' = "mission"
            /\ UNCHANGED <<lastId, batch>>
  /\ UNCHANGED <<table, sockets, faults>>

\* The row reaches these sockets.
Send(e, reached) ==
  told' = [c \in Clients |->
    IF c \in reached THEN [told[c] EXCEPT ![e.mission] = loaded] ELSE told[c]]

\* SendAsync of the row.
SendMission(e) ==
  /\ stage = "mission" /\ IsNext(e)
  /\ Send(e, hub)
  /\ Advance(e)
  /\ UNCHANGED <<table, open, hub, since, got, faults>>

\* An exception inside the pass, after some sockets were reached: the catch ends
\* the pass and the next one starts from the same watermark.
PassFails ==
  /\ \E e \in batch, reached \in SUBSET hub :
       /\ IsNext(e)
       /\ \/ /\ stage = "activity"
             /\ got' = [c \in Clients |-> IF c \in reached THEN got[c] \cup {e} ELSE got[c]]
             /\ UNCHANGED told
          \/ stage = "load" /\ UNCHANGED <<told, got>>
          \/ stage = "mission" /\ Send(e, reached) /\ UNCHANGED got
  /\ Fault
  /\ stage' = "idle" /\ batch' = {} /\ loaded' = NoRow
  /\ UNCHANGED <<lastId, table, open, hub, since>>

\* The Server dies with its sockets and requests ...
ServerCrash ==
  /\ stage # "down"
  /\ Fault
  /\ stage' = "down" /\ batch' = {} /\ loaded' = NoRow
  /\ open' = {} /\ hub' = {}
  /\ since' = [c \in Clients |-> 0] /\ got' = [c \in Clients |-> {}]
  /\ told' = [c \in Clients |-> Blank]
  /\ forgetting' = FALSE
  /\ unpublished' \in SUBSET unpublished
  /\ UNCHANGED <<row, events, lastEventId, lastId>>

\* ... and is started again: the watermark is Recent(1), or 0 on an empty table.
ServerStart ==
  /\ stage = "down"
  /\ stage' = "idle"
  /\ lastId' \in {e.id : e \in events} \cup {0}
  /\ \A e \in events : e.id <= lastId'
  /\ UNCHANGED <<batch, loaded, table, sockets, faults>>
-------------------------------------------------------------------------------
(* The /ws handler of the Server. *)

\* AcceptWebSocketAsync: the page's connect() succeeds.
Connect(c) ==
  /\ stage # "down" /\ c \notin open
  /\ open' = open \cup {c}
  /\ UNCHANGED <<table, caster, hub, history, faults>>

\* hub.Add(socket): later events go to this socket too.
HubAdd(c) ==
  /\ c \in open \ hub
  /\ hub' = hub \cup {c}
  /\ IF stage \in {"load", "mission"}
       THEN \E e \in batch : IsNext(e) /\ since' = [since EXCEPT ![c] = e.id]
       ELSE since' = [since EXCEPT ![c] = lastId]
  /\ UNCHANGED <<table, caster, open, got, told, faults>>

\* The connection ends: the handler's finally removes the socket from the hub; an
\* entry whose socket is not Open receives nothing before that.
Disconnect(c) ==
  /\ c \in open
  /\ Fault
  /\ open' = open \ {c} /\ hub' = hub \ {c}
  /\ since' = [since EXCEPT ![c] = 0] /\ got' = [got EXCEPT ![c] = {}]
  /\ told' = [told EXCEPT ![c] = Blank]
  /\ UNCHANGED <<table, caster>>
-------------------------------------------------------------------------------
Store ==
  \/ \E m \in Missions, rank \in {Created, Running, Verifying, Ended} : WriteRow(m, rank)
  \/ \E w \in unpublished : Publish(w[1], w[2]) \/ LosePublish(w[1], w[2])
  \/ ForgetMissions \/ ForgetEvents

BroadcastStep ==
  \/ Poll \/ PollEmpty
  \/ \E e \in batch : SendActivity(e) \/ LoadMission(e) \/ SendMission(e)

Next ==
  \/ Store \/ BroadcastStep \/ PassFails \/ ServerCrash \/ ServerStart
  \/ \E c \in Clients : Connect(c) \/ HubAdd(c) \/ Disconnect(c)

Spec == Init /\ [][Next]_vars

\* Handlers run on to their Publish, the broadcaster polls for ever and its sends
\* end, and a dead Server is started again.  Nobody has to connect or forget.
FairSpec ==
  /\ Spec
  /\ WF_vars(\E w \in unpublished : Publish(w[1], w[2]))
  /\ WF_vars(BroadcastStep) /\ WF_vars(ServerStart)
-------------------------------------------------------------------------------
TypeOK ==
  /\ row \in [Missions -> Rank]
  /\ events \subseteq Event /\ lastEventId \in Nat
  /\ unpublished \subseteq Missions \X {Created, Running, Ended} /\ forgetting \in BOOLEAN
  /\ stage \in {"down", "idle", "activity", "load", "mission"}
  /\ lastId \in Nat /\ batch \subseteq Event /\ loaded \in NoRow..Ended
  /\ hub \subseteq open /\ open \subseteq Clients
  /\ since \in [Clients -> Nat] /\ got \in [Clients -> SUBSET Event]
  /\ told \in [Clients -> [Missions -> NoRow..Ended]]
  /\ faults \in Nat

\* An event the watermark has passed while the client's socket was registered.
Passed(c, e) == c \in hub /\ since[c] < e.id /\ e.id <= lastId

\* The watermark skips nothing: whatever passes failed or were repeated, however
\* often the trail was cleared, every event that is below the watermark and
\* younger than a socket was sent to that socket.
NothingSkipped ==
  \A c \in Clients, e \in events : Passed(c, e) => e \in got[c]

\* An announced status is not left behind by its row: once the watermark is past
\* an event, the socket has been sent a row at least as far as the event says,
\* although row and event are written and read by four separate statements.
RowsKeepUp ==
  \A c \in Clients, e \in events :
    Passed(c, e) /\ e.rank \in {Running, Ended} =>
      told[c][e.mission] >= e.rank \/ row[e.mission] = Deleted

\* Over one socket nothing goes back: events come in the order of their ids (the
\* last one may be repeated after a failing pass), and a mission's row is never
\* followed by an older one.
InOrder ==
  [][\A c \in Clients : c \in hub /\ c \in hub' =>
       /\ \A old \in got[c], new \in got'[c] \ got[c] : old.id < new.id
       /\ \A m \in Missions : told[c][m] <= told'[c][m]]_vars

\* Every event is handled: it falls below the watermark or is cleared, also when
\* passes fail and the Server is restarted.
EventsAreHandled ==
  \A m \in Missions, rank \in {Created, Running, Ended} :
    []<>~(\E e \in events : e.mission = m /\ e.rank = rank /\ e.id > lastId)

\* What the safety properties rest on.  An id is never used again.
Ids ==
  /\ lastId <= lastEventId
  /\ \A e \in events \cup batch : e.id <= lastEventId
  /\ \A e, f \in events \cup batch : e.id = f.id => e = f

\* The list being handled is all there is above the watermark, up to its youngest.
Watermark ==
  /\ stage \in {"idle", "down"} => batch = {}
  /\ stage = "down" => open = {}
  /\ \A e \in batch : lastId < e.id
  /\ \A f \in events, e \in batch : lastId < f.id /\ f.id <= e.id => f \in batch

\* What a socket was sent is below all that is still to be sent, apart from the
\* event being handled, which it has in the second half of its handling.
Sent ==
  /\ NothingSkipped
  /\ \A c \in Clients : \A g \in got[c] :
       /\ g.id <= lastEventId
       /\ \A e \in events \cup batch :
            (lastId < e.id => g.id <= e.id) /\ (g.id = e.id => g = e)
  /\ stage \in {"load", "mission"} =>
       \A e \in batch, c \in hub : IsNext(e) /\ since[c] < e.id => e \in got[c]

\* A row is never behind its events, nor a socket ahead of the row; the row about
\* to be sent lies between.
Rows ==
  /\ RowsKeepUp
  /\ \A e \in events \cup batch : e.rank <= row[e.mission]
  /\ \A w \in unpublished : w[2] <= row[w[1]]
  /\ \A c \in Clients, m \in Missions : told[c][m] <= row[m]
  /\ stage = "mission" =>
       \A e \in batch : IsNext(e) =>
         /\ e.rank <= loaded /\ loaded <= row[e.mission]
         /\ \A c \in Clients : told[c][e.mission] <= loaded
===============================================================================
