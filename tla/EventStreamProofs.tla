--------------------------- MODULE EventStreamProofs ---------------------------
(***************************************************************************)
(* For any missions, pages and faults: the stream keeps its types, skips   *)
(* no event, delivers in order, and never leaves a socket with a row that  *)
(* is older than an event it was sent.                                     *)
(*                                                                         *)
(* The four parts of the invariant are proved on top of each other: Ids,   *)
(* then Watermark, then Sent, then Rows.                                   *)
(***************************************************************************)
EXTENDS EventStream, TLAPS

USE DEF NoRow, Created, Running, Verifying, Ended, Deleted

\* A writer moves a row forward, and never one that has been deleted.
LEMMA MovesForward ==
  \A a, b : <<a, b>> \in Moves => a < b /\ a \in NoRow..Verifying /\ b \in Created..Ended
BY DEF Moves

\* The writers keep the types.
LEMMA TypeStore == TypeOK /\ Store => TypeOK'
<1> SUFFICES ASSUME TypeOK, Store PROVE TypeOK'
  OBVIOUS
<1> USE DEF TypeOK, table, caster, history, sockets, Rank, Event
<1>1. ASSUME NEW m \in Missions, NEW rank \in {Created, Running, Verifying, Ended},
             WriteRow(m, rank)
      PROVE  TypeOK'
  BY <1>1 DEF WriteRow
<1>2. ASSUME NEW w \in unpublished, Publish(w[1], w[2]) PROVE TypeOK'
  <2>1. w[1] \in Missions /\ w[2] \in {Created, Running, Ended}
    OBVIOUS
  <2>2. [id |-> lastEventId + 1, mission |-> w[1], rank |-> w[2]] \in Event
    BY <2>1
  <2>3. QED
    BY <1>2, <2>2 DEF Publish
<1>3. ASSUME NEW w \in unpublished, LosePublish(w[1], w[2]) PROVE TypeOK'
  BY <1>3 DEF LosePublish, Fault
<1>4. CASE ForgetMissions
  BY <1>4 DEF ForgetMissions
<1>5. CASE ForgetEvents
  BY <1>5 DEF ForgetEvents
<1>6. QED
  BY <1>1, <1>2, <1>3, <1>4, <1>5 DEF Store

\* So does the broadcaster.  The row it loads is not Deleted.
LEMMA TypeBroadcast == TypeOK /\ BroadcastStep => TypeOK'
<1> SUFFICES ASSUME TypeOK, BroadcastStep PROVE TypeOK'
  OBVIOUS
<1> USE DEF TypeOK, table, caster, history, sockets
<1>1. CASE Poll
  BY <1>1 DEF Poll
<1>2. CASE PollEmpty
  BY <1>2 DEF PollEmpty, vars
<1>3. ASSUME NEW e \in batch, SendActivity(e) PROVE TypeOK'
  <2>1. e \in Event /\ e.id \in Nat
    BY DEF Event
  <2>2. got' \in [Clients -> SUBSET Event]
    BY <1>3, <2>1 DEF SendActivity
  <2>3. QED
    BY <1>3, <2>1, <2>2 DEF SendActivity, Advance
<1>4. ASSUME NEW e \in batch, LoadMission(e) PROVE TypeOK'
  <2>1. e.id \in Nat /\ e.mission \in Missions
    BY DEF Event
  <2>2. row[e.mission] # Deleted => row[e.mission] \in NoRow..Ended
    BY <2>1 DEF Rank
  <2>3. QED
    BY <1>4, <2>1, <2>2 DEF LoadMission, Advance
<1>5. ASSUME NEW e \in batch, SendMission(e) PROVE TypeOK'
  <2>1. e.id \in Nat /\ e.mission \in Missions
    BY DEF Event
  <2>2. told' \in [Clients -> [Missions -> NoRow..Ended]]
    BY <1>5, <2>1 DEF SendMission, Send
  <2>3. QED
    BY <1>5, <2>1, <2>2 DEF SendMission, Advance
<1>6. QED
  BY <1>1, <1>2, <1>3, <1>4, <1>5 DEF BroadcastStep

\* And so do failures, restarts and the sockets.
LEMMA TypeRest ==
  ASSUME TypeOK,
         \/ PassFails \/ ServerCrash \/ ServerStart
         \/ \E c \in Clients : Connect(c) \/ HubAdd(c) \/ Disconnect(c)
  PROVE  TypeOK'
<1> USE DEF TypeOK, table, caster, history, sockets
<1>1. CASE PassFails
  <2>1. PICK e \in batch, reached \in SUBSET hub :
          \/ got' = [c \in Clients |-> IF c \in reached THEN got[c] \cup {e} ELSE got[c]]
             /\ UNCHANGED told
          \/ UNCHANGED <<told, got>>
          \/ Send(e, reached) /\ UNCHANGED got
    BY <1>1 DEF PassFails
  <2>2. e.mission \in Missions
    BY DEF Event
  <2>3. got' \in [Clients -> SUBSET Event] /\ told' \in [Clients -> [Missions -> NoRow..Ended]]
    BY <2>1, <2>2 DEF Send
  <2>4. QED
    BY <1>1, <2>3 DEF PassFails, Fault
<1>2. CASE ServerCrash
  <2>1. Blank \in [Missions -> NoRow..Ended]
    BY DEF Blank
  <2>2. got' \in [Clients -> SUBSET Event] /\ told' \in [Clients -> [Missions -> NoRow..Ended]]
    BY <1>2, <2>1 DEF ServerCrash
  <2>3. unpublished' \subseteq Missions \X {Created, Running, Ended} /\ since' \in [Clients -> Nat]
    BY <1>2 DEF ServerCrash
  <2>4. batch' \subseteq Event /\ hub' \subseteq open' /\ open' \subseteq Clients /\ forgetting' \in BOOLEAN
    BY <1>2 DEF ServerCrash
  <2>5. stage' \in {"down", "idle", "activity", "load", "mission"} /\ loaded' \in NoRow..Ended
        /\ faults' \in Nat
    BY <1>2 DEF ServerCrash, Fault
  <2>6. QED
    BY <1>2, <2>2, <2>3, <2>4, <2>5 DEF ServerCrash
<1>3. CASE ServerStart
  BY <1>3 DEF ServerStart, Event
<1>4. ASSUME NEW c \in Clients, Connect(c) PROVE TypeOK'
  BY <1>4 DEF Connect
<1>5. ASSUME NEW c \in Clients, HubAdd(c) PROVE TypeOK'
  BY <1>5 DEF HubAdd, Event
<1>6. ASSUME NEW c \in Clients, Disconnect(c) PROVE TypeOK'
  <2>1. Blank \in [Missions -> NoRow..Ended]
    BY DEF Blank
  <2>2. QED
    BY <1>6, <2>1 DEF Disconnect, Fault
<1>7. QED
  BY <1>1, <1>2, <1>3, <1>4, <1>5, <1>6

LEMMA TypeInit == Init => TypeOK
<1>1. Blank \in [Missions -> Rank] /\ Blank \in [Missions -> NoRow..Ended]
  BY DEF Blank, Rank
<1>2. Init => got \in [Clients -> SUBSET Event] /\ since \in [Clients -> Nat]
              /\ told \in [Clients -> [Missions -> NoRow..Ended]]
  BY <1>1 DEF Init
<1>3. Init => /\ events \subseteq Event /\ batch \subseteq Event
              /\ unpublished \subseteq Missions \X {Created, Running, Ended}
              /\ hub \subseteq open /\ open \subseteq Clients
  BY DEF Init
<1>4. Init => /\ row \in [Missions -> Rank]
              /\ stage \in {"down", "idle", "activity", "load", "mission"}
              /\ forgetting \in BOOLEAN
  BY <1>1 DEF Init
<1>5. Init => /\ loaded \in NoRow..Ended
              /\ lastId \in Nat /\ lastEventId \in Nat /\ faults \in Nat
  BY DEF Init
<1>6. QED
  BY <1>2, <1>3, <1>4, <1>5 DEF TypeOK

LEMMA TypeStep == TypeOK /\ [Next]_vars => TypeOK'
<1>1. TypeOK /\ UNCHANGED vars => TypeOK'
  BY DEF TypeOK, vars, table, caster, history, sockets
<1>2. QED
  BY <1>1, TypeStore, TypeBroadcast, TypeRest DEF Next

\* The stream keeps its types.
THEOREM StreamTypeOK == Spec => []TypeOK
<1>1. QED
  BY TypeInit, TypeStep, PTL DEF Spec

\* All a step can do to the trail and the list taken from it: append an event,
\* clear the trail, take a list, go past its first event, drop it, or set the
\* watermark to the youngest event.
Append == \E w \in unpublished :
  /\ events' = events \cup {[id |-> lastEventId + 1, mission |-> w[1], rank |-> w[2]]}
  /\ lastEventId' = lastEventId + 1 /\ UNCHANGED <<batch, lastId>>
Clear == events' = {} /\ UNCHANGED <<lastEventId, batch, lastId>>
Take == batch' = {e \in events : e.id > lastId} /\ UNCHANGED <<events, lastEventId, lastId>>
GoPast == \E e \in batch : IsNext(e) /\ Advance(e) /\ UNCHANGED <<events, lastEventId>>
Drop == batch' = {} /\ UNCHANGED <<events, lastEventId, lastId>>
SkipAll ==
  /\ stage = "down" /\ lastId' \in {e.id : e \in events} \cup {0}
  /\ \A e \in events : e.id <= lastId'
  /\ UNCHANGED <<events, lastEventId, batch>>
Keep == UNCHANGED <<events, lastEventId, batch, lastId>>

LEMMA TrailStep ==
  [Next]_vars => Append \/ Clear \/ Take \/ GoPast \/ Drop \/ SkipAll \/ Keep
<1> USE DEF table, caster, history, sockets
<1>1. Store => Append \/ Clear \/ Keep
  <2>1. ASSUME NEW w \in unpublished, Publish(w[1], w[2]) PROVE Append
    BY <2>1 DEF Publish, Append
  <2>2. ForgetEvents => Clear
    BY DEF ForgetEvents, Clear
  <2>3. QED
    BY <2>1, <2>2 DEF Store, WriteRow, LosePublish, ForgetMissions, Keep
<1>2. BroadcastStep => Take \/ GoPast \/ Keep
  <2>1. Poll => Take
    BY DEF Poll, Take
  <2>2. PollEmpty => Keep
    BY DEF PollEmpty, Keep, vars
  <2>3. ASSUME NEW e \in batch, SendActivity(e) \/ LoadMission(e) \/ SendMission(e)
        PROVE  GoPast \/ Keep
    BY <2>3 DEF SendActivity, LoadMission, SendMission, GoPast, Keep
  <2>4. QED
    BY <2>1, <2>2, <2>3 DEF BroadcastStep
<1>3. PassFails \/ ServerCrash => Drop
  BY DEF PassFails, ServerCrash, Drop
<1>4. ServerStart => SkipAll
  BY DEF ServerStart, SkipAll
<1>5. ASSUME NEW c \in Clients, Connect(c) \/ HubAdd(c) \/ Disconnect(c) PROVE Keep
  BY <1>5 DEF Connect, HubAdd, Disconnect, Keep
<1>6. UNCHANGED vars => Keep
  BY DEF vars, Keep
<1>7. QED
  BY <1>1, <1>2, <1>3, <1>4, <1>5, <1>6 DEF Next

\* Every event has an id and a rank that are numbers, and a mission.
LEMMA EventFields ==
  \A e \in Event : e.id \in Nat /\ e.rank \in Created..Ended /\ e.mission \in Missions
BY DEF Event

LEMMA IdsStep == TypeOK /\ Ids /\ [Next]_vars => Ids'
<1> SUFFICES ASSUME TypeOK, Ids, [Next]_vars PROVE Ids'
  OBVIOUS
<1>1. events \subseteq Event /\ batch \subseteq Event /\ lastEventId \in Nat /\ lastId \in Nat
  BY DEF TypeOK
<1> USE <1>1, EventFields DEF Ids
<1>2. CASE Append
  BY <1>2 DEF Append
<1>3. CASE Clear \/ Drop \/ Keep
  BY <1>3 DEF Clear, Drop, Keep
<1>4. CASE Take
  BY <1>4 DEF Take
<1>5. CASE GoPast
  BY <1>5 DEF GoPast, Advance
<1>6. CASE SkipAll
  BY <1>6 DEF SkipAll
<1>7. QED
  BY <1>2, <1>3, <1>4, <1>5, <1>6, TrailStep

\* The stage and the sockets fit the list.
LEMMA StageStep ==
  ASSUME TypeOK, Watermark, [Next]_vars
  PROVE  /\ stage' \in {"idle", "down"} => batch' = {}
         /\ stage' = "down" => open' = {}
<1> USE DEF Watermark, table, caster, history, sockets
<1>1. CASE Store
  BY <1>1 DEF Store, WriteRow, Publish, LosePublish, ForgetMissions, ForgetEvents
<1>2. CASE BroadcastStep
  BY <1>2 DEF BroadcastStep, Poll, PollEmpty, SendActivity, LoadMission, SendMission, Advance, vars
<1>3. CASE PassFails \/ ServerCrash \/ ServerStart
  BY <1>3 DEF PassFails, ServerCrash, ServerStart
<1>4. ASSUME NEW c \in Clients, Connect(c) \/ HubAdd(c) \/ Disconnect(c)
      PROVE  /\ stage' \in {"idle", "down"} => batch' = {}
             /\ stage' = "down" => open' = {}
  BY <1>4 DEF Connect, HubAdd, Disconnect
<1>5. CASE UNCHANGED vars
  BY <1>5 DEF vars
<1>6. QED
  BY <1>1, <1>2, <1>3, <1>4, <1>5 DEF Next

LEMMA WatermarkStep == TypeOK /\ Ids /\ Watermark /\ [Next]_vars => Watermark'
<1> SUFFICES ASSUME TypeOK, Ids, Watermark, [Next]_vars PROVE Watermark'
  OBVIOUS
<1> DEFINE Above == \A e \in batch : lastId < e.id
           Whole == \A f \in events, e \in batch : lastId < f.id /\ f.id <= e.id => f \in batch
<1>1. events \subseteq Event /\ batch \subseteq Event /\ lastEventId \in Nat /\ lastId \in Nat
  BY DEF TypeOK
<1>2. Above' /\ Whole'
  <2> USE <1>1, EventFields DEF Ids, Watermark
  <2>1. CASE Append
    BY <2>1 DEF Append
  <2>2. CASE Clear \/ Drop \/ Keep
    BY <2>2 DEF Clear, Drop, Keep
  <2>3. CASE Take
    BY <2>3 DEF Take
  <2>4. CASE GoPast
    BY <2>4 DEF GoPast, Advance, IsNext
  <2>5. CASE SkipAll
    BY <2>5 DEF SkipAll
  <2>6. QED
    BY <2>1, <2>2, <2>3, <2>4, <2>5, TrailStep
<1>3. QED
  BY <1>2, StageStep DEF Watermark

LEMMA TrailInvariant == Spec => [](TypeOK /\ Ids /\ Watermark)
<1>1. Init => Ids /\ Watermark
  BY DEF Init, Ids, Watermark
<1>2. TypeOK /\ Ids /\ Watermark /\ [Next]_vars => (TypeOK /\ Ids /\ Watermark)'
  BY TypeStep, IdsStep, WatermarkStep
<1>3. QED
  BY TypeInit, <1>1, <1>2, PTL DEF Spec

\* Between the watermark and the event being handled there is nothing.
LEMMA NothingBetween ==
  ASSUME TypeOK, Ids, Watermark, NEW e \in batch, IsNext(e),
         NEW f \in events, lastId < f.id, f.id <= e.id
  PROVE  f = e
<1>1. f \in batch
  BY DEF Watermark
<1>2. e.id \in Nat /\ f.id \in Nat
  BY <1>1, EventFields DEF TypeOK
<1>3. e.id <= f.id
  BY <1>1 DEF IsNext
<1>4. e.id = f.id
  BY <1>2, <1>3
<1>5. QED
  BY <1>1, <1>4 DEF Ids

\* What the sockets have been sent, under each step.
LEMMA GotGrows ==
  ASSUME TypeOK, [Next]_vars
  PROVE  \/ UNCHANGED got
         \/ /\ \E e \in batch, reached \in SUBSET hub :
                 /\ IsNext(e)
                 /\ got' = [c \in Clients |-> IF c \in reached THEN got[c] \cup {e} ELSE got[c]]
            /\ UNCHANGED <<hub, since>> /\ UNCHANGED <<events, lastEventId>>
         \/ \A c \in Clients : got'[c] \in {{}, got[c]}
<1> USE DEF table, caster, history, sockets, TypeOK
<1>1. CASE Store
  BY <1>1 DEF Store, WriteRow, Publish, LosePublish, ForgetMissions, ForgetEvents
<1>2. CASE BroadcastStep
  <2>1. ASSUME NEW e \in batch, SendActivity(e)
        PROVE  /\ \E reached \in SUBSET hub :
                    got' = [c \in Clients |-> IF c \in reached THEN got[c] \cup {e} ELSE got[c]]
               /\ IsNext(e) /\ UNCHANGED <<hub, since>> /\ UNCHANGED <<events, lastEventId>>
    BY <2>1 DEF SendActivity
  <2>2. ASSUME NEW e \in batch, LoadMission(e) \/ SendMission(e) PROVE UNCHANGED got
    BY <2>2 DEF LoadMission, SendMission
  <2>3. QED
    BY <1>2, <2>1, <2>2 DEF BroadcastStep, Poll, PollEmpty, vars
<1>3. CASE PassFails
  BY <1>3 DEF PassFails
<1>4. CASE ServerCrash \/ ServerStart
  BY <1>4 DEF ServerCrash, ServerStart
<1>5. ASSUME NEW c \in Clients, Connect(c) \/ HubAdd(c) PROVE UNCHANGED got
  BY <1>5 DEF Connect, HubAdd
<1>6. ASSUME NEW c \in Clients, Disconnect(c) PROVE \A d \in Clients : got'[d] \in {{}, got[d]}
  BY <1>6 DEF Disconnect
<1>7. CASE UNCHANGED vars
  BY <1>7 DEF vars
<1>8. QED
  BY <1>1, <1>2, <1>3, <1>4, <1>5, <1>6, <1>7 DEF Next

\* The second conjunct of Sent: what a socket has is below what is still to come.
Below ==
  \A c \in Clients : \A g \in got[c] :
    /\ g.id <= lastEventId
    /\ \A e \in events \cup batch :
         (lastId < e.id => g.id <= e.id) /\ (g.id = e.id => g = e)

LEMMA BelowStep ==
  ASSUME TypeOK, Ids, Watermark, Below, [Next]_vars
  PROVE  Below'
<1>1. /\ events \subseteq Event /\ batch \subseteq Event
      /\ lastEventId \in Nat /\ lastId \in Nat
      /\ \A c \in Clients : got[c] \subseteq Event
  BY DEF TypeOK
<1> USE <1>1, EventFields
\* The trail changes, the sockets do not.
<1>2. ASSUME UNCHANGED got \/ \A c \in Clients : got'[c] \in {{}, got[c]} PROVE Below'
  <2>1. SUFFICES ASSUME NEW c \in Clients, NEW g \in got[c]
                 PROVE  /\ g.id <= lastEventId'
                        /\ \A e \in (events \cup batch)' :
                             (lastId' < e.id => g.id <= e.id) /\ (g.id = e.id => g = e)
    BY <1>2 DEF Below
  <2>2. /\ g.id \in Nat /\ g.id <= lastEventId
        /\ \A e \in events \cup batch : (lastId < e.id => g.id <= e.id) /\ (g.id = e.id => g = e)
    BY DEF Below
  <2>3. CASE Append
    BY <2>2, <2>3 DEF Append
  <2>4. CASE Clear \/ Drop \/ Keep
    BY <2>2, <2>4 DEF Clear, Drop, Keep
  <2>5. CASE Take
    BY <2>2, <2>5 DEF Take
  <2>6. CASE GoPast
    BY <2>2, <2>6 DEF GoPast, Advance, Watermark
  <2>7. CASE SkipAll
    BY <2>2, <2>7, StageStep DEF SkipAll, Watermark
  <2>8. QED
    BY <2>3, <2>4, <2>5, <2>6, <2>7, TrailStep
\* The event being handled reaches some of them.
<1>3. ASSUME NEW e \in batch, IsNext(e), UNCHANGED <<events, lastEventId>>,
             NEW reached \in SUBSET hub,
             got' = [c \in Clients |-> IF c \in reached THEN got[c] \cup {e} ELSE got[c]]
      PROVE  Below'
  <2>1. e.id \in Nat /\ e.id <= lastEventId /\ lastId < e.id
    BY DEF Ids, Watermark
  <2>2. \A f \in events \cup batch : (lastId < f.id => e.id <= f.id) /\ (e.id = f.id => e = f)
    <3>1. \A f \in batch : e.id <= f.id
      BY <1>3 DEF IsNext
    <3>2. ASSUME NEW f \in events, lastId < f.id PROVE e.id <= f.id
      <4>1. CASE f \in batch
        BY <4>1, <3>1
      <4>2. CASE f \notin batch
        BY <3>2, <4>2 DEF Watermark
      <4>3. QED
        BY <4>1, <4>2
    <3>3. QED
      BY <3>1, <3>2 DEF Ids
  <2>3. (events \cup batch)' \subseteq events \cup batch /\ (lastId' = lastId \/ lastId' = e.id)
    <3>1. ASSUME NEW f \in batch, IsNext(f), lastId' = f.id PROVE lastId' = e.id
      BY <1>3, <3>1 DEF IsNext
    <3>2. CASE GoPast
      BY <1>3, <3>1, <3>2 DEF GoPast, Advance
    <3>3. CASE Append
      BY <1>3, <3>3 DEF Append
    <3>4. CASE Clear \/ Take \/ Drop \/ Keep
      BY <1>3, <3>4 DEF Clear, Take, Drop, Keep
    <3>5. CASE SkipAll
      BY <1>3, <3>5 DEF SkipAll, Watermark
    <3>6. QED
      BY <3>2, <3>3, <3>4, <3>5, TrailStep
  <2>4. SUFFICES ASSUME NEW c \in Clients, NEW g \in got[c] \cup {e}
                 PROVE  /\ g.id <= lastEventId
                        /\ \A f \in events \cup batch :
                             (lastId' < f.id => g.id <= f.id) /\ (g.id = f.id => g = f)
    BY <1>3, <2>3 DEF Below
  <2>5. CASE g = e
    BY <2>1, <2>2, <2>3, <2>5
  <2>6. CASE g \in got[c]
    BY <2>1, <2>3, <2>6 DEF Below
  <2>7. QED
    BY <2>4, <2>5, <2>6
<1>4. QED
  BY <1>2, <1>3, GotGrows

\* The third conjunct of Sent: in the second half of its handling, an event has
\* been sent to every socket older than it.
InHand ==
  stage \in {"load", "mission"} =>
    \A e \in batch, c \in hub : IsNext(e) /\ since[c] < e.id => e \in got[c]

\* The first event of the list is the only first one.
LEMMA OneNext ==
  ASSUME TypeOK, Ids, NEW e \in batch, NEW f \in batch, IsNext(e), IsNext(f)
  PROVE  e = f
<1>1. e.id \in Nat /\ f.id \in Nat
  BY EventFields DEF TypeOK
<1>2. e.id <= f.id /\ f.id <= e.id
  BY DEF IsNext
<1>3. QED
  BY <1>1, <1>2 DEF Ids

LEMMA InHandStep ==
  ASSUME TypeOK, Ids, Watermark, InHand, [Next]_vars
  PROVE  InHand'
<1> USE DEF table, caster, history, sockets
<1>1. CASE Store
  <2>1. UNCHANGED <<stage, batch, hub, since, got>>
    BY <1>1 DEF Store, WriteRow, Publish, LosePublish, ForgetMissions, ForgetEvents
  <2>2. QED
    BY <2>1 DEF InHand, IsNext
<1>2. ASSUME NEW e \in batch, SendActivity(e) PROVE InHand'
  <2>1. CASE AnnouncesState(e)
    <3>1. batch' = batch /\ IsNext(e) /\ UNCHANGED <<hub, since>>
      BY <1>2, <2>1 DEF SendActivity
    <3>2. \A c \in hub : e \in got'[c]
      BY <1>2 DEF SendActivity, TypeOK
    <3>3. QED
      BY <3>1, <3>2, OneNext DEF InHand, IsNext
  <2>2. CASE ~AnnouncesState(e)
    BY <1>2, <2>2 DEF SendActivity, Advance, InHand
  <2>3. QED
    BY <2>1, <2>2
<1>3. ASSUME NEW e \in batch, LoadMission(e) PROVE InHand'
  BY <1>3 DEF LoadMission, Advance, InHand, IsNext
<1>4. ASSUME NEW e \in batch, SendMission(e) PROVE InHand'
  BY <1>4 DEF SendMission, Advance, InHand
<1>5. CASE Poll \/ PollEmpty
  BY <1>5 DEF Poll, PollEmpty, vars, InHand
<1>6. CASE PassFails \/ ServerCrash \/ ServerStart
  BY <1>6 DEF PassFails, ServerCrash, ServerStart, InHand
<1>7. ASSUME NEW c \in Clients, Connect(c) PROVE InHand'
  BY <1>7 DEF Connect, InHand, IsNext
<1>8. ASSUME NEW c \in Clients, HubAdd(c) PROVE InHand'
  <2>1. SUFFICES ASSUME stage' \in {"load", "mission"}, NEW e \in batch', NEW d \in hub',
                        IsNext(e)', since'[d] < e.id
                 PROVE  e \in got'[d]
    BY DEF InHand
  <2>2. UNCHANGED <<stage, batch, got>> /\ hub' = hub \cup {c}
    BY <1>8 DEF HubAdd
  <2>3. CASE d = c
    <3>1. PICK f \in batch : IsNext(f) /\ since' = [since EXCEPT ![c] = f.id]
      BY <1>8, <2>1, <2>2 DEF HubAdd
    <3>2. e = f
      BY <2>1, <2>2, <3>1, OneNext DEF IsNext
    <3>3. since'[d] = e.id /\ e.id \in Nat
      BY <2>2, <2>3, <3>1, <3>2, EventFields DEF TypeOK
    <3>4. QED
      BY <2>1, <3>3
  <2>4. CASE d # c
    <3>1. d \in hub /\ since'[d] = since[d]
      BY <1>8, <2>2, <2>4 DEF HubAdd, TypeOK
    <3>2. QED
      BY <2>1, <2>2, <3>1 DEF InHand, IsNext
  <2>5. QED
    BY <2>3, <2>4
<1>9. ASSUME NEW c \in Clients, Disconnect(c) PROVE InHand'
  BY <1>9 DEF Disconnect, InHand, IsNext, TypeOK
<1>10. CASE UNCHANGED vars
  BY <1>10 DEF vars, InHand, IsNext
<1>11. QED
  BY <1>1, <1>2, <1>3, <1>4, <1>5, <1>6, <1>7, <1>8, <1>9, <1>10 DEF Next, BroadcastStep

\* When the watermark goes past an event, that one alone falls below it.
LEMMA PassedGrows ==
  ASSUME TypeOK, Ids, Watermark, NEW e \in batch, IsNext(e), Advance(e),
         UNCHANGED <<events, hub, since>>,
         NEW c \in Clients, NEW f \in events, Passed(c, f)'
  PROVE  Passed(c, f) \/ (f = e /\ c \in hub /\ since[c] < e.id)
<1>1. c \in hub /\ since[c] < f.id /\ f.id <= e.id
  BY DEF Passed, Advance
<1>2. CASE f.id <= lastId
  BY <1>1, <1>2 DEF Passed
<1>3. CASE lastId < f.id
  BY <1>1, <1>3, NothingBetween
<1>4. f.id \in Nat /\ lastId \in Nat
  BY EventFields DEF TypeOK
<1>5. QED
  BY <1>2, <1>3, <1>4

\* An event that is appended has not been passed by the watermark.
LEMMA AppendedIsAhead ==
  ASSUME TypeOK, Ids, Store, NEW c \in Clients, NEW e \in events', Passed(c, e)'
  PROVE  Passed(c, e) /\ e \in events
<1> USE DEF table, caster, history, sockets
<1>1. UNCHANGED <<hub, since, lastId>>
  BY DEF Store, WriteRow, Publish, LosePublish, ForgetMissions, ForgetEvents
<1>2. CASE e \in events
  BY <1>1, <1>2 DEF Passed
<1>3. CASE e \notin events
  <2>1. e.id = lastEventId + 1
    <3>1. ASSUME NEW w \in unpublished, Publish(w[1], w[2]) PROVE e.id = lastEventId + 1
      BY <1>3, <3>1 DEF Publish
    <3>2. QED
      BY <1>3, <3>1 DEF Store, WriteRow, LosePublish, ForgetMissions, ForgetEvents
  <2>2. e.id <= lastId
    BY <1>1 DEF Passed
  <2>3. QED
    BY <2>1, <2>2 DEF Ids, TypeOK
<1>4. QED
  BY <1>2, <1>3

\* A socket that joins has not missed anything yet.
LEMMA JoinsAtWatermark ==
  ASSUME TypeOK, Watermark, NEW c \in Clients, HubAdd(c), NEW e \in events
  PROVE  ~Passed(c, e)'
<1>1. lastId' = lastId /\ lastId <= since'[c]
  BY EventFields DEF HubAdd, TypeOK, Watermark, caster
<1>2. e.id \in Nat /\ lastId \in Nat /\ since'[c] \in Nat
  BY EventFields DEF HubAdd, TypeOK
<1>3. QED
  BY <1>1, <1>2 DEF Passed

LEMMA NothingSkippedStep ==
  ASSUME TypeOK, Ids, Watermark, NothingSkipped, InHand, [Next]_vars
  PROVE  NothingSkipped'
<1> SUFFICES ASSUME NEW c \in Clients, NEW e \in events', Passed(c, e)'
             PROVE  e \in got'[c]
  BY DEF NothingSkipped
<1> USE DEF table, caster, history, sockets
<1>1. CASE Store
  <2>1. got' = got
    BY <1>1 DEF Store, WriteRow, Publish, LosePublish, ForgetMissions, ForgetEvents
  <2>2. QED
    BY <1>1, <2>1, AppendedIsAhead DEF NothingSkipped
<1>2. ASSUME NEW f \in batch, SendActivity(f) PROVE e \in got'[c]
  <2>1. events' = events /\ hub' = hub /\ since' = since /\ IsNext(f)
    BY <1>2 DEF SendActivity
  <2>2. got'[c] = IF c \in hub THEN got[c] \cup {f} ELSE got[c]
    BY <1>2 DEF SendActivity
  <2>3. CASE AnnouncesState(f)
    BY <1>2, <2>1, <2>2, <2>3 DEF SendActivity, NothingSkipped, Passed
  <2>4. CASE ~AnnouncesState(f)
    BY <1>2, <2>1, <2>2, <2>4, PassedGrows DEF SendActivity, NothingSkipped
  <2>5. QED
    BY <2>3, <2>4
<1>3. ASSUME NEW f \in batch, LoadMission(f) \/ SendMission(f) PROVE e \in got'[c]
  <2>1. /\ events' = events /\ hub' = hub /\ since' = since /\ got' = got
        /\ IsNext(f) /\ stage \in {"load", "mission"}
        /\ Advance(f) \/ lastId' = lastId
    BY <1>3 DEF LoadMission, SendMission
  <2>2. CASE Advance(f)
    BY <2>1, <2>2, PassedGrows DEF NothingSkipped, InHand
  <2>3. CASE lastId' = lastId
    BY <2>1, <2>3 DEF NothingSkipped, Passed
  <2>4. QED
    BY <2>1, <2>2, <2>3
<1>4. CASE Poll \/ PollEmpty
  BY <1>4 DEF Poll, PollEmpty, vars, NothingSkipped, Passed
<1>5. CASE PassFails
  <2>1. events' = events /\ hub' = hub /\ since' = since /\ lastId' = lastId
    BY <1>5 DEF PassFails
  <2>2. got[c] \subseteq got'[c]
    BY <1>5 DEF PassFails, TypeOK
  <2>3. QED
    BY <2>1, <2>2 DEF NothingSkipped, Passed
<1>6. CASE ServerCrash
  BY <1>6 DEF ServerCrash, Passed
<1>7. CASE ServerStart
  BY <1>7 DEF ServerStart, Passed, Watermark, TypeOK
<1>8. ASSUME NEW d \in Clients, Connect(d) PROVE e \in got'[c]
  BY <1>8 DEF Connect, NothingSkipped, Passed
<1>9. ASSUME NEW d \in Clients, HubAdd(d) PROVE e \in got'[c]
  BY <1>9, JoinsAtWatermark DEF HubAdd, NothingSkipped, Passed, TypeOK
<1>10. ASSUME NEW d \in Clients, Disconnect(d) PROVE e \in got'[c]
  BY <1>10 DEF Disconnect, NothingSkipped, Passed, TypeOK
<1>11. CASE UNCHANGED vars
  BY <1>11 DEF vars, NothingSkipped, Passed
<1>12. QED
  BY <1>1, <1>2, <1>3, <1>4, <1>5, <1>6, <1>7, <1>8, <1>9, <1>10, <1>11 DEF Next, BroadcastStep

\* Nothing that is below the watermark, and nothing the sockets have, is still to come.
LEMMA SentInvariant == Spec => [](TypeOK /\ Ids /\ Watermark /\ Sent)
<1>1. Sent <=> NothingSkipped /\ Below /\ InHand
  BY DEF Sent, Below, InHand
<1>2. Init => NothingSkipped /\ Below /\ InHand
  BY DEF Init, NothingSkipped, Below, InHand
<1>3. TypeOK /\ Ids /\ Watermark /\ NothingSkipped /\ Below /\ InHand /\ [Next]_vars
        => (NothingSkipped /\ Below /\ InHand)'
  BY NothingSkippedStep, BelowStep, InHandStep
<1>4. QED
  BY <1>1, <1>2, <1>3, TrailInvariant, PTL DEF Spec

\* The watermark of EventBroadcaster never skips an event for a socket of the hub,
\* whatever fails, is repeated, or is cleared from the trail.
THEOREM StreamSkipsNothing == Spec => []NothingSkipped
<1>1. Sent => NothingSkipped
  BY DEF Sent
<1>2. QED
  BY <1>1, SentInvariant, PTL

\* Rows only move forward, and a deleted one stays deleted.
LEMMA RowGrows ==
  ASSUME TypeOK, [Next]_vars, NEW m \in Missions
  PROVE  row[m] <= row'[m] /\ (row[m] = Deleted => row'[m] = Deleted)
<1> USE DEF TypeOK, table, caster, history, sockets, Rank
<1>1. ASSUME NEW n \in Missions, NEW rank \in {Created, Running, Verifying, Ended},
             WriteRow(n, rank)
      PROVE  row[m] <= row'[m] /\ (row[m] = Deleted => row'[m] = Deleted)
  <2>1. row[n] < rank /\ row[n] \in NoRow..Verifying
    BY <1>1, MovesForward DEF WriteRow
  <2>2. QED
    BY <1>1, <2>1 DEF WriteRow
<1>2. CASE ForgetMissions
  BY <1>2 DEF ForgetMissions
<1>3. CASE UNCHANGED row
  BY <1>3
<1>4. Store => row' = row \/ ForgetMissions
        \/ \E n \in Missions, rank \in {Created, Running, Verifying, Ended} : WriteRow(n, rank)
  BY DEF Store, Publish, LosePublish, ForgetEvents
<1>5. BroadcastStep \/ PassFails \/ ServerCrash \/ ServerStart => row' = row
  BY DEF BroadcastStep, Poll, PollEmpty, SendActivity, LoadMission, SendMission, PassFails,
         ServerCrash, ServerStart, vars
<1>6. ASSUME NEW c \in Clients, Connect(c) \/ HubAdd(c) \/ Disconnect(c) PROVE row' = row
  BY <1>6 DEF Connect, HubAdd, Disconnect
<1>7. UNCHANGED vars => row' = row
  BY DEF vars
<1>8. QED
  BY <1>1, <1>2, <1>3, <1>4, <1>5, <1>6, <1>7 DEF Next

\* No event, published or not, is ahead of its row.
Behind ==
  /\ \A e \in events \cup batch : e.rank <= row[e.mission]
  /\ \A w \in unpublished : w[2] <= row[w[1]]

LEMMA BehindStep ==
  ASSUME TypeOK, Behind, [Next]_vars
  PROVE  Behind'
<1> USE DEF table, caster, history, sockets
<1>1. /\ \A e \in events \cup batch : e.mission \in Missions /\ e.rank \in Nat
      /\ \A w \in unpublished : w[1] \in Missions /\ w[2] \in Nat
      /\ \A m \in Missions : row[m] \in Nat /\ row'[m] \in Nat
  <2>1. \A e \in events \cup batch : e.mission \in Missions /\ e.rank \in Nat
    BY EventFields DEF TypeOK
  <2>2. \A w \in unpublished : w[1] \in Missions /\ w[2] \in Nat
    BY DEF TypeOK
  <2>3. \A m \in Missions : row[m] \in Nat
    BY DEF TypeOK, Rank
  <2>4. \A m \in Missions : row'[m] \in Nat
    BY TypeStep DEF TypeOK, Rank
  <2>5. QED
    BY <2>1, <2>2, <2>3, <2>4
<1>2. /\ \A e \in events \cup batch : e.rank <= row'[e.mission]
      /\ \A w \in unpublished : w[2] <= row'[w[1]]
  BY <1>1, RowGrows DEF Behind
<1>3. ASSUME NEW m \in Missions, NEW rank \in {Created, Running, Verifying, Ended},
             WriteRow(m, rank)
      PROVE  Behind'
  <2>1. row'[m] = rank
    BY <1>3 DEF WriteRow, TypeOK
  <2>2. events' = events /\ batch' = batch /\ unpublished' \subseteq unpublished \cup {<<m, rank>>}
    BY <1>3 DEF WriteRow
  <2>3. QED
    BY <1>2, <2>1, <2>2 DEF Behind
<1>4. ASSUME NEW w \in unpublished, Publish(w[1], w[2]) PROVE Behind'
  <2>1. /\ events' = events \cup {[id |-> lastEventId + 1, mission |-> w[1], rank |-> w[2]]}
        /\ batch' = batch /\ unpublished' \subseteq unpublished
    BY <1>4 DEF Publish
  <2>2. QED
    BY <1>2, <2>1 DEF Behind
<1>5. ASSUME events' \subseteq events, batch' \subseteq events \cup batch,
             unpublished' \subseteq unpublished
      PROVE  Behind'
  BY <1>2, <1>5 DEF Behind
<1>6. Store => \/ \E m \in Missions, rank \in {Created, Running, Verifying, Ended} : WriteRow(m, rank)
               \/ \E w \in unpublished : Publish(w[1], w[2])
               \/ events' \subseteq events /\ batch' = batch /\ unpublished' \subseteq unpublished
  BY DEF Store, LosePublish, ForgetMissions, ForgetEvents
<1>7. BroadcastStep => events' = events /\ batch' \subseteq events \cup batch /\ unpublished' = unpublished
  BY DEF BroadcastStep, Poll, PollEmpty, SendActivity, LoadMission, SendMission, Advance, vars
<1>8. PassFails \/ ServerCrash \/ ServerStart =>
        events' = events /\ batch' \subseteq batch /\ unpublished' \subseteq unpublished
  BY DEF PassFails, ServerCrash, ServerStart
<1>9. ASSUME NEW c \in Clients, Connect(c) \/ HubAdd(c) \/ Disconnect(c)
      PROVE  UNCHANGED <<events, batch, unpublished>>
  BY <1>9 DEF Connect, HubAdd, Disconnect
<1>10. UNCHANGED vars => UNCHANGED <<events, batch, unpublished>>
  BY DEF vars
<1>11. QED
  BY <1>3, <1>4, <1>5, <1>6, <1>7, <1>8, <1>9, <1>10 DEF Next

\* What the sockets have been told of the rows, under each step: nothing new, or
\* the loaded row of the event being handled, or they are gone.
LEMMA ToldBySending ==
  ASSUME TypeOK, [Next]_vars
  PROVE  \/ UNCHANGED told
         \/ /\ stage = "mission" /\ \E e \in batch, reached \in SUBSET hub :
                 /\ IsNext(e) /\ Send(e, reached)
            /\ UNCHANGED <<row, hub>> /\ stage' # "mission"
         \/ /\ \A c \in Clients : (told'[c] = Blank /\ c \notin hub') \/ told'[c] = told[c]
            /\ UNCHANGED row /\ (stage' = "down" \/ UNCHANGED <<stage, loaded, batch>>)
<1> USE DEF table, caster, history, sockets
<1>1. Store => UNCHANGED told
  BY DEF Store, WriteRow, Publish, LosePublish, ForgetMissions, ForgetEvents
<1>2. Poll \/ PollEmpty \/ ServerStart \/ UNCHANGED vars => UNCHANGED told
  BY DEF Poll, PollEmpty, ServerStart, vars
<1>3. ASSUME NEW e \in batch, SendActivity(e) \/ LoadMission(e) PROVE UNCHANGED told
  BY <1>3 DEF SendActivity, LoadMission
<1>4. ASSUME NEW e \in batch, SendMission(e)
      PROVE  /\ stage = "mission" /\ \E reached \in SUBSET hub : IsNext(e) /\ Send(e, reached)
             /\ UNCHANGED <<row, hub>> /\ stage' # "mission"
  BY <1>4 DEF SendMission, Advance
<1>5. CASE PassFails
  BY <1>5 DEF PassFails
<1>6. ASSUME NEW d \in Clients, Connect(d) \/ HubAdd(d) PROVE UNCHANGED told
  BY <1>6 DEF Connect, HubAdd
<1>7. ASSUME NEW d \in Clients, Disconnect(d)
      PROVE  /\ \A c \in Clients : (told'[c] = Blank /\ c \notin hub') \/ told'[c] = told[c]
             /\ UNCHANGED <<row, stage, loaded, batch>>
  BY <1>7 DEF Disconnect, TypeOK
<1>8. CASE ServerCrash
  BY <1>8 DEF ServerCrash
<1>9. QED
  BY <1>1, <1>2, <1>3, <1>4, <1>5, <1>6, <1>7, <1>8 DEF Next, BroadcastStep

\* No socket is ahead of a row, and the loaded row lies between what the sockets
\* have and what the row is by now.
NotAhead == \A c \in Clients, m \in Missions : told[c][m] <= row[m]
Between ==
  stage = "mission" =>
    \A e \in batch : IsNext(e) =>
      /\ e.rank <= loaded /\ loaded <= row[e.mission]
      /\ \A c \in Clients : told[c][e.mission] <= loaded

\* The ranks that are compared are numbers.
LEMMA Ranks ==
  ASSUME TypeOK
  PROVE  /\ \A m \in Missions : row[m] \in Nat
         /\ \A c \in Clients, m \in Missions : told[c][m] \in Nat
         /\ loaded \in Nat /\ Blank \in [Missions -> {0}]
         /\ \A e \in events \cup batch :
              e \in Event /\ e.id \in Nat /\ e.mission \in Missions /\ e.rank \in Created..Ended
<1>1. \A e \in events \cup batch : e \in Event
  BY DEF TypeOK
<1>2. \A m \in Missions : row[m] \in Nat
  BY DEF TypeOK, Rank
<1>3. \A c \in Clients, m \in Missions : told[c][m] \in Nat
  BY DEF TypeOK
<1>4. loaded \in Nat /\ Blank \in [Missions -> {0}]
  BY DEF TypeOK, Blank
<1>5. QED
  BY <1>1, <1>2, <1>3, <1>4, EventFields

\* Sending the loaded row moves no socket back, and each it reaches up to it.
LEMMA SendingRaises ==
  ASSUME TypeOK, Between, stage = "mission",
         NEW e \in batch, IsNext(e), NEW reached \in SUBSET hub, Send(e, reached),
         NEW c \in Clients, NEW m \in Missions
  PROVE  /\ told[c][m] <= told'[c][m]
         /\ c \in reached => told'[c][e.mission] = loaded
         /\ told'[c][m] = told[c][m] \/ (m = e.mission /\ told'[c][m] = loaded)
<1>1. e.mission \in Missions /\ told[c][m] \in Nat /\ loaded \in Nat
  BY Ranks
<1>2. told'[c] = IF c \in reached THEN [told[c] EXCEPT ![e.mission] = loaded] ELSE told[c]
  BY DEF Send
<1>3. told[c] \in [Missions -> NoRow..Ended]
  BY DEF TypeOK
<1>4. told[c][e.mission] <= loaded
  BY DEF Between
<1>5. QED
  BY <1>1, <1>2, <1>3, <1>4

LEMMA NotAheadStep ==
  ASSUME TypeOK, NotAhead, Between, [Next]_vars
  PROVE  NotAhead'
<1> SUFFICES ASSUME NEW c \in Clients, NEW m \in Missions PROVE told'[c][m] <= row'[m]
  BY DEF NotAhead
<1>1. /\ row[m] <= row'[m] /\ told[c][m] <= row[m]
      /\ told[c][m] \in Nat /\ row[m] \in Nat /\ row'[m] \in Nat
  <2>1. row[m] <= row'[m] /\ told[c][m] <= row[m]
    BY RowGrows DEF NotAhead
  <2>2. told[c][m] \in Nat /\ row[m] \in Nat
    BY Ranks
  <2>3. row'[m] \in Nat
    BY TypeStep DEF TypeOK, Rank
  <2>4. QED
    BY <2>1, <2>2, <2>3
<1>2. CASE told'[c] = told[c]
  BY <1>1, <1>2
<1>3. CASE told'[c] = Blank
  BY <1>1, <1>3 DEF Blank
<1>4. ASSUME stage = "mission", NEW e \in batch, NEW reached \in SUBSET hub,
             IsNext(e), Send(e, reached)
      PROVE  told'[c][m] <= row'[m]
  <2>1. loaded <= row[e.mission] /\ loaded \in Nat
    BY <1>4, Ranks DEF Between
  <2>2. QED
    BY <1>1, <1>4, <2>1, SendingRaises
<1>5. QED
  BY <1>2, <1>3, <1>4, ToldBySending

LEMMA BetweenStep ==
  ASSUME TypeOK, Ids, Behind, NotAhead, Between, [Next]_vars
  PROVE  Between'
<1> USE DEF table, caster, history, sockets
<1>1. ASSUME UNCHANGED <<stage, batch, loaded, told>> PROVE Between'
  <2>1. SUFFICES ASSUME stage = "mission", NEW e \in batch, IsNext(e)
                 PROVE  /\ e.rank <= loaded /\ loaded <= row'[e.mission]
                        /\ \A c \in Clients : told[c][e.mission] <= loaded
    BY <1>1 DEF Between, IsNext
  <2>2. /\ e.rank <= loaded /\ loaded <= row[e.mission]
        /\ \A c \in Clients : told[c][e.mission] <= loaded
    BY <2>1 DEF Between
  <2>3. row[e.mission] <= row'[e.mission]
    BY Ranks, RowGrows
  <2>4. e.mission \in Missions /\ row[e.mission] \in Nat /\ loaded \in Nat
    BY Ranks
  <2>5. row'[e.mission] \in Nat
    BY <2>4, TypeStep DEF TypeOK, Rank
  <2>6. QED
    BY <2>2, <2>3, <2>4, <2>5
<1>2. ASSUME stage' # "mission" PROVE Between'
  BY <1>2 DEF Between
<1>3. ASSUME NEW e \in batch, LoadMission(e), row[e.mission] # Deleted PROVE Between'
  <2>1. IsNext(e) /\ loaded' = row[e.mission] /\ UNCHANGED <<batch, row, told>>
    BY <1>3 DEF LoadMission
  <2>2. SUFFICES ASSUME NEW f \in batch, IsNext(f)
                 PROVE  /\ f.rank <= row[e.mission] /\ row[e.mission] <= row[f.mission]
                        /\ \A c \in Clients : told[c][f.mission] <= row[e.mission]
    BY <2>1 DEF Between, IsNext
  <2>3. f = e
    BY <2>1, <2>2, OneNext
  <2>4. e.mission \in Missions /\ row[e.mission] \in Nat
    BY Ranks
  <2>5. QED
    BY <2>3, <2>4 DEF Behind, NotAhead
<1>4. ASSUME NEW c \in Clients, Disconnect(c) PROVE Between'
  <2>1. UNCHANGED <<stage, batch, loaded, row>> /\ told' = [told EXCEPT ![c] = Blank]
    BY <1>4 DEF Disconnect
  <2>2. SUFFICES ASSUME stage = "mission", NEW e \in batch, IsNext(e), NEW d \in Clients
                 PROVE  told'[d][e.mission] <= loaded
    BY <2>1 DEF Between, IsNext
  <2>3. told[d][e.mission] <= loaded /\ e.mission \in Missions /\ loaded \in Nat
    BY <2>2, Ranks DEF Between
  <2>4. told'[d] = IF d = c THEN Blank ELSE told[d]
    BY <2>1 DEF TypeOK
  <2>5. QED
    BY <2>3, <2>4 DEF Blank
<1>5. CASE Store
  BY <1>1, <1>5 DEF Store, WriteRow, Publish, LosePublish, ForgetMissions, ForgetEvents
<1>6. CASE Poll \/ PollEmpty \/ UNCHANGED vars
  BY <1>1, <1>2, <1>6 DEF Poll, PollEmpty, vars
<1>7. ASSUME NEW e \in batch, SendActivity(e) \/ SendMission(e) PROVE Between'
  BY <1>2, <1>7 DEF SendActivity, SendMission, Advance
<1>8. ASSUME NEW e \in batch, LoadMission(e), row[e.mission] = Deleted PROVE Between'
  BY <1>2, <1>8 DEF LoadMission, Advance
<1>9. CASE PassFails \/ ServerCrash \/ ServerStart
  BY <1>2, <1>9 DEF PassFails, ServerCrash, ServerStart
<1>10. ASSUME NEW c \in Clients, Connect(c) \/ HubAdd(c) PROVE Between'
  BY <1>1, <1>10 DEF Connect, HubAdd
<1>11. QED
  BY <1>3, <1>4, <1>5, <1>6, <1>7, <1>8, <1>9, <1>10 DEF Next, BroadcastStep

LEMMA RowsKeepUpStep ==
  ASSUME TypeOK, Ids, Watermark, RowsKeepUp, Behind, NotAhead, Between, [Next]_vars
  PROVE  RowsKeepUp'
<1> SUFFICES ASSUME NEW c \in Clients, NEW e \in events', Passed(c, e)', e.rank \in {Running, Ended}
             PROVE  told'[c][e.mission] >= e.rank \/ row'[e.mission] = Deleted
  BY DEF RowsKeepUp
<1> USE DEF table, caster, history, sockets
\* An event that was below the watermark before the step, for a socket that still
\* has what it had.
<1>1. ASSUME e \in events, Passed(c, e), told[c][e.mission] <= told'[c][e.mission]
      PROVE  told'[c][e.mission] >= e.rank \/ row'[e.mission] = Deleted
  <2>1. told[c][e.mission] >= e.rank \/ row[e.mission] = Deleted
    BY <1>1 DEF RowsKeepUp
  <2>2. e.mission \in Missions /\ e.rank \in Nat /\ told[c][e.mission] \in Nat
    BY <1>1, Ranks
  <2>3. told'[c][e.mission] \in Nat
    BY <2>2, TypeStep DEF TypeOK
  <2>4. QED
    BY <1>1, <2>1, <2>2, <2>3, RowGrows
<1>2. ASSUME e \in events, Passed(c, e), UNCHANGED told
      PROVE  told'[c][e.mission] >= e.rank \/ row'[e.mission] = Deleted
  <2>1. told[c][e.mission] \in Nat
    BY <1>2, Ranks
  <2>2. QED
    BY <1>1, <1>2, <2>1
<1>3. CASE Store
  <2>1. UNCHANGED told
    BY <1>3 DEF Store, WriteRow, Publish, LosePublish, ForgetMissions, ForgetEvents
  <2>2. QED
    BY <1>2, <1>3, <2>1, AppendedIsAhead
<1>4. ASSUME NEW f \in batch, SendActivity(f)
      PROVE  told'[c][e.mission] >= e.rank \/ row'[e.mission] = Deleted
  <2>1. UNCHANGED <<events, hub, since, told>> /\ IsNext(f)
    BY <1>4 DEF SendActivity
  <2>2. CASE AnnouncesState(f)
    BY <1>2, <1>4, <2>1, <2>2 DEF SendActivity, Passed
  <2>3. CASE ~AnnouncesState(f)
    <3>1. e # f
      BY <2>3 DEF AnnouncesState
    <3>2. Advance(f)
      BY <1>4, <2>3 DEF SendActivity
    <3>3. QED
      BY <1>2, <2>1, <3>1, <3>2, PassedGrows
  <2>4. QED
    BY <2>2, <2>3
<1>5. ASSUME NEW f \in batch, LoadMission(f)
      PROVE  told'[c][e.mission] >= e.rank \/ row'[e.mission] = Deleted
  <2>1. UNCHANGED <<events, hub, since, told, row>> /\ IsNext(f)
    BY <1>5 DEF LoadMission
  <2>2. CASE row[f.mission] = Deleted
    <3>1. Advance(f)
      BY <1>5, <2>2 DEF LoadMission
    <3>2. QED
      BY <1>2, <2>1, <2>2, <3>1, PassedGrows
  <2>3. CASE row[f.mission] # Deleted
    BY <1>2, <1>5, <2>1, <2>3 DEF LoadMission, Passed
  <2>4. QED
    BY <2>2, <2>3
<1>6. ASSUME NEW f \in batch, SendMission(f)
      PROVE  told'[c][e.mission] >= e.rank \/ row'[e.mission] = Deleted
  <2>1. /\ UNCHANGED <<events, hub, since, row>> /\ IsNext(f) /\ Advance(f)
        /\ stage = "mission" /\ Send(f, hub)
    BY <1>6 DEF SendMission
  <2>2. e.mission \in Missions
    BY <2>1, Ranks
  <2>3. CASE e \in events /\ Passed(c, e)
    BY <1>1, <2>1, <2>2, <2>3, SendingRaises
  <2>4. CASE e = f /\ c \in hub
    <3>1. told'[c][e.mission] = loaded
      BY <2>1, <2>2, <2>4, SendingRaises
    <3>2. e.rank <= loaded
      BY <2>1, <2>4 DEF Between
    <3>3. QED
      BY <3>1, <3>2
  <2>5. QED
    BY <2>1, <2>3, <2>4, PassedGrows
<1>7. CASE Poll \/ PollEmpty \/ UNCHANGED vars
  BY <1>2, <1>7 DEF Poll, PollEmpty, vars, Passed
<1>8. CASE PassFails
  <2>1. e \in events /\ Passed(c, e)
    BY <1>8 DEF PassFails, Passed
  <2>2. CASE UNCHANGED told
    BY <1>2, <2>1, <2>2
  <2>3. CASE stage = "mission"
    <3>1. PICK f \in batch, reached \in SUBSET hub : IsNext(f) /\ Send(f, reached)
      BY <1>8, <2>3 DEF PassFails
    <3>2. e.mission \in Missions
      BY <2>1, Ranks
    <3>3. told[c][e.mission] <= told'[c][e.mission]
      BY <2>3, <3>1, <3>2, SendingRaises
    <3>4. QED
      BY <1>1, <2>1, <3>3
  <2>4. QED
    BY <1>8, <2>2, <2>3 DEF PassFails
<1>9. CASE ServerCrash
  BY <1>9 DEF ServerCrash, Passed
<1>10. CASE ServerStart
  BY <1>10 DEF ServerStart, Passed, Watermark, TypeOK
<1>11. ASSUME NEW d \in Clients, Connect(d)
       PROVE  told'[c][e.mission] >= e.rank \/ row'[e.mission] = Deleted
  BY <1>2, <1>11 DEF Connect, Passed
<1>12. ASSUME NEW d \in Clients, HubAdd(d)
       PROVE  told'[c][e.mission] >= e.rank \/ row'[e.mission] = Deleted
  <2>1. UNCHANGED <<events, told, lastId>> /\ hub' = hub \cup {d}
    BY <1>12 DEF HubAdd
  <2>2. c # d
    BY <1>12, <2>1, JoinsAtWatermark
  <2>3. QED
    BY <1>2, <1>12, <2>1, <2>2 DEF HubAdd, Passed, TypeOK
<1>13. ASSUME NEW d \in Clients, Disconnect(d)
       PROVE  told'[c][e.mission] >= e.rank \/ row'[e.mission] = Deleted
  <2>1. c # d /\ UNCHANGED <<events, lastId>> /\ told'[c] = told[c]
    BY <1>13 DEF Disconnect, Passed, TypeOK
  <2>2. Passed(c, e)
    BY <1>13, <2>1 DEF Disconnect, Passed, TypeOK
  <2>3. told[c][e.mission] \in Nat
    BY <2>1, Ranks
  <2>4. QED
    BY <1>1, <2>1, <2>2, <2>3
<1>14. QED
  BY <1>3, <1>4, <1>5, <1>6, <1>7, <1>8, <1>9, <1>10, <1>11, <1>12, <1>13 DEF Next, BroadcastStep

\* Rows, events and sockets stay in step.
LEMMA RowsInvariant == Spec => [](TypeOK /\ Ids /\ Watermark /\ Rows)
<1>1. Rows <=> RowsKeepUp /\ Behind /\ NotAhead /\ Between
  BY DEF Rows, Behind, NotAhead, Between
<1>2. Init => RowsKeepUp /\ Behind /\ NotAhead /\ Between
  BY DEF Init, RowsKeepUp, Behind, NotAhead, Between, Blank, NoRow
<1>3. TypeOK /\ Ids /\ Watermark /\ RowsKeepUp /\ Behind /\ NotAhead /\ Between /\ [Next]_vars
        => (RowsKeepUp /\ Behind /\ NotAhead /\ Between)'
  BY RowsKeepUpStep, BehindStep, NotAheadStep, BetweenStep
<1>4. QED
  BY <1>1, <1>2, <1>3, TrailInvariant, PTL DEF Spec

\* Once the watermark is past an event, every socket has been sent a row at least
\* as far as the event says, however the writes, the polls and the failures of
\* EventBroadcaster are interleaved.
THEOREM RowsAreKeptUp == Spec => []RowsKeepUp
<1>1. Rows => RowsKeepUp
  BY DEF Rows
<1>2. QED
  BY <1>1, RowsInvariant, PTL

\* What is sent over a socket is younger than all that was sent over it before.
LEMMA GotInOrder ==
  ASSUME TypeOK, Ids, Watermark, Below, [Next]_vars,
         NEW c \in Clients, NEW old \in got[c], NEW new \in got'[c] \ got[c]
  PROVE  old.id < new.id
<1>1. CASE UNCHANGED got \/ got'[c] \in {{}, got[c]}
  BY <1>1
<1>2. ASSUME NEW e \in batch, NEW reached \in SUBSET hub, IsNext(e),
             got' = [d \in Clients |-> IF d \in reached THEN got[d] \cup {e} ELSE got[d]]
      PROVE  old.id < new.id
  <2>1. new = e
    BY <1>2
  <2>2. lastId < e.id
    BY <1>2 DEF Watermark
  <2>3. old.id <= e.id /\ old.id # e.id
    BY <1>2, <2>1, <2>2 DEF Below
  <2>4. old.id \in Nat /\ e.id \in Nat
    <3>1. old \in Event /\ e \in Event
      BY <1>2 DEF TypeOK
    <3>2. QED
      BY <3>1, EventFields
  <2>5. QED
    BY <2>1, <2>3, <2>4
<1>3. QED
  BY <1>1, <1>2, GotGrows

\* No row a socket has is replaced by an older one while the socket is registered.
LEMMA ToldInOrder ==
  ASSUME TypeOK, Between, [Next]_vars,
         NEW c \in Clients, c \in hub', NEW m \in Missions
  PROVE  told[c][m] <= told'[c][m]
<1>1. told[c][m] \in Nat
  BY Ranks
<1>2. CASE told'[c] = told[c]
  BY <1>1, <1>2
<1>3. ASSUME stage = "mission", NEW e \in batch, NEW reached \in SUBSET hub,
             IsNext(e), Send(e, reached)
      PROVE  told[c][m] <= told'[c][m]
  BY <1>3, SendingRaises
<1>4. QED
  BY <1>2, <1>3, ToldBySending

\* Over one socket of EventHub neither the events nor the rows of a mission ever
\* go back.
THEOREM StreamInOrder == Spec => InOrder
<1>1. Sent => Below
  BY DEF Sent, Below
<1>2. Rows => Between
  BY DEF Rows, Between
<1>3. TypeOK /\ Ids /\ Watermark /\ Below /\ Between /\ [Next]_vars =>
        [\A c \in Clients : c \in hub /\ c \in hub' =>
           /\ \A old \in got[c], new \in got'[c] \ got[c] : old.id < new.id
           /\ \A m \in Missions : told[c][m] <= told'[c][m]]_vars
  BY GotInOrder, ToldInOrder
<1>4. QED
  BY <1>1, <1>2, <1>3, SentInvariant, RowsInvariant, PTL DEF Spec, InOrder
===============================================================================
