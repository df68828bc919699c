-------------------------------- MODULE LiveStore --------------------------------
(***************************************************************************)
(* The live store of the control surface (lib/live.ts): one WebSocket that *)
(* is opened again after every close, snapshots requested over HTTP each   *)
(* time it opens or the user asks for one, and the list of missions all    *)
(* pages show, written by the messages of the one and the answers of the   *)
(* other, in whatever order they arrive.                                   *)
(*                                                                         *)
(* The server's side is what EventStream models in detail: rows that move  *)
(* on, events that are published later, in statements of their own, and    *)
(* may be lost, a broadcaster that sends the row an event announces to the *)
(* sockets of its hub, and a hub that a socket joins a moment after it was *)
(* accepted.  Two states are announced by no row: a mission that was       *)
(* created, and one that is verified, are shown by a snapshot only.  The   *)
(* server never starts a closing handshake, so a socket is connecting or   *)
(* open until its close event.                                             *)
(***************************************************************************)
EXTENDS Naturals, Sequences

CONSTANTS Missions,
          Sockets,       \* WebSocket objects
          None,          \* no socket
          MaxSnapshots,  \* bound: refreshes in progress
          MaxRetries,    \* bound: pending reconnect timers
          MaxFaults      \* bound: crashes of the Server, broken connections, failed requests

ASSUME LiveAssumption ==
  /\ None \notin Sockets
  /\ MaxSnapshots \in Nat /\ MaxRetries \in Nat /\ MaxFaults \in Nat

VARIABLES
  row,         \* [Missions -> 0..Gone]: the state of each mission in the database
  unpublished, \* [Missions -> Nat]: announcing changes whose event is not in the table yet
  events,      \* [Missions -> Nat]: announcing events the broadcaster has not handled yet
  up,          \* the Server runs
  hub,         \* [Sockets -> HubState]: what the Server has of each socket
  chan,        \* [Sockets -> Seq(Message)]: sent and not delivered
  sock,        \* [Sockets -> SocketState]: readyState
  ws,          \* the module's socket, or None
  connecting,  \* the module's flag
  retries,     \* pending timers that call connect
  started,     \* a page has been mounted
  snapshots,   \* [1..MaxSnapshots -> Snapshot]: refreshInitial in progress
  view,        \* [Missions -> 0..Ended]: missions, as the pages show it
  faults,      \* faults so far
  lost         \* history: missions the page has missed something of

database   == <<row, unpublished, events>>
connection == <<sock, ws, connecting, retries>>
server     == <<up, hub>>
vars == <<database, server, chan, connection, started, snapshots, view, faults, lost>>

\* The states of a row, 0 while there is none, and the changes its statements make; that
\* an API client may set a mission back is left out.
Created   == 1
Running   == 2
Verifying == 3
Ended     == 4
Gone      == 5   \* deleted
Moves == {<<0, Created>>, <<Created, Running>>, <<Created, Ended>>, <<Running, Verifying>>,
          <<Running, Ended>>, <<Verifying, Ended>>}

\* MissionStateEvents: the states whose event sends the row to the pages.
Announcing == {Running, Ended}

\* The last announced state of a row that has got to the state v.
Due(v) == IF v < Running THEN 0 ELSE IF v < Ended THEN Running ELSE Ended

SocketState == {"none", "connecting", "open"}
HubState == {"none", "added", "removed"}
Message == [mission : Missions, version : Created..Ended]
Rows == [Missions -> 0..Ended]
Nothing == [m \in Missions |-> 0]
Snapshot == [stage : {"free", "asked", "answered", "failed"}, got : Rows]
Free == [stage |-> "free", got |-> Nothing]

\* What GET /api/missions answers: the rows that are there.
Listed == [m \in Missions |-> IF row[m] = Gone THEN 0 ELSE row[m]]

Init ==
  /\ row = Nothing /\ unpublished = Nothing /\ events = Nothing
  /\ up \in BOOLEAN
  /\ hub = [s \in Sockets |-> "none"] /\ chan = [s \in Sockets |-> <<>>]
  /\ sock = [s \in Sockets |-> "none"]
  /\ ws = None /\ connecting = FALSE /\ retries = 0 /\ started = FALSE
  /\ snapshots = [i \in 1..MaxSnapshots |-> Free]
  /\ view = Nothing
  /\ faults = 0 /\ lost = {}

\* A mission the page has caught up with is not lost any more, once no older message
\* can take that back; a deleted one stays so, since nothing tells a page of a deletion.
Caught(missed, shown, sent) ==
  {m \in missed :
     \/ row[m] = Gone \/ shown[m] < Due(row[m])
     \/ \E s \in Sockets : \E i \in 1..Len(sent[s]) : sent[s][i].mission = m}
-------------------------------------------------------------------------------
(* The server. *)

\* A mission is created or moves on.
Write(m) ==
  \E next \in {to \in Created..Ended : <<row[m], to>> \in Moves} :
    /\ row' = [row EXCEPT ![m] = next]
    /\ unpublished' = IF next \in Announcing THEN [unpublished EXCEPT ![m] = @ + 1] ELSE unpublished
    /\ UNCHANGED <<events, server, chan, connection, started, snapshots, view, faults, lost>>

\* The statement after it: the event is in the table.
Publish(m) ==
  /\ unpublished[m] > 0
  /\ unpublished' = [unpublished EXCEPT ![m] = @ - 1] /\ events' = [events EXCEPT ![m] = @ + 1]
  /\ UNCHANGED <<row, server, chan, connection, started, snapshots, view, faults, lost>>

\* It never is: the process stops between the two statements, or the second one fails,
\* or the change was one POST .../transition makes without an event.
LosePublish(m) ==
  /\ unpublished[m] > 0
  /\ unpublished' = [unpublished EXCEPT ![m] = @ - 1]
  /\ lost' = Caught(lost \cup {m}, view, chan)
  /\ UNCHANGED <<row, events, server, chan, connection, started, snapshots, view, faults>>

\* "Forget all": the finished missions and every event, also those not handled yet.
ForgetAll ==
  /\ row' = [m \in Missions |-> IF row[m] = Ended THEN Gone ELSE row[m]]
  /\ events' = Nothing
  /\ lost' = lost \cup {m \in Missions : row'[m] = Gone \/ events[m] > 0}
  /\ UNCHANGED <<unpublished, server, chan, connection, started, snapshots, view, faults>>

\* The broadcaster handles an event of m: the row as it is now goes to the sockets in
\* the hub, unless it was deleted; a socket that is open and not yet in the hub misses it.
Broadcast(m) ==
  /\ up /\ events[m] > 0
  /\ events' = [events EXCEPT ![m] = @ - 1]
  /\ chan' = [s \in Sockets |->
       IF hub[s] = "added" /\ row[m] # Gone
       THEN Append(chan[s], [mission |-> m, version |-> row[m]]) ELSE chan[s]]
  /\ lost' = IF \E s \in Sockets : sock[s] = "open" /\ hub[s] = "none"
             THEN lost \cup {m} ELSE lost
  /\ UNCHANGED <<row, unpublished, server, connection, started, snapshots, view, faults>>

HubAdd(s) ==
  /\ up /\ sock[s] # "none" /\ hub[s] = "none"
  /\ hub' = [hub EXCEPT ![s] = "added"]
  /\ UNCHANGED <<database, up, chan, connection, started, snapshots, view, faults, lost>>

Fault == faults < MaxFaults /\ faults' = faults + 1

\* A connection breaks; the page will hear of it.
Break(s) ==
  /\ Fault /\ sock[s] # "none" /\ hub[s] # "removed"
  /\ hub' = [hub EXCEPT ![s] = "removed"]
  /\ UNCHANGED <<database, up, chan, connection, started, snapshots, view, lost>>

\* The requests in progress fail with the Server.
ServerCrash ==
  /\ Fault /\ up /\ up' = FALSE
  /\ hub' = [s \in Sockets |-> IF sock[s] = "none" THEN "none" ELSE "removed"]
  /\ snapshots' = [i \in 1..MaxSnapshots |->
       IF snapshots[i].stage = "asked" THEN [Free EXCEPT !.stage = "failed"] ELSE snapshots[i]]
  /\ UNCHANGED <<database, chan, connection, started, view, lost>>

\* The broadcaster starts behind the last event.
ServerStart ==
  /\ ~up /\ up' = TRUE
  /\ events' = Nothing
  /\ UNCHANGED <<row, unpublished, hub, chan, connection, started, snapshots, view, faults, lost>>
-------------------------------------------------------------------------------
(* The page's side. *)

\* A new WebSocket: which of those not in use it is makes no difference.
Fresh == CHOOSE s \in Sockets : sock[s] = "none"

\* A mutant: the flag is forgotten and a socket that connects does not count.
ConnectImpatient(timers) ==
  IF ws # None /\ sock[ws] = "open"
  THEN UNCHANGED <<sock, ws, connecting, faults>> /\ retries' = timers
  ELSE /\ \E s \in Sockets : sock[s] = "none"
       /\ ws' = Fresh /\ sock' = [sock EXCEPT ![Fresh] = "connecting"]
       /\ connecting' = TRUE /\ retries' = timers /\ UNCHANGED faults

\* connect, with the timers that are left: a new socket, or an exception of its
\* constructor and another timer.
Connect(timers) ==
  IF connecting \/ (ws # None /\ sock[ws] # "none")
  THEN UNCHANGED <<sock, ws, connecting, faults>> /\ retries' = timers
  ELSE \/ /\ \E s \in Sockets : sock[s] = "none"
          /\ ws' = Fresh /\ sock' = [sock EXCEPT ![Fresh] = "connecting"]
          /\ connecting' = TRUE /\ retries' = timers /\ UNCHANGED faults
       \/ /\ Fault /\ timers < MaxRetries
          /\ connecting' = FALSE /\ retries' = timers + 1 /\ UNCHANGED <<sock, ws>>

\* The effect of useLive: any page, any number of times.
PageMounts ==
  /\ Connect(retries) /\ started' = TRUE
  /\ UNCHANGED <<database, server, chan, snapshots, view, lost>>

RetryFires ==
  /\ retries > 0
  /\ Connect(retries - 1)
  /\ UNCHANGED <<database, server, chan, started, snapshots, view, lost>>

\* refreshInitial, up to its await.
AskSnapshot ==
  \E i \in 1..MaxSnapshots :
    /\ snapshots[i].stage = "free"
    /\ snapshots' = [snapshots EXCEPT ![i].stage = "asked"]

\* A mutant: a reconnected page does not ask again.
OpenedWithoutRefresh(s) ==
  /\ up /\ sock[s] = "connecting" /\ hub[s] # "removed"
  /\ sock' = [sock EXCEPT ![s] = "open"] /\ connecting' = FALSE
  /\ IF view = Nothing THEN AskSnapshot ELSE UNCHANGED snapshots
  /\ UNCHANGED <<database, server, chan, ws, retries, started, view, faults, lost>>

\* onopen.
Opened(s) ==
  /\ up /\ sock[s] = "connecting" /\ hub[s] # "removed"
  /\ sock' = [sock EXCEPT ![s] = "open"] /\ connecting' = FALSE
  /\ AskSnapshot
  /\ UNCHANGED <<database, server, chan, ws, retries, started, view, faults, lost>>

\* A mutant: a mission that is in the list already is not replaced.
DeliveredOnce(s) ==
  /\ sock[s] = "open" /\ chan[s] # <<>>
  /\ view' = IF view[Head(chan[s]).mission] = 0
             THEN [view EXCEPT ![Head(chan[s]).mission] = Head(chan[s]).version] ELSE view
  /\ chan' = [chan EXCEPT ![s] = Tail(@)]
  /\ lost' = Caught(lost, view', chan')
  /\ UNCHANGED <<database, server, connection, started, snapshots, faults>>

\* onmessage: upsertMission.
Delivered(s) ==
  /\ sock[s] = "open" /\ chan[s] # <<>>
  /\ view' = [view EXCEPT ![Head(chan[s]).mission] = Head(chan[s]).version]
  /\ chan' = [chan EXCEPT ![s] = Tail(@)]
  /\ lost' = Caught(lost, view', chan')
  /\ UNCHANGED <<database, server, connection, started, snapshots, faults>>

\* onerror and onclose, of a socket that could not connect or has broken.
Closed(s) ==
  /\ sock[s] # "none" /\ (hub[s] = "removed" \/ (~up /\ sock[s] = "connecting"))
  /\ sock' = [sock EXCEPT ![s] = "none"] /\ hub' = [hub EXCEPT ![s] = "none"]
  /\ chan' = [chan EXCEPT ![s] = <<>>]
  /\ ws' = None /\ connecting' = FALSE
  /\ retries < MaxRetries /\ retries' = retries + 1
  /\ UNCHANGED <<database, up, started, snapshots, view, faults, lost>>

\* The refresh buttons of the pages; the bound keeps a place free for onopen.
RefreshClicked ==
  /\ started /\ \A i \in 1..MaxSnapshots : snapshots[i].stage = "free"
  /\ AskSnapshot
  /\ UNCHANGED <<database, server, chan, connection, started, view, faults, lost>>

\* The list is read; the other two requests may keep allSettled waiting.
Answered(i) ==
  /\ up /\ snapshots[i].stage = "asked"
  /\ snapshots' = [snapshots EXCEPT ![i] = [stage |-> "answered", got |-> Listed]]
  /\ UNCHANGED <<database, server, chan, connection, started, view, faults, lost>>

\* The request is refused, times out, or finds no Server.
Failed(i) ==
  /\ snapshots[i].stage = "asked"
  /\ IF up THEN Fault ELSE UNCHANGED faults
  /\ snapshots' = [snapshots EXCEPT ![i].stage = "failed"]
  /\ UNCHANGED <<database, server, chan, connection, started, view, lost>>

\* refreshInitial goes on: the answer replaces the list, also one that is ahead.
Applied(i) ==
  LET got == snapshots[i].got IN
  /\ snapshots[i].stage \in {"answered", "failed"}
  /\ view' = IF snapshots[i].stage = "answered" THEN got ELSE view
  /\ lost' = Caught(IF snapshots[i].stage = "answered"
                    THEN lost \cup {m \in Missions : got[m] < view[m]}
                    ELSE Missions, view', chan)
  /\ snapshots' = [snapshots EXCEPT ![i] = Free]
  /\ UNCHANGED <<database, server, chan, connection, started, faults>>

Server ==
  \/ ForgetAll \/ ServerCrash \/ ServerStart
  \/ \E m \in Missions : Write(m) \/ Publish(m) \/ LosePublish(m) \/ Broadcast(m)
  \/ \E s \in Sockets : HubAdd(s) \/ Break(s)

SocketEvent(s) == Opened(s) \/ Delivered(s) \/ Closed(s)
Request(i) == Answered(i) \/ Failed(i) \/ Applied(i)

Page ==
  \/ PageMounts \/ RetryFires \/ RefreshClicked
  \/ \E s \in Sockets : SocketEvent(s)
  \/ \E i \in 1..MaxSnapshots : Request(i)

Next == Server \/ Page

Spec == Init /\ [][Next]_vars

\* A process that runs gets to its next statement, timers fire, events are dispatched,
\* requests are answered or fail and their
\* promises settle, and the Server is started again and does its work.
Fairness ==
  /\ WF_vars(ServerStart) /\ WF_vars(RetryFires)
  /\ \A m \in Missions : WF_vars(Publish(m)) /\ WF_vars(Broadcast(m))
  /\ \A s \in Sockets : WF_vars(HubAdd(s)) /\ WF_vars(SocketEvent(s))
  /\ \A i \in 1..MaxSnapshots : WF_vars(Request(i))

FairSpec == Spec /\ Fairness
-------------------------------------------------------------------------------
TypeOK ==
  /\ row \in [Missions -> 0..Gone]
  /\ unpublished \in [Missions -> Nat] /\ events \in [Missions -> Nat]
  /\ up \in BOOLEAN /\ hub \in [Sockets -> HubState]
  /\ chan \in [Sockets -> Seq(Message)]
  /\ sock \in [Sockets -> SocketState] /\ ws \in Sockets \cup {None}
  /\ connecting \in BOOLEAN /\ retries \in 0..MaxRetries /\ started \in BOOLEAN
  /\ snapshots \in [1..MaxSnapshots -> Snapshot]
  /\ view \in Rows /\ faults \in 0..MaxFaults /\ lost \subseteq Missions

\* live.ts:7, "Single shared WebSocket connection": however mounts, closes and timers
\* follow each other, the module holds the one socket there is, or a timer is pending
\* that opens the next.
OneConnection ==
  /\ \A s \in Sockets : sock[s] # "none" => s = ws
  /\ started => ws # None \/ retries > 0

\* What will bring the page to the last announced state of m: a connection that is about
\* to open, and asks then; a message with it; a request that has yet to read the list,
\* has read that state, or has failed, which the page will have noticed.
OnItsWay(m) ==
  \/ ws = None \/ sock[ws] = "connecting" \/ hub[ws] = "removed"
  \/ \E i \in 1..Len(chan[ws]) : chan[ws][i].mission = m /\ chan[ws][i].version >= Due(row[m])
  \/ \E i \in 1..MaxSnapshots :
       \/ snapshots[i].stage \in {"asked", "failed"}
       \/ snapshots[i].stage = "answered" /\ snapshots[i].got[m] >= Due(row[m])

\* live.ts:39-83, snapshots and messages write the same list: however they, reconnects
\* and crashes interleave, the page shows a mission at least in its last announced state,
\* or an event of it is yet to be published or handled, or that state is on its way; or
\* the page has missed something of it, as below.
ChangesArrive ==
  \A m \in Missions \ lost :
    view[m] >= Due(row[m]) \/ unpublished[m] > 0 \/ events[m] > 0 \/ OnItsWay(m)

\* An announced state is shown in the end, unless the page missed it: its event was lost
\* between the two statements, an older snapshot took it back, the request for one
\* failed, the socket was not in the hub yet, or "Forget all" took the event away.  A
\* mission that was only created is not announced: a page may never show it.
CatchesUp == <>[](started => \A m \in Missions : view[m] >= Due(row[m]) \/ m \in lost)
===============================================================================
