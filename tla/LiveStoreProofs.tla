----------------------------- MODULE LiveStoreProofs -----------------------------
(***************************************************************************)
(* The live store and the home page, which reads the store's list: for any *)
(* sockets, missions and faults the store holds the one socket there is,   *)
(* or a timer is pending that opens the next, and what it does not show is *)
(* on its way or known to be missed; and for any list it shows, any chats  *)
(* and creations, a result is read out once and the bubble says that KERAI *)
(* is thinking only while it is.                                           *)
(***************************************************************************)
EXTENDS LiveStore, HomePage, TLAPS

\* The flag is set only while the module has a socket, which makes connect return
\* early exactly when a socket is there.
Connected ==
  /\ None \notin Sockets
  /\ sock \in [Sockets -> SocketState] /\ ws \in Sockets \cup {None}
  /\ retries \in Nat /\ connecting \in BOOLEAN /\ started \in BOOLEAN
  /\ connecting => ws # None
  /\ OneConnection

\* A new socket was not in use.
LEMMA FreshIsFree ==
  (\E s \in Sockets : sock[s] = "none") => Fresh \in Sockets /\ sock[Fresh] = "none"
  BY DEF Fresh

\* connect leaves a socket or a timer behind, with any number of timers.
LEMMA ConnectConnects ==
  ASSUME Connected, NEW timers \in Nat, Connect(timers), started' \in BOOLEAN
  PROVE  Connected'
<1>0. /\ sock \in [Sockets -> SocketState] /\ ws \in Sockets \cup {None}
      /\ connecting \in BOOLEAN /\ None \notin Sockets
      /\ connecting => ws # None
      /\ \A s \in Sockets : sock[s] # "none" => s = ws
  BY DEF Connected, OneConnection
<1>1. CASE connecting \/ (ws # None /\ sock[ws] # "none")
  <2>1. UNCHANGED <<sock, ws, connecting>> /\ retries' = timers
    BY <1>1 DEF Connect
  <2>2. ws # None
    BY <1>0, <1>1
  <2>3. QED
    BY <1>0, <2>1, <2>2 DEF Connected, OneConnection
<1>2. CASE ~(connecting \/ (ws # None /\ sock[ws] # "none"))
  <2>1. \/ /\ Fresh \in Sockets /\ sock' = [sock EXCEPT ![Fresh] = "connecting"]
           /\ ws' = Fresh /\ connecting' = TRUE /\ retries' = timers
        \/ UNCHANGED <<sock, ws>> /\ connecting' = FALSE /\ retries' = timers + 1
    BY <1>2, FreshIsFree DEF Connect
  <2>2. ASSUME NEW t \in Sockets, sock[t] # "none" PROVE FALSE
    <3>1. ws = t /\ ws # None
      BY <1>0, <2>2
    <3>2. QED
      BY <1>2, <2>2, <3>1
  <2>3. CASE ws' = Fresh /\ Fresh \in Sockets /\ sock' = [sock EXCEPT ![Fresh] = "connecting"]
             /\ connecting' = TRUE /\ retries' = timers
    <3>1. \A t \in Sockets : sock'[t] # "none" => t = Fresh
      BY <1>0, <2>3, <2>2
    <3>2. sock' \in [Sockets -> SocketState]
      BY <1>0, <2>3 DEF SocketState
    <3>3. QED
      BY <1>0, <2>3, <3>1, <3>2 DEF Connected, OneConnection
  <2>4. CASE UNCHANGED <<sock, ws>> /\ connecting' = FALSE /\ retries' = timers + 1
    <3>1. retries' \in Nat /\ retries' > 0
      BY <2>4
    <3>2. QED
      BY <1>0, <2>2, <2>4, <3>1 DEF Connected, OneConnection
  <2>5. QED
    BY <2>1, <2>3, <2>4
<1>3. QED
  BY <1>1, <1>2

\* Every step keeps the connection.
LEMMA ConnectedStep == Connected /\ [Next]_vars => Connected'
<1> SUFFICES ASSUME Connected, [Next]_vars PROVE Connected'
  OBVIOUS
<1>0. /\ sock \in [Sockets -> SocketState] /\ ws \in Sockets \cup {None} /\ retries \in Nat
      /\ started \in BOOLEAN /\ None \notin Sockets
      /\ \A s \in Sockets : sock[s] # "none" => s = ws
      /\ started => ws # None \/ retries > 0
  BY DEF Connected, OneConnection
<1>1. CASE UNCHANGED <<connection, started>>
  BY <1>1 DEF connection, Connected, OneConnection
<1>2. CASE Server \/ UNCHANGED vars
  BY <1>1, <1>2 DEF Server, ForgetAll, ServerCrash, ServerStart, Write, Publish, LosePublish, Broadcast,
    HubAdd, Break, vars
<1>3. CASE PageMounts
  BY <1>0, <1>3, ConnectConnects DEF PageMounts
<1>4. CASE RetryFires
  BY <1>0, <1>4, ConnectConnects DEF RetryFires
<1>5. ASSUME NEW s \in Sockets, Opened(s) PROVE Connected'
  <2>1. /\ sock' = [sock EXCEPT ![s] = "open"] /\ connecting' = FALSE
        /\ UNCHANGED <<ws, retries, started>> /\ sock[s] = "connecting"
    BY <1>5 DEF Opened
  <2>2. sock' \in [Sockets -> SocketState]
    BY <1>0, <2>1 DEF SocketState
  <2>3. \A t \in Sockets : sock'[t] # "none" => t = ws
    BY <1>0, <2>1
  <2>4. QED
    BY <1>0, <2>1, <2>2, <2>3 DEF Connected, OneConnection
<1>6. ASSUME NEW s \in Sockets, Closed(s) PROVE Connected'
  <2>1. /\ sock' = [sock EXCEPT ![s] = "none"] /\ ws' = None /\ connecting' = FALSE
        /\ retries' = retries + 1 /\ started' = started /\ sock[s] # "none"
    BY <1>6 DEF Closed
  <2>2. retries' \in Nat /\ retries' > 0
    BY <1>0, <2>1
  <2>3. sock' \in [Sockets -> SocketState]
    BY <1>0, <2>1 DEF SocketState
  <2>4. \A t \in Sockets : sock'[t] = "none"
    BY <1>0, <2>1
  <2>5. OneConnection'
    BY <2>4, <2>2 DEF OneConnection
  <2>6. QED
    BY <2>1, <2>3, <2>5, <2>2, Zenon DEF Connected
<1>7. ASSUME NEW s \in Sockets, Delivered(s) PROVE Connected'
  BY <1>1, <1>7 DEF Delivered
<1>8. CASE RefreshClicked \/ \E i \in 1..MaxSnapshots : Request(i)
  BY <1>1, <1>8 DEF RefreshClicked, Request, Answered, Failed, Applied
<1>9. QED
  BY <1>2, <1>3, <1>4, <1>5, <1>6, <1>7, <1>8 DEF Next, Page, SocketEvent

\* It holds before any page is mounted.
LEMMA ConnectedInit == Init => Connected
<1> SUFFICES ASSUME Init PROVE Connected
  OBVIOUS
<1>1. /\ sock \in [Sockets -> SocketState] /\ ws = None /\ retries \in Nat
      /\ \A s \in Sockets : sock[s] = "none"
  BY DEF Init, SocketState
<1>2. connecting = FALSE /\ started = FALSE
  BY DEF Init
<1>3. OneConnection
  BY <1>1, <1>2 DEF OneConnection
<1>4. QED
  BY <1>1, <1>2, <1>3, LiveAssumption, Zenon DEF Connected

\* However mounts, closes, crashes of the Server and retry timers follow each other,
\* there is never a second socket, and never none without a timer.
THEOREM OneConnectionIsKept == Spec => []OneConnection
<1>1. Init => Connected
  BY ConnectedInit
<1>2. Connected /\ [Next]_vars => Connected'
  BY ConnectedStep
<1>3. Connected => OneConnection
  BY DEF Connected
<1>4. QED
  BY <1>1, <1>2, <1>3, PTL DEF Spec
-------------------------------------------------------------------------------
(* The types of the live store. *)

\* What has something to announce runs or has ended, so every message is about a row.
LiveInv ==
  /\ TypeOK /\ Connected
  /\ \A m \in Missions : unpublished[m] > 0 \/ events[m] > 0 => row[m] >= Running

\* The states are numbers, and what is due of one is not more than it.
LEMMA Ranks ==
  /\ Created = 1 /\ Running = 2 /\ Verifying = 3 /\ Ended = 4 /\ Gone = 5
  /\ \A v : v \in 0..Gone => Due(v) \in 0..Ended /\ Due(v) <= v
  BY DEF Created, Running, Verifying, Ended, Gone, Due

\* Only missions are lost.
LEMMA CaughtTyped ==
  \A seen, sent : \A missed \in SUBSET Missions : Caught(missed, seen, sent) \subseteq Missions
  BY DEF Caught

\* connect leaves sockets and timers within their types.
LEMMA ConnectTyped ==
  ASSUME TypeOK, NEW timers \in 0..MaxRetries, Connect(timers)
  PROVE  /\ sock' \in [Sockets -> SocketState] /\ ws' \in Sockets \cup {None}
         /\ connecting' \in BOOLEAN /\ retries' \in 0..MaxRetries /\ faults' \in 0..MaxFaults
<1>0. /\ MaxRetries \in Nat /\ MaxFaults \in Nat /\ faults \in 0..MaxFaults
      /\ sock \in [Sockets -> SocketState] /\ ws \in Sockets \cup {None}
  BY LiveAssumption DEF TypeOK
<1>1. CASE connecting \/ (ws # None /\ sock[ws] # "none")
  BY <1>1 DEF Connect, TypeOK
<1>2. CASE ~(connecting \/ (ws # None /\ sock[ws] # "none"))
  <2>1. \/ /\ Fresh \in Sockets /\ sock' = [sock EXCEPT ![Fresh] = "connecting"]
           /\ ws' = Fresh /\ connecting' = TRUE /\ retries' = timers /\ faults' = faults
        \/ /\ UNCHANGED <<sock, ws>> /\ connecting' = FALSE
           /\ timers < MaxRetries /\ retries' = timers + 1 /\ Fault
    BY <1>2, FreshIsFree DEF Connect
  <2>2. Fault => faults' \in 0..MaxFaults
    BY <1>0 DEF Fault
  <2>3. CASE faults' = faults /\ Fresh \in Sockets /\ sock' = [sock EXCEPT ![Fresh] = "connecting"]
             /\ ws' = Fresh /\ connecting' = TRUE /\ retries' = timers
    BY <1>0, <2>3 DEF TypeOK, SocketState
  <2>4. CASE /\ UNCHANGED <<sock, ws>> /\ connecting' = FALSE
             /\ timers < MaxRetries /\ retries' = timers + 1 /\ Fault
    <3>1. retries' \in 0..MaxRetries
      BY <1>0, <2>4
    <3>2. QED
      BY <1>0, <2>2, <2>4, <3>1
  <2>5. QED
    BY <2>1, <2>3, <2>4
<1>3. QED
  BY <1>1, <1>2

\* A request is a snapshot in progress.
LEMMA AskTyped ==
  ASSUME TypeOK, AskSnapshot
  PROVE  snapshots' \in [1..MaxSnapshots -> Snapshot]
<1>1. PICK i \in 1..MaxSnapshots : snapshots' = [snapshots EXCEPT ![i].stage = "asked"]
  BY DEF AskSnapshot
<1>2. snapshots \in [1..MaxSnapshots -> Snapshot] /\ snapshots[i] \in Snapshot
  BY DEF TypeOK
<1>3. ASSUME NEW j \in 1..MaxSnapshots PROVE snapshots'[j] \in Snapshot
  <2>1. CASE j = i
    BY <1>1, <1>2, <2>1 DEF Snapshot
  <2>2. CASE j # i
    <3>1. snapshots'[j] = snapshots[j]
      BY <1>1, <1>2, <2>2
    <3>2. QED
      BY <1>2, <3>1
  <2>3. QED
    BY <2>1, <2>2
<1>4. snapshots' = [j \in 1..MaxSnapshots |-> snapshots'[j]]
  BY <1>1, <1>2
<1>5. QED
  BY <1>3, <1>4

\* Every step of the server and of the page keeps the types.
LEMMA LiveKept == LiveInv /\ [Next]_vars => LiveInv'
<1> SUFFICES ASSUME LiveInv, [Next]_vars PROVE LiveInv'
  OBVIOUS
<1>1. Connected'
  BY ConnectedStep DEF LiveInv
<1>2. /\ MaxSnapshots \in Nat /\ MaxRetries \in Nat /\ MaxFaults \in Nat
      /\ Created = 1 /\ Running = 2 /\ Ended = 4 /\ Gone = 5
  BY LiveAssumption, Ranks
<1>3. /\ row \in [Missions -> 0..Gone]
      /\ unpublished \in [Missions -> Nat] /\ events \in [Missions -> Nat]
      /\ \A m \in Missions : unpublished[m] > 0 \/ events[m] > 0 => row[m] >= Running
  BY DEF LiveInv, TypeOK
<1>4. Free \in Snapshot /\ Nothing \in Rows
  BY <1>2 DEF Free, Snapshot, Nothing, Rows
<1>5. TypeOK
  BY DEF LiveInv
<1>6. ASSUME TypeOK', UNCHANGED database PROVE LiveInv'
  BY <1>1, <1>3, <1>6 DEF database, LiveInv
<1>7. ASSUME Fault PROVE faults' \in 0..MaxFaults
  BY <1>2, <1>5, <1>7 DEF Fault, TypeOK
<1>8. ASSUME NEW m \in Missions, Write(m) PROVE LiveInv'
  <2>1. PICK next \in {to \in Created..Ended : <<row[m], to>> \in Moves} :
          /\ row' = [row EXCEPT ![m] = next] /\ events' = events
          /\ unpublished' = IF next \in Announcing THEN [unpublished EXCEPT ![m] = @ + 1] ELSE unpublished
    BY <1>8 DEF Write
  <2>2. next \in Created..Ended /\ row[m] < next /\ (next \in Announcing => next >= Running)
    BY <1>2 DEF Moves, Announcing, Verifying
  <2>3. row' \in [Missions -> 0..Gone] /\ unpublished' \in [Missions -> Nat]
    BY <1>2, <1>3, <2>1, <2>2
  <2>4. \A n \in Missions : unpublished'[n] > 0 \/ events'[n] > 0 => row'[n] >= Running
    <3>1. ASSUME NEW n \in Missions, unpublished'[n] > 0 \/ events'[n] > 0 PROVE row'[n] >= Running
      <4>1. CASE n = m
        <5>1. row'[n] = next /\ row[n] \in 0..Gone
          BY <1>3, <2>1, <4>1
        <5>2. next \in Announcing \/ unpublished[n] > 0 \/ events[n] > 0
          BY <2>1, <3>1
        <5>3. QED
          BY <1>2, <1>3, <2>2, <4>1, <5>1, <5>2
      <4>2. CASE n # m
        BY <1>3, <2>1, <3>1, <4>2
      <4>3. QED
        BY <4>1, <4>2
    <3>2. QED
      BY <3>1
  <2>5. QED
    BY <1>1, <1>3, <1>5, <1>8, <2>1, <2>3, <2>4
      DEF Write, server, connection, LiveInv, TypeOK
<1>8a. ASSUME NEW m \in Missions, Publish(m) PROVE LiveInv'
  <2>1. /\ unpublished[m] > 0 /\ unpublished' = [unpublished EXCEPT ![m] = @ - 1]
        /\ events' = [events EXCEPT ![m] = @ + 1] /\ row' = row
    BY <1>8a DEF Publish
  <2>2. /\ unpublished' \in [Missions -> Nat] /\ events' \in [Missions -> Nat]
        /\ \A n \in Missions : unpublished'[n] > 0 \/ events'[n] > 0 => row'[n] >= Running
    BY <1>3, <2>1
  <2>3. QED
    BY <1>1, <1>5, <1>8a, <2>1, <2>2 DEF Publish, server, connection, LiveInv, TypeOK
<1>8b. ASSUME NEW m \in Missions, LosePublish(m) PROVE LiveInv'
  <2>1. /\ unpublished[m] > 0 /\ unpublished' = [unpublished EXCEPT ![m] = @ - 1]
        /\ events' = events /\ row' = row
    BY <1>8b DEF LosePublish
  <2>2. /\ unpublished' \in [Missions -> Nat]
        /\ \A n \in Missions : unpublished'[n] > 0 \/ events'[n] > 0 => row'[n] >= Running
    BY <1>3, <2>1
  <2>3. lost' \subseteq Missions
    BY <1>5, <1>8b, CaughtTyped DEF LosePublish, TypeOK
  <2>4. QED
    BY <1>1, <1>5, <1>8b, <2>1, <2>2, <2>3 DEF LosePublish, server, connection, LiveInv, TypeOK
<1>9. CASE ForgetAll
  <2>1. /\ row' = [m \in Missions |-> IF row[m] = Ended THEN Gone ELSE row[m]]
        /\ events' = Nothing /\ unpublished' = unpublished
    BY <1>9 DEF ForgetAll
  <2>2. /\ row' \in [Missions -> 0..Gone] /\ events' \in [Missions -> Nat]
        /\ \A n \in Missions : unpublished'[n] > 0 \/ events'[n] > 0 => row'[n] >= Running
    BY <1>2, <1>3, <2>1 DEF Nothing
  <2>3. lost' \subseteq Missions
    BY <1>5, <1>9 DEF ForgetAll, TypeOK
  <2>4. QED
    BY <1>1, <1>5, <1>9, <2>1, <2>2, <2>3 DEF ForgetAll, server, connection, LiveInv, TypeOK
<1>10. ASSUME NEW m \in Missions, Broadcast(m) PROVE LiveInv'
  <2> DEFINE news == [mission |-> m, version |-> row[m]]
  <2>1. /\ events[m] > 0 /\ events' = [events EXCEPT ![m] = @ - 1]
        /\ row' = row /\ unpublished' = unpublished
        /\ chan' = [s \in Sockets |-> IF hub[s] = "added" /\ row[m] # Gone
                                      THEN Append(chan[s], news) ELSE chan[s]]
    BY <1>10 DEF Broadcast
  <2>2. row[m] # Gone => row[m] \in Created..Ended
    <3>1. row[m] \in 0..Gone /\ row[m] >= Running
      BY <1>3, <2>1
    <3>2. QED
      BY <1>2, <3>1
  <2>3. row[m] # Gone => news \in Message
    BY <2>2 DEF Message
  <2> HIDE DEF news
  <2>4. chan' \in [Sockets -> Seq(Message)]
    <3>1. chan \in [Sockets -> Seq(Message)]
      BY <1>5 DEF TypeOK
    <3>2. row[m] # Gone => \A q \in Seq(Message) : Append(q, news) \in Seq(Message)
      BY <2>3
    <3>3. QED
      BY <2>1, <3>1, <3>2
  <2>5. /\ events' \in [Missions -> Nat]
        /\ \A n \in Missions : unpublished'[n] > 0 \/ events'[n] > 0 => row'[n] >= Running
    BY <1>3, <2>1
  <2>6. lost' \subseteq Missions
    BY <1>5, <1>10 DEF Broadcast, TypeOK
  <2>7. QED
    BY <1>1, <1>3, <1>5, <1>10, <2>1, <2>4, <2>5, <2>6
      DEF Broadcast, server, connection, LiveInv, TypeOK
<1>11. ASSUME NEW s \in Sockets, HubAdd(s) PROVE LiveInv'
  BY <1>5, <1>6, <1>11 DEF HubAdd, HubState, TypeOK, database, connection
<1>12. ASSUME NEW s \in Sockets, Break(s) PROVE LiveInv'
  BY <1>5, <1>6, <1>7, <1>12 DEF Break, HubState, TypeOK, database, connection
<1>13. CASE ServerCrash
  <2>1. faults' \in 0..MaxFaults /\ hub' \in [Sockets -> HubState] /\ up' \in BOOLEAN
    BY <1>7, <1>13 DEF ServerCrash, HubState
  <2>2. [Free EXCEPT !.stage = "failed"] \in Snapshot
    BY <1>4 DEF Free, Snapshot
  <2>3. snapshots' \in [1..MaxSnapshots -> Snapshot]
    BY <1>5, <1>13, <2>2 DEF ServerCrash, TypeOK
  <2>4. QED
    BY <1>5, <1>6, <1>13, <2>1, <2>3 DEF ServerCrash, TypeOK, database, connection
<1>14. CASE ServerStart
  <2>1. events' = Nothing /\ UNCHANGED <<row, unpublished>> /\ up' = TRUE
    BY <1>14 DEF ServerStart
  <2>2. events' \in [Missions -> Nat] /\ \A m \in Missions : ~(events'[m] > 0)
    BY <2>1 DEF Nothing
  <2>3. QED
    BY <1>1, <1>3, <1>5, <1>14, <2>1, <2>2 DEF ServerStart, connection, LiveInv, TypeOK
<1>15. CASE PageMounts
  <2>1. retries \in 0..MaxRetries /\ Connect(retries) /\ started' = TRUE
    BY <1>5, <1>15 DEF PageMounts, TypeOK
  <2>2. QED
    BY <1>5, <1>6, <1>15, <2>1, ConnectTyped DEF PageMounts, TypeOK, database, server
<1>16. CASE RetryFires
  <2>1. retries - 1 \in 0..MaxRetries /\ Connect(retries - 1)
    BY <1>2, <1>5, <1>16 DEF RetryFires, TypeOK
  <2>2. QED
    BY <1>5, <1>6, <1>16, <2>1, ConnectTyped DEF RetryFires, TypeOK, database, server
<1>17. ASSUME NEW s \in Sockets, Opened(s) PROVE LiveInv'
  <2>1. snapshots' \in [1..MaxSnapshots -> Snapshot] /\ sock' \in [Sockets -> SocketState]
    BY <1>5, <1>17, AskTyped DEF Opened, TypeOK, SocketState
  <2>2. QED
    BY <1>5, <1>6, <1>17, <2>1 DEF Opened, TypeOK, database, server
<1>18. ASSUME NEW s \in Sockets, Delivered(s) PROVE LiveInv'
  <2>1. chan[s] \in Seq(Message) /\ chan[s] # <<>> /\ chan' = [chan EXCEPT ![s] = Tail(chan[s])]
    BY <1>5, <1>18 DEF Delivered, TypeOK
  <2>2. Head(chan[s]) \in Message /\ Tail(chan[s]) \in Seq(Message)
    BY <2>1
  <2>3. view' \in Rows
    <3>1. Head(chan[s]).mission \in Missions /\ Head(chan[s]).version \in Created..Ended
      BY <2>2 DEF Message
    <3>2. view' = [view EXCEPT ![Head(chan[s]).mission] = Head(chan[s]).version]
      BY <1>18 DEF Delivered
    <3>3. QED
      BY <1>2, <1>5, <3>1, <3>2 DEF TypeOK, Rows
  <2>4. chan' \in [Sockets -> Seq(Message)]
    BY <1>5, <2>1, <2>2 DEF TypeOK
  <2>5. lost' \subseteq Missions
    BY <1>5, <1>18, CaughtTyped DEF Delivered, TypeOK
  <2>6. QED
    BY <1>5, <1>6, <1>18, <2>3, <2>4, <2>5 DEF Delivered, TypeOK, database, server, connection
<1>19. ASSUME NEW s \in Sockets, Closed(s) PROVE LiveInv'
  <2>1. retries' \in 0..MaxRetries
    BY <1>2, <1>5, <1>19 DEF Closed, TypeOK
  <2>2. /\ sock' \in [Sockets -> SocketState] /\ hub' \in [Sockets -> HubState]
        /\ ws' \in Sockets \cup {None} /\ connecting' \in BOOLEAN
    BY <1>5, <1>19 DEF Closed, TypeOK, SocketState, HubState
  <2>3. chan' \in [Sockets -> Seq(Message)]
    BY <1>5, <1>19 DEF Closed, TypeOK
  <2>4. QED
    BY <1>5, <1>6, <1>19, <2>1, <2>2, <2>3 DEF Closed, TypeOK, database
<1>20. CASE RefreshClicked
  BY <1>5, <1>6, <1>20, AskTyped DEF RefreshClicked, TypeOK, database, server, connection
<1>21. ASSUME NEW i \in 1..MaxSnapshots, Answered(i) PROVE LiveInv'
  <2>1. Listed \in Rows
    BY <1>2, <1>3 DEF Listed, Rows
  <2>2. snapshots' \in [1..MaxSnapshots -> Snapshot]
    BY <1>5, <1>21, <2>1 DEF Answered, TypeOK, Snapshot
  <2>3. QED
    BY <1>5, <1>6, <1>21, <2>2 DEF Answered, TypeOK, database, server, connection
<1>22. ASSUME NEW i \in 1..MaxSnapshots, Failed(i) PROVE LiveInv'
  <2>1. faults' \in 0..MaxFaults
    BY <1>5, <1>7, <1>22 DEF Failed, TypeOK
  <2>2. snapshots' \in [1..MaxSnapshots -> Snapshot]
    BY <1>5, <1>22 DEF Failed, TypeOK, Snapshot
  <2>3. QED
    BY <1>5, <1>6, <1>22, <2>1, <2>2 DEF Failed, TypeOK, database, server, connection
<1>23. ASSUME NEW i \in 1..MaxSnapshots, Applied(i) PROVE LiveInv'
  <2>1. snapshots[i] \in Snapshot /\ snapshots[i].got \in Rows
    BY <1>5 DEF TypeOK, Snapshot
  <2>2. view' \in Rows
    BY <1>5, <1>23, <2>1 DEF Applied, TypeOK
  <2>3. snapshots' \in [1..MaxSnapshots -> Snapshot]
    BY <1>4, <1>5, <1>23 DEF Applied, TypeOK
  <2>4. lost' \subseteq Missions
    BY <1>5, <1>23, CaughtTyped DEF Applied, TypeOK
  <2>5. QED
    BY <1>5, <1>6, <1>23, <2>2, <2>3, <2>4 DEF Applied, TypeOK, database, server, connection
<1>24. CASE UNCHANGED vars
  BY <1>5, <1>6, <1>24 DEF vars, TypeOK, database, server, connection
<1>25. QED
  BY <1>8, <1>9, <1>10, <1>11, <1>12, <1>13, <1>14, <1>15, <1>16, <1>17, <1>18, <1>19, <1>20,
     <1>21, <1>22, <1>23, <1>24, <1>8a, <1>8b DEF Next, Server, Page, SocketEvent, Request

\* Before any page is mounted.
LEMMA LiveStarts == Init => LiveInv
<1> SUFFICES ASSUME Init PROVE LiveInv
  OBVIOUS
<1>1. /\ MaxSnapshots \in Nat /\ MaxRetries \in Nat /\ MaxFaults \in Nat
      /\ Ended = 4 /\ Gone = 5 /\ None \notin Sockets
  BY LiveAssumption, Ranks
<1>2. Connected
  BY <1>1, ConnectedInit
<1>3. /\ Nothing \in Rows /\ Nothing \in [Missions -> 0..Gone] /\ Nothing \in [Missions -> Nat]
      /\ Free \in Snapshot /\ \A m \in Missions : ~(Nothing[m] > 0)
  BY <1>1 DEF Nothing, Rows, Free, Snapshot
<1>4. QED
  BY <1>1, <1>2, <1>3 DEF Init, LiveInv, TypeOK, Connected, HubState
-------------------------------------------------------------------------------
(* What the page shows, and what is on its way. *)

\* The page is yet to be told of something: an event is not published or not handled yet.
Waiting(m) == unpublished[m] > 0 \/ events[m] > 0

\* Otherwise the messages of m under way to a socket of the hub end with one that has at
\* least the last announced state.
Told(m) ==
  ~Waiting(m) => \A s \in Sockets : hub[s] = "added" =>
    \A i \in 1..Len(chan[s]) : chan[s][i].mission = m =>
      \E j \in i..Len(chan[s]) : chan[s][j].mission = m /\ chan[s][j].version >= Due(row[m])

\* No event tells a page of a deletion.
GoneIsLost == \A m \in Missions : row[m] = Gone => m \in lost

\* The hub has only sockets that are there, sends to no others, and with the Server down
\* every open socket is about to be closed.
Hubbed ==
  /\ ws # None => sock[ws] # "none"
  /\ \A s \in Sockets :
       /\ sock[s] = "none" => hub[s] = "none"
       /\ hub[s] = "none" => chan[s] = <<>>
       /\ ~up => hub[s] # "added" /\ (sock[s] = "open" => hub[s] = "removed")

ArrivalInv ==
  /\ LiveInv /\ GoneIsLost /\ Hubbed
  /\ \A m \in Missions \ lost : Told(m)
  /\ ChangesArrive

\* What the steps below need of the types.
LEMMA LiveTypes ==
  ASSUME LiveInv
  PROVE  /\ Created = 1 /\ Running = 2 /\ Verifying = 3 /\ Ended = 4 /\ Gone = 5
         /\ row \in [Missions -> 0..Gone]
         /\ unpublished \in [Missions -> Nat] /\ events \in [Missions -> Nat]
         /\ hub \in [Sockets -> HubState] /\ sock \in [Sockets -> SocketState]
         /\ chan \in [Sockets -> Seq(Message)] /\ view \in Rows
         /\ snapshots \in [1..MaxSnapshots -> Snapshot]
         /\ ws \in Sockets \cup {None} /\ None \notin Sockets
         /\ \A s \in Sockets : sock[s] # "none" => s = ws
  BY LiveAssumption, Ranks DEF LiveInv, TypeOK, Connected, OneConnection

\* A change without an event leaves what is due.
LEMMA QuietMoves ==
  \A v, next : v \in 0..Gone /\ next \in Created..Ended /\ <<v, next>> \in Moves =>
    v < next /\ next < Gone /\ (next \notin Announcing => Due(next) = Due(v))
  BY Ranks DEF Moves, Announcing, Due

\* Only a page that has caught up drops a mission.
LEMMA GoneIsLostKept == LiveInv /\ GoneIsLost /\ [Next]_vars => GoneIsLost'
<1> SUFFICES ASSUME LiveInv, GoneIsLost, [Next]_vars PROVE GoneIsLost'
  OBVIOUS
<1>1. row \in [Missions -> 0..Gone] /\ \A m \in Missions : row[m] = Gone => m \in lost
  BY LiveTypes DEF GoneIsLost
<1>2. ASSUME UNCHANGED row, \A m \in Missions : row[m] = Gone /\ m \in lost => m \in lost'
      PROVE  GoneIsLost'
  BY <1>1, <1>2 DEF GoneIsLost
<1>3. ASSUME NEW m \in Missions, Write(m) PROVE GoneIsLost'
  <2>1. PICK next \in Created..Ended :
          <<row[m], next>> \in Moves /\ row' = [row EXCEPT ![m] = next] /\ lost' = lost
    BY <1>3 DEF Write
  <2>2. next # Gone
    BY <2>1, LiveTypes
  <2>3. QED
    BY <1>1, <2>1, <2>2 DEF GoneIsLost
<1>4. CASE ForgetAll
  <2>1. lost' = lost \cup {m \in Missions : row'[m] = Gone \/ events[m] > 0}
    BY <1>4 DEF ForgetAll
  <2>2. QED
    BY <2>1 DEF GoneIsLost
<1>5. ASSUME NEW m \in Missions, Publish(m) \/ LosePublish(m) \/ Broadcast(m) PROVE GoneIsLost'
  BY <1>2, <1>5 DEF Publish, LosePublish, Broadcast, Caught
<1>6. CASE ServerStart
  BY <1>2, <1>6 DEF ServerStart
<1>7. ASSUME NEW s \in Sockets, Delivered(s) PROVE GoneIsLost'
  BY <1>2, <1>7 DEF Delivered, Caught, database
<1>8. ASSUME NEW i \in 1..MaxSnapshots, Applied(i) PROVE GoneIsLost'
  <2>1. UNCHANGED row
        /\ lost' = Caught(IF snapshots[i].stage = "answered"
                          THEN lost \cup {m \in Missions : snapshots[i].got[m] < view[m]}
                          ELSE Missions, view', chan)
    BY <1>8 DEF Applied, database
  <2>2. QED
    BY <1>2, <2>1 DEF Caught
<1>9. ASSUME NEW s \in Sockets, HubAdd(s) \/ Break(s) \/ Opened(s) \/ Closed(s) PROVE GoneIsLost'
  BY <1>2, <1>9 DEF HubAdd, Break, Opened, Closed, database
<1>10. ASSUME NEW i \in 1..MaxSnapshots, Answered(i) \/ Failed(i) PROVE GoneIsLost'
  BY <1>2, <1>10 DEF Answered, Failed, database
<1>11. CASE ServerCrash \/ PageMounts \/ RetryFires \/ RefreshClicked \/ UNCHANGED vars
  BY <1>2, <1>11 DEF ServerCrash, PageMounts, RetryFires, RefreshClicked, vars, database
<1>12. QED
  BY <1>3, <1>4, <1>5, <1>6, <1>7, <1>8, <1>9, <1>10, <1>11
     DEF Next, Server, Page, SocketEvent, Request

\* Sockets enter the hub, are broken and closed one at a time, and all break in a crash.
LEMMA HubbedKept == LiveInv /\ Hubbed /\ [Next]_vars => Hubbed'
<1> SUFFICES ASSUME LiveInv, Hubbed, [Next]_vars PROVE Hubbed'
  OBVIOUS
<1>1. /\ hub \in [Sockets -> HubState] /\ sock \in [Sockets -> SocketState]
      /\ chan \in [Sockets -> Seq(Message)]
      /\ ws \in Sockets \cup {None} /\ None \notin Sockets
      /\ \A s \in Sockets : sock[s] # "none" => s = ws
      /\ ws # None => sock[ws] # "none"
      /\ \A s \in Sockets :
           /\ sock[s] = "none" => hub[s] = "none"
           /\ hub[s] = "none" => chan[s] = <<>>
           /\ ~up => hub[s] # "added" /\ (sock[s] = "open" => hub[s] = "removed")
  BY LiveTypes DEF Hubbed
<1>2. ASSUME UNCHANGED <<server, chan, sock, ws>> PROVE Hubbed'
  BY <1>1, <1>2 DEF server, Hubbed
<1>3. ASSUME NEW m \in Missions, Write(m) \/ Publish(m) \/ LosePublish(m) PROVE Hubbed'
  BY <1>2, <1>3 DEF Write, Publish, LosePublish, connection
<1>4. ASSUME NEW m \in Missions, Broadcast(m) PROVE Hubbed'
  <2>1. /\ UNCHANGED <<server, sock, ws>>
        /\ \A s \in Sockets : hub[s] = "none" => chan'[s] = chan[s]
    BY <1>4 DEF Broadcast, connection
  <2>2. QED
    BY <1>1, <2>1 DEF server, Hubbed
<1>5. ASSUME NEW s \in Sockets, HubAdd(s) PROVE Hubbed'
  BY <1>1, <1>5 DEF HubAdd, connection, Hubbed
<1>6. ASSUME NEW s \in Sockets, Break(s) PROVE Hubbed'
  BY <1>1, <1>6 DEF Break, connection, Hubbed
<1>7. CASE ServerCrash
  BY <1>1, <1>7 DEF ServerCrash, connection, Hubbed
<1>8. CASE ServerStart
  BY <1>1, <1>8 DEF ServerStart, connection, Hubbed
<1>9. ASSUME NEW timers, Connect(timers), UNCHANGED <<server, chan>> PROVE Hubbed'
  <2>1. CASE connecting \/ (ws # None /\ sock[ws] # "none")
    BY <1>2, <1>9, <2>1 DEF Connect
  <2>2. CASE ~(connecting \/ (ws # None /\ sock[ws] # "none"))
    <3>1. \/ UNCHANGED <<sock, ws>>
          \/ /\ Fresh \in Sockets /\ sock[Fresh] = "none"
             /\ sock' = [sock EXCEPT ![Fresh] = "connecting"] /\ ws' = Fresh
      BY <1>9, <2>2, FreshIsFree DEF Connect
    <3>2. QED
      BY <1>1, <1>2, <1>9, <3>1 DEF server, Hubbed
  <2>3. QED
    BY <2>1, <2>2
<1>10. CASE PageMounts \/ RetryFires
  BY <1>9, <1>10 DEF PageMounts, RetryFires
<1>11. ASSUME NEW s \in Sockets, Opened(s) PROVE Hubbed'
  <2>1. /\ up /\ sock[s] = "connecting" /\ sock' = [sock EXCEPT ![s] = "open"]
        /\ UNCHANGED <<server, chan, ws>>
    BY <1>11 DEF Opened
  <2>2. QED
    BY <1>1, <2>1 DEF server, Hubbed
<1>12. ASSUME NEW s \in Sockets, Delivered(s) PROVE Hubbed'
  <2>1. /\ chan[s] # <<>> /\ chan' = [chan EXCEPT ![s] = Tail(chan[s])]
        /\ UNCHANGED <<server, sock, ws>>
    BY <1>12 DEF Delivered, connection
  <2>2. QED
    BY <1>1, <2>1 DEF server, Hubbed
<1>13. ASSUME NEW s \in Sockets, Closed(s) PROVE Hubbed'
  <2>1. /\ sock' = [sock EXCEPT ![s] = "none"] /\ hub' = [hub EXCEPT ![s] = "none"]
        /\ chan' = [chan EXCEPT ![s] = <<>>] /\ ws' = None /\ up' = up
    BY <1>13 DEF Closed
  <2>2. QED
    BY <1>1, <2>1 DEF Hubbed
<1>14. CASE ForgetAll \/ RefreshClicked \/ UNCHANGED vars
  BY <1>2, <1>14 DEF ForgetAll, RefreshClicked, vars, connection
<1>15. ASSUME NEW i \in 1..MaxSnapshots, Request(i) PROVE Hubbed'
  BY <1>2, <1>15 DEF Request, Answered, Failed, Applied, connection
<1>16. QED
  BY <1>3, <1>4, <1>5, <1>6, <1>7, <1>8, <1>10, <1>11, <1>12, <1>13, <1>14, <1>15
     DEF Next, Server, Page, SocketEvent

\* A request that is asked for is the only one to change.
LEMMA AskAsks ==
  ASSUME LiveInv, AskSnapshot
  PROVE  \E i \in 1..MaxSnapshots :
           /\ snapshots[i].stage = "free" /\ snapshots'[i].stage = "asked"
           /\ \A j \in 1..MaxSnapshots : j # i => snapshots'[j] = snapshots[j]
<1>1. PICK i \in 1..MaxSnapshots :
        snapshots[i].stage = "free" /\ snapshots' = [snapshots EXCEPT ![i].stage = "asked"]
  BY DEF AskSnapshot
<1>2. snapshots \in [1..MaxSnapshots -> Snapshot] /\ snapshots[i] \in Snapshot
  BY LiveTypes
<1>3. snapshots'[i].stage = "asked"
  BY <1>1, <1>2 DEF Snapshot
<1>4. \A j \in 1..MaxSnapshots : j # i => snapshots'[j] = snapshots[j]
  BY <1>1, <1>2
<1>5. QED
  BY <1>1, <1>3, <1>4

\* What the messages under way end with: a row that is sent is appended for every socket
\* of the hub; an event that is lost makes the mission lost, and it stays so while messages
\* of it are under way.
LEMMA ToldKept ==
  ArrivalInv /\ [Next]_vars => \A m \in Missions \ lost' : Told(m)'
<1> SUFFICES ASSUME ArrivalInv, [Next]_vars, NEW m \in Missions, m \notin lost'
             PROVE  Told(m)'
  OBVIOUS
<1>1. /\ LiveInv /\ Hubbed
      /\ hub \in [Sockets -> HubState] /\ chan \in [Sockets -> Seq(Message)]
      /\ row \in [Missions -> 0..Gone]
      /\ unpublished \in [Missions -> Nat] /\ events \in [Missions -> Nat]
  BY LiveTypes DEF ArrivalInv
<1>2. ASSUME m \notin lost PROVE Told(m)
  BY <1>2 DEF ArrivalInv
<1>3. ASSUME m \notin lost, Waiting(m) => Waiting(m)', Due(row'[m]) = Due(row[m]), chan' = chan,
             \A s \in Sockets : hub'[s] = "added" => hub[s] = "added" \/ chan[s] = <<>>
      PROVE  Told(m)'
  <2>1. ASSUME ~Waiting(m)', NEW s \in Sockets, hub'[s] = "added",
               NEW i \in 1..Len(chan[s]), chan[s][i].mission = m
        PROVE  \E j \in i..Len(chan[s]) : chan[s][j].mission = m /\ chan[s][j].version >= Due(row[m])
    <3>1. chan[s] # <<>>
      BY <2>1
    <3>2. QED
      BY <1>2, <1>3, <2>1, <3>1 DEF Told
  <2>2. QED
    BY <1>3, <2>1 DEF Told
<1>4. ASSUME m \notin lost, UNCHANGED <<database, chan, hub>> PROVE Told(m)'
  BY <1>3, <1>4 DEF database, Waiting
<1>5. CASE ForgetAll
  <2>1. /\ row' = [n \in Missions |-> IF row[n] = Ended THEN Gone ELSE row[n]]
        /\ UNCHANGED <<unpublished, hub, chan>>
        /\ m \notin lost /\ row'[m] # Gone /\ ~(events[m] > 0)
    BY <1>5 DEF ForgetAll, server
  <2>2. row'[m] = row[m]
    BY <1>1, <2>1
  <2>3. Waiting(m) => Waiting(m)'
    BY <2>1 DEF Waiting
  <2>4. QED
    BY <1>3, <2>1, <2>2, <2>3
<1>6. ASSUME NEW n \in Missions, Broadcast(n) PROVE Told(m)'
  <2> DEFINE news == [mission |-> n, version |-> row[n]]
  <2>1. /\ UNCHANGED <<row, unpublished, hub>> /\ events' = [events EXCEPT ![n] = @ - 1] /\ m \notin lost
        /\ chan' = [s \in Sockets |-> IF hub[s] = "added" /\ row[n] # Gone
                                      THEN Append(chan[s], news) ELSE chan[s]]
    BY <1>6 DEF Broadcast, server
  <2>2. row[m] # Gone
    BY <2>1 DEF ArrivalInv, GoneIsLost
  <2>3. ASSUME ~Waiting(m)', NEW s \in Sockets, hub[s] = "added",
               NEW i \in 1..Len(chan'[s]), chan'[s][i].mission = m
        PROVE  \E j \in i..Len(chan'[s]) : chan'[s][j].mission = m /\ chan'[s][j].version >= Due(row[m])
    <3>1. chan[s] \in Seq(Message) /\ Len(chan[s]) \in Nat
      BY <1>1
    <3> HIDE DEF news
    <3>2. CASE row[n] = Gone
      <4>1. chan'[s] = chan[s] /\ m # n
        BY <2>1, <2>2, <3>2
      <4>2. ~Waiting(m)
        BY <1>1, <2>1, <2>3, <4>1 DEF Waiting
      <4>3. QED
        BY <1>2, <2>1, <2>3, <4>1, <4>2 DEF Told
    <3>3. CASE row[n] # Gone
      <4>1. chan'[s] = Append(chan[s], news)
        BY <2>1, <2>3, <3>3
      <4>2. /\ Len(chan'[s]) = Len(chan[s]) + 1 /\ chan'[s][Len(chan[s]) + 1] = news
            /\ \A j \in 1..Len(chan[s]) : chan'[s][j] = chan[s][j]
        BY <3>1, <4>1
      <4>3. CASE m = n
        <5>1. news.mission = m /\ news.version = row[m]
          BY <4>3 DEF news
        <5>2. row[m] >= Due(row[m])
          BY <1>1, Ranks, LiveTypes
        <5>3. Len(chan'[s]) \in i..Len(chan'[s]) /\ Len(chan'[s]) = Len(chan[s]) + 1
          BY <2>3, <3>1, <4>2
        <5>4. QED
          BY <4>2, <5>1, <5>2, <5>3
      <4>4. CASE m # n
        <5>1. ~Waiting(m) /\ news.mission # m
          BY <1>1, <2>1, <2>3, <4>4 DEF Waiting, news
        <5>2. i \in 1..Len(chan[s]) /\ chan[s][i].mission = m
          BY <2>3, <3>1, <4>2, <5>1
        <5>3. PICK j \in i..Len(chan[s]) : chan[s][j].mission = m /\ chan[s][j].version >= Due(row[m])
          BY <1>2, <2>1, <2>3, <5>1, <5>2 DEF Told
        <5>4. j \in 1..Len(chan[s]) /\ j \in i..Len(chan'[s])
          BY <3>1, <4>2, <5>2, <5>3
        <5>5. QED
          BY <4>2, <5>3, <5>4
      <4>5. QED
        BY <4>3, <4>4
    <3>4. QED
      BY <3>2, <3>3
  <2>4. QED
    BY <2>1, <2>3 DEF Told
<1>7. ASSUME NEW s \in Sockets, HubAdd(s) PROVE Told(m)'
  <2>1. hub[s] = "none" /\ hub' = [hub EXCEPT ![s] = "added"] /\ UNCHANGED <<database, chan, lost>>
    BY <1>7 DEF HubAdd
  <2>2. chan[s] = <<>>
    BY <1>1, <2>1 DEF Hubbed
  <2>3. \A t \in Sockets : hub'[t] = "added" => hub[t] = "added" \/ chan[t] = <<>>
    BY <1>1, <2>1, <2>2
  <2>4. QED
    BY <1>3, <2>1, <2>3 DEF database, Waiting
<1>8. ASSUME NEW s \in Sockets, Break(s) PROVE Told(m)'
  <2>1. hub' = [hub EXCEPT ![s] = "removed"] /\ UNCHANGED <<database, chan, lost>>
    BY <1>8 DEF Break
  <2>2. QED
    BY <1>1, <1>3, <2>1 DEF database, Waiting
<1>9. CASE ServerCrash
  <2>1. \A s \in Sockets : hub'[s] # "added"
    BY <1>9 DEF ServerCrash
  <2>2. QED
    BY <2>1 DEF Told
<1>10. CASE ServerStart
  <2>1. \A s \in Sockets : hub'[s] # "added"
    BY <1>1, <1>10 DEF ServerStart, Hubbed
  <2>2. QED
    BY <2>1 DEF Told
<1>11. ASSUME NEW s \in Sockets, Delivered(s) PROVE Told(m)'
  <2>1. /\ chan[s] # <<>> /\ chan' = [chan EXCEPT ![s] = Tail(chan[s])]
        /\ UNCHANGED database /\ hub' = hub /\ lost' = Caught(lost, view', chan')
    BY <1>11 DEF Delivered, server
  <2>2. CASE m \in lost
    <3>1. \A t \in Sockets : \A i \in 1..Len(chan'[t]) : ~(chan'[t][i].mission = m)
      BY <2>1, <2>2 DEF Caught
    <3>2. QED
      BY <3>1, Zenon DEF Told
  <2>3. CASE m \notin lost
    <3>1. ASSUME ~Waiting(m), NEW t \in Sockets, hub[t] = "added",
                 NEW i \in 1..Len(chan'[t]), chan'[t][i].mission = m
          PROVE  \E j \in i..Len(chan'[t]) : chan'[t][j].mission = m /\ chan'[t][j].version >= Due(row[m])
      <4>1. chan[s] \in Seq(Message) /\ Len(chan[s]) \in Nat /\ Len(chan[s]) > 0
        BY <1>1, <2>1
      <4>2. CASE t = s
        <5>1. /\ chan'[s] = Tail(chan[s]) /\ Len(chan'[s]) = Len(chan[s]) - 1
              /\ \A j \in 1..(Len(chan[s]) - 1) : chan'[s][j] = chan[s][j + 1]
          BY <1>1, <2>1, <4>1
        <5>2. i + 1 \in 1..Len(chan[s]) /\ chan[s][i + 1].mission = m
          BY <3>1, <4>1, <4>2, <5>1
        <5>3. PICK j \in (i + 1)..Len(chan[s]) : chan[s][j].mission = m /\ chan[s][j].version >= Due(row[m])
          BY <1>2, <2>3, <3>1, <4>2, <5>2 DEF Told
        <5>4. j - 1 \in i..Len(chan'[s]) /\ chan'[s][j - 1] = chan[s][j]
          BY <3>1, <4>1, <4>2, <5>1, <5>2, <5>3
        <5>5. QED
          BY <4>2, <5>3, <5>4
      <4>3. CASE t # s
        <5>1. chan'[t] = chan[t]
          BY <1>1, <2>1, <4>3
        <5>2. QED
          BY <1>2, <2>3, <3>1, <5>1 DEF Told
      <4>4. QED
        BY <4>2, <4>3
    <3>2. row'[m] = row[m] /\ (Waiting(m)' <=> Waiting(m)) /\ hub' = hub
      BY <2>1 DEF database, Waiting
    <3>3. ASSUME ~Waiting(m)', NEW t \in Sockets, hub'[t] = "added",
                 NEW i \in 1..Len(chan'[t]), chan'[t][i].mission = m
          PROVE  \E j \in i..Len(chan'[t]) : chan'[t][j].mission = m /\ chan'[t][j].version >= Due(row'[m])
      BY <3>1, <3>2, <3>3
    <3>4. QED
      BY <3>3, Zenon DEF Told
  <2>4. QED
    BY <2>2, <2>3
<1>12. ASSUME NEW s \in Sockets, Closed(s) PROVE Told(m)'
  <2>1. /\ hub' = [hub EXCEPT ![s] = "none"] /\ chan' = [chan EXCEPT ![s] = <<>>]
        /\ UNCHANGED <<database, lost>>
    BY <1>12 DEF Closed
  <2>2. \A t \in Sockets : hub'[t] = "added" => hub[t] = "added" /\ chan'[t] = chan[t]
    BY <1>1, <2>1
  <2>3. QED
    BY <1>2, <2>1, <2>2 DEF Told, database, Waiting
<1>13. ASSUME NEW i \in 1..MaxSnapshots, Applied(i) PROVE Told(m)'
  <2>1. /\ UNCHANGED <<database, hub, chan>>
        /\ lost' = Caught(IF snapshots[i].stage = "answered"
                          THEN lost \cup {n \in Missions : snapshots[i].got[n] < view[n]}
                          ELSE Missions, view', chan)
    BY <1>13 DEF Applied, server
  <2>2. CASE m \notin lost
    BY <1>4, <2>1, <2>2
  <2>3. CASE m \in lost
    <3>1. \A t \in Sockets : \A j \in 1..Len(chan[t]) : chan[t][j].mission # m
      BY <2>1, <2>3 DEF Caught
    <3>2. QED
      BY <2>1, <3>1 DEF Told
  <2>4. QED
    BY <2>2, <2>3
<1>14. ASSUME NEW n \in Missions, Write(n) PROVE Told(m)'
  <2>1. PICK next \in Created..Ended :
          /\ <<row[n], next>> \in Moves /\ row' = [row EXCEPT ![n] = next]
          /\ unpublished' = IF next \in Announcing THEN [unpublished EXCEPT ![n] = @ + 1] ELSE unpublished
          /\ UNCHANGED <<events, hub, chan, lost>>
    BY <1>14 DEF Write, server
  <2>2. Waiting(m) => Waiting(m)'
    BY <1>1, <2>1 DEF Waiting
  <2>3. CASE m = n /\ next \in Announcing
    <3>1. Waiting(m)'
      BY <1>1, <2>1, <2>3 DEF Waiting
    <3>2. QED
      BY <3>1 DEF Told
  <2>4. CASE m # n \/ next \notin Announcing
    <3>1. Due(row'[m]) = Due(row[m])
      <4>1. CASE m # n
        BY <1>1, <2>1, <4>1
      <4>2. CASE m = n /\ next \notin Announcing
        <5>1. row'[m] = next /\ row[m] \in 0..Gone
          BY <1>1, <2>1, <4>2
        <5>2. QED
          BY <2>1, <4>2, <5>1, QuietMoves
      <4>3. QED
        BY <2>4, <4>1, <4>2
    <3>2. QED
      BY <1>3, <2>1, <2>2, <3>1
  <2>5. QED
    BY <2>3, <2>4
<1>15. ASSUME NEW n \in Missions, Publish(n) PROVE Told(m)'
  <2>1. /\ unpublished' = [unpublished EXCEPT ![n] = @ - 1] /\ events' = [events EXCEPT ![n] = @ + 1]
        /\ UNCHANGED <<row, hub, chan, lost>>
    BY <1>15 DEF Publish, server
  <2>2. Waiting(m) => Waiting(m)'
    <3>1. CASE m = n
      BY <1>1, <2>1, <3>1 DEF Waiting
    <3>2. CASE m # n
      BY <1>1, <2>1, <3>2 DEF Waiting
    <3>3. QED
      BY <3>1, <3>2
  <2>3. QED
    BY <1>3, <2>1, <2>2
<1>16. ASSUME NEW n \in Missions, LosePublish(n) PROVE Told(m)'
  <2>1. /\ unpublished' = [unpublished EXCEPT ![n] = @ - 1] /\ UNCHANGED <<row, events, hub, chan>>
        /\ lost' = Caught(lost \cup {n}, view, chan)
    BY <1>16 DEF LosePublish, server
  <2>2. CASE m \in lost \cup {n}
    <3>1. \A t \in Sockets : \A j \in 1..Len(chan[t]) : chan[t][j].mission # m
      BY <2>1, <2>2 DEF Caught
    <3>2. QED
      BY <2>1, <3>1 DEF Told
  <2>3. CASE m \notin lost \cup {n}
    <3>1. Waiting(m) => Waiting(m)'
      BY <1>1, <2>1, <2>3 DEF Waiting
    <3>2. QED
      BY <1>3, <2>1, <2>3, <3>1
  <2>4. QED
    BY <2>2, <2>3
<1>17. CASE PageMounts \/ RetryFires \/ RefreshClicked \/ UNCHANGED vars
  BY <1>4, <1>17 DEF PageMounts, RetryFires, RefreshClicked, vars, server
<1>18. ASSUME NEW s \in Sockets, Opened(s) PROVE Told(m)'
  BY <1>4, <1>18 DEF Opened, server
<1>19. ASSUME NEW i \in 1..MaxSnapshots, Answered(i) \/ Failed(i) PROVE Told(m)'
  BY <1>4, <1>19 DEF Answered, Failed, server
<1>20. QED
  BY <1>5, <1>6, <1>7, <1>8, <1>9, <1>10, <1>11, <1>12, <1>13, <1>14, <1>15, <1>16, <1>17, <1>18,
     <1>19 DEF Next, Server, Page, SocketEvent, Request

\* What is under way stays so until the page has it.
LEMMA ArrivesKept == ArrivalInv /\ [Next]_vars => ChangesArrive'
<1> DEFINE There(m) == view[m] >= Due(row[m]) \/ Waiting(m) \/ OnItsWay(m)
           Opening == ws = None \/ sock[ws] = "connecting" \/ hub[ws] = "removed"
           Sent(m) == \E i \in 1..Len(chan[ws]) :
                        chan[ws][i].mission = m /\ chan[ws][i].version >= Due(row[m])
           Asked(m) == \E i \in 1..MaxSnapshots :
                         \/ snapshots[i].stage \in {"asked", "failed"}
                         \/ snapshots[i].stage = "answered" /\ snapshots[i].got[m] >= Due(row[m])
<1> SUFFICES ASSUME ArrivalInv, [Next]_vars, NEW m \in Missions, m \notin lost'
             PROVE  There(m)'
  BY DEF ChangesArrive, Waiting
<1>1. /\ LiveInv /\ GoneIsLost /\ Hubbed /\ (m \notin lost => Told(m))
      /\ hub \in [Sockets -> HubState] /\ sock \in [Sockets -> SocketState]
      /\ chan \in [Sockets -> Seq(Message)] /\ view \in Rows
      /\ row \in [Missions -> 0..Gone]
      /\ unpublished \in [Missions -> Nat] /\ events \in [Missions -> Nat]
      /\ snapshots \in [1..MaxSnapshots -> Snapshot]
      /\ ws \in Sockets \cup {None} /\ None \notin Sockets
      /\ \A s \in Sockets : sock[s] # "none" => s = ws
      /\ ws # None => sock[ws] # "none"
  BY LiveTypes DEF ArrivalInv, Hubbed
<1>2. m \notin lost => There(m)
  BY DEF ArrivalInv, ChangesArrive, Waiting
<1>3. OnItsWay(m) <=> Opening \/ Sent(m) \/ Asked(m)
  BY DEF OnItsWay
<1>4. OnItsWay(m)' <=> Opening' \/ Sent(m)' \/ Asked(m)'
  BY DEF OnItsWay
<1> HIDE DEF There, Opening, Sent, Asked
<1>5. ASSUME m \notin lost, Due(row'[m]) = Due(row[m]), view' = view, Waiting(m) => Waiting(m)',
             Opening => Opening', Sent(m) => Opening' \/ Sent(m)',
             Asked(m) => Asked(m)'
      PROVE  There(m)'
  BY <1>2, <1>3, <1>4, <1>5 DEF There
<1>6. UNCHANGED <<ws, sock, hub>> => (Opening => Opening')
  BY DEF Opening
<1>7. UNCHANGED <<ws, chan>> /\ Due(row'[m]) = Due(row[m]) => (Sent(m) => Sent(m)')
  BY DEF Sent
<1>8. UNCHANGED snapshots /\ Due(row'[m]) = Due(row[m]) => (Asked(m) => Asked(m)')
  BY DEF Asked
<1>9. ASSUME NEW n \in Missions, Write(n) PROVE There(m)'
  <2>1. PICK next \in Created..Ended :
          /\ <<row[n], next>> \in Moves /\ row' = [row EXCEPT ![n] = next]
          /\ unpublished' = IF next \in Announcing THEN [unpublished EXCEPT ![n] = @ + 1] ELSE unpublished
          /\ UNCHANGED <<events, hub, chan, sock, ws, snapshots, view, lost>>
    BY <1>9 DEF Write, server, connection
  <2>2. CASE m = n /\ next \in Announcing
    <3>1. Waiting(m)'
      BY <1>1, <2>1, <2>2 DEF Waiting
    <3>2. QED
      BY <3>1 DEF There
  <2>3. CASE m # n \/ next \notin Announcing
    <3>1. Due(row'[m]) = Due(row[m])
      <4>1. CASE m # n
        BY <1>1, <2>1, <4>1
      <4>2. CASE m = n /\ next \notin Announcing
        <5>1. row'[m] = next /\ row[m] \in 0..Gone
          BY <1>1, <2>1, <4>2
        <5>2. QED
          BY <2>1, <4>2, <5>1, QuietMoves
      <4>3. QED
        BY <2>3, <4>1, <4>2
    <3>2. Waiting(m) => Waiting(m)'
      BY <1>1, <2>1 DEF Waiting
    <3>3. QED
      BY <1>5, <1>6, <1>7, <1>8, <2>1, <3>1, <3>2
  <2>4. QED
    BY <2>2, <2>3
<1>9a. ASSUME NEW n \in Missions, Publish(n) PROVE There(m)'
  <2>1. /\ unpublished' = [unpublished EXCEPT ![n] = @ - 1] /\ events' = [events EXCEPT ![n] = @ + 1]
        /\ UNCHANGED <<row, hub, chan, sock, ws, snapshots, view, lost>>
    BY <1>9a DEF Publish, server, connection
  <2>2. Waiting(m) => Waiting(m)'
    <3>1. CASE m = n
      BY <1>1, <2>1, <3>1 DEF Waiting
    <3>2. CASE m # n
      BY <1>1, <2>1, <3>2 DEF Waiting
    <3>3. QED
      BY <3>1, <3>2
  <2>3. QED
    BY <1>5, <1>6, <1>7, <1>8, <2>1, <2>2
<1>9b. ASSUME NEW n \in Missions, LosePublish(n) PROVE There(m)'
  <2>1. /\ unpublished' = [unpublished EXCEPT ![n] = @ - 1]
        /\ UNCHANGED <<row, events, hub, chan, sock, ws, snapshots, view>>
        /\ lost' = Caught(lost \cup {n}, view, chan)
    BY <1>9b DEF LosePublish, server, connection
  <2>2. CASE m \in lost \cup {n}
    <3>1. ~(view[m] < Due(row[m]))
      BY <2>1, <2>2 DEF Caught
    <3>2. view[m] \in 0..Ended /\ Due(row[m]) \in 0..Ended
      BY <1>1, Ranks DEF Rows
    <3>3. view[m] >= Due(row[m])
      BY <3>1, <3>2, Ranks
    <3>4. QED
      BY <2>1, <3>3 DEF There
  <2>3. CASE m \notin lost \cup {n}
    <3>1. Waiting(m) => Waiting(m)'
      BY <1>1, <2>1, <2>3 DEF Waiting
    <3>2. QED
      BY <1>5, <1>6, <1>7, <1>8, <2>1, <2>3, <3>1
  <2>4. QED
    BY <2>2, <2>3
<1>10. CASE ForgetAll
  <2>1. /\ row' = [n \in Missions |-> IF row[n] = Ended THEN Gone ELSE row[n]]
        /\ UNCHANGED <<unpublished, hub, chan, sock, ws, snapshots, view>>
        /\ m \notin lost /\ row'[m] # Gone /\ ~(events[m] > 0)
    BY <1>10 DEF ForgetAll, server, connection
  <2>2. row'[m] = row[m] /\ (Waiting(m) => Waiting(m)')
    BY <1>1, <2>1 DEF Waiting
  <2>3. QED
    BY <1>5, <1>6, <1>7, <1>8, <2>1, <2>2
<1>11. ASSUME NEW n \in Missions, Broadcast(n) PROVE There(m)'
  <2> DEFINE news == [mission |-> n, version |-> row[n]]
  <2>1. /\ events' = [events EXCEPT ![n] = @ - 1] /\ m \notin lost
        /\ UNCHANGED <<row, unpublished, hub, sock, ws, snapshots, view>>
        /\ chan' = [s \in Sockets |-> IF hub[s] = "added" /\ row[n] # Gone
                                      THEN Append(chan[s], news) ELSE chan[s]]
        /\ \A s \in Sockets : sock[s] = "open" /\ hub[s] = "none" => m # n
    BY <1>11 DEF Broadcast, server, connection
  <2>2. CASE Opening
    BY <1>4, <1>6, <2>1, <2>2 DEF There
  <2>3. CASE ~Opening
    <3>1. ws \in Sockets /\ sock[ws] = "open" /\ hub[ws] # "removed"
      BY <1>1, <2>3 DEF Opening, SocketState
    <3>2. hub[ws] \in {"none", "added"}
      BY <1>1, <3>1 DEF HubState
    <3>3. chan[ws] \in Seq(Message) /\ Len(chan[ws]) \in Nat
      BY <1>1, <3>1
    <3>4. chan'[ws] = IF hub[ws] = "added" /\ row[n] # Gone THEN Append(chan[ws], news) ELSE chan[ws]
      BY <2>1, <3>1
    <3>5. CASE m = n
      <4>1. hub[ws] = "added" /\ row[m] # Gone
        BY <1>1, <2>1, <3>1, <3>2, <3>5 DEF GoneIsLost
      <4>2. Len(chan[ws]) + 1 \in 1..Len(chan'[ws]) /\ chan'[ws][Len(chan[ws]) + 1] = news
        BY <3>3, <3>4, <3>5, <4>1
      <4>3. row[m] >= Due(row[m])
        BY <1>1, Ranks, LiveTypes
      <4>4. Sent(m)'
        <5>1. news.mission = m /\ news.version >= Due(row'[m]) /\ ws' = ws
          BY <2>1, <3>5, <4>3
        <5> HIDE DEF news
        <5>2. QED
          BY <4>2, <5>1 DEF Sent
      <4>5. QED
        BY <1>4, <4>4 DEF There
    <3>6. CASE m # n
      <4>1. Waiting(m) => Waiting(m)'
        BY <1>1, <2>1, <3>6 DEF Waiting
      <4>2. ASSUME NEW i \in 1..Len(chan[ws])
            PROVE  i \in 1..Len(chan'[ws]) /\ chan'[ws][i] = chan[ws][i]
        <5> HIDE DEF news
        <5>1. CASE hub[ws] = "added" /\ row[n] # Gone
          BY <3>3, <3>4, <5>1
        <5>2. CASE ~(hub[ws] = "added" /\ row[n] # Gone)
          BY <3>4, <5>2
        <5>3. QED
          BY <5>1, <5>2
      <4>3. Sent(m) => Sent(m)'
        BY <2>1, <4>2 DEF Sent
      <4>4. QED
        BY <1>5, <1>6, <1>8, <2>1, <4>1, <4>3
    <3>7. QED
      BY <3>5, <3>6
  <2>4. QED
    BY <2>2, <2>3
<1>12. ASSUME NEW s \in Sockets, HubAdd(s) \/ Break(s) PROVE There(m)'
  <2>1. /\ UNCHANGED <<database, chan, sock, ws, snapshots, view, lost>>
        /\ \/ hub' = [hub EXCEPT ![s] = "added"] /\ hub[s] = "none"
           \/ hub' = [hub EXCEPT ![s] = "removed"]
    BY <1>12 DEF HubAdd, Break, connection
  <2>2. \A t \in Sockets : hub[t] = "removed" => hub'[t] = "removed"
    BY <1>1, <2>1
  <2>3. Opening => Opening'
    BY <1>1, <2>1, <2>2 DEF Opening
  <2>4. row' = row /\ (Waiting(m) => Waiting(m)')
    BY <2>1 DEF database, Waiting
  <2>5. QED
    BY <1>5, <1>7, <1>8, <2>1, <2>3, <2>4
<1>13. CASE ServerCrash
  <2>1. /\ UNCHANGED <<sock, ws>>
        /\ hub' = [s \in Sockets |-> IF sock[s] = "none" THEN "none" ELSE "removed"]
    BY <1>13 DEF ServerCrash, connection
  <2>2. ws # None => hub'[ws] = "removed"
    BY <1>1, <2>1
  <2>3. Opening'
    BY <2>1, <2>2 DEF Opening
  <2>4. QED
    BY <1>4, <2>3 DEF There
<1>14. CASE ServerStart
  <2>1. ~up /\ UNCHANGED <<hub, sock, ws>>
    BY <1>14 DEF ServerStart, connection
  <2>2. ws # None => sock[ws] = "connecting" \/ hub[ws] = "removed"
    BY <1>1, <2>1 DEF Hubbed, SocketState
  <2>3. Opening'
    BY <2>1, <2>2 DEF Opening
  <2>4. QED
    BY <1>4, <2>3 DEF There
<1>15. CASE PageMounts \/ RetryFires
  <2>1. /\ UNCHANGED <<database, hub, chan, snapshots, view, lost>>
        /\ \E timers : Connect(timers)
    BY <1>15 DEF PageMounts, RetryFires, server
  <2>2. \/ UNCHANGED <<sock, ws>>
        \/ Fresh \in Sockets /\ sock' = [sock EXCEPT ![Fresh] = "connecting"] /\ ws' = Fresh
    BY <2>1, FreshIsFree DEF Connect
  <2>3. CASE UNCHANGED <<sock, ws>>
    <3>1. row' = row /\ (Waiting(m) => Waiting(m)')
      BY <2>1 DEF database, Waiting
    <3>2. QED
      BY <1>5, <1>6, <1>7, <1>8, <2>1, <2>3, <3>1
  <2>4. CASE Fresh \in Sockets /\ sock' = [sock EXCEPT ![Fresh] = "connecting"] /\ ws' = Fresh
    <3>1. Opening'
      BY <1>1, <2>4 DEF Opening
    <3>2. QED
      BY <1>4, <3>1 DEF There
  <2>5. QED
    BY <2>2, <2>3, <2>4
<1>16. ASSUME AskSnapshot PROVE There(m)'
  <2>1. PICK i \in 1..MaxSnapshots :
          /\ snapshots[i].stage = "free" /\ snapshots'[i].stage = "asked"
          /\ \A j \in 1..MaxSnapshots : j # i => snapshots'[j] = snapshots[j]
    BY <1>1, <1>16, AskAsks
  <2>2. Asked(m)'
    BY <2>1 DEF Asked
  <2>3. QED
    BY <1>4, <2>2 DEF There
<1>17. CASE RefreshClicked \/ \E s \in Sockets : Opened(s)
  BY <1>16, <1>17 DEF RefreshClicked, Opened
<1>18. ASSUME NEW s \in Sockets, Delivered(s) PROVE There(m)'
  <2> DEFINE e == Head(chan[s])
  <2>1. /\ sock[s] = "open" /\ chan[s] # <<>> /\ view' = [view EXCEPT ![e.mission] = e.version]
        /\ chan' = [chan EXCEPT ![s] = Tail(chan[s])]
        /\ UNCHANGED <<database, hub, sock, ws, snapshots>> /\ lost' = Caught(lost, view', chan')
    BY <1>18 DEF Delivered, server, connection
  <2>2. /\ s = ws /\ chan[s] \in Seq(Message) /\ Len(chan[s]) \in Nat /\ Len(chan[s]) > 0
        /\ e \in Message /\ e = chan[s][1]
        /\ chan'[s] = Tail(chan[s]) /\ Len(chan'[s]) = Len(chan[s]) - 1
        /\ \A j \in 1..(Len(chan[s]) - 1) : chan'[s][j] = chan[s][j + 1]
    BY <1>1, <2>1
  <2> HIDE DEF e
  <2>3. row' = row /\ (Waiting(m)' <=> Waiting(m)) /\ (Opening => Opening') /\ (Asked(m) => Asked(m)')
    BY <1>6, <1>8, <2>1 DEF database, Waiting
  <2>4. view' \in Rows /\ view'[m] \in 0..Ended /\ Due(row[m]) \in 0..Ended
    <3>1. e.mission \in Missions /\ e.version \in 0..Ended
      BY <2>2, Ranks DEF Message
    <3>2. view' \in Rows
      BY <1>1, <2>1, <3>1 DEF Rows
    <3>3. QED
      BY <1>1, <3>2, Ranks DEF Rows
  <2>5. CASE m \in lost
    <3>1. ~(view'[m] < Due(row[m]))
      BY <2>1, <2>5 DEF Caught
    <3>2. view'[m] >= Due(row[m])
      BY <2>4, <3>1, Ranks
    <3>3. QED
      BY <2>3, <3>2 DEF There
  <2>6. CASE m \notin lost /\ m = e.mission
    <3>1. view'[m] = e.version
      BY <1>1, <2>1, <2>6 DEF Rows
    <3>2. CASE Waiting(m) \/ Opening
      BY <1>4, <2>3, <3>2 DEF There
    <3>3. CASE ~Waiting(m) /\ ~Opening
      <4>1. hub[s] = "added"
        BY <1>1, <2>1, <2>2, <3>3 DEF Opening, Hubbed, HubState
      <4>2. 1 \in 1..Len(chan[s]) /\ chan[s][1].mission = m
        BY <2>2, <2>6
      <4>3. PICK j \in 1..Len(chan[s]) : chan[s][j].mission = m /\ chan[s][j].version >= Due(row[m])
        BY <1>1, <2>6, <3>3, <4>1, <4>2 DEF Told
      <4>4. CASE j = 1
        <5>1. e.version >= Due(row[m])
          BY <2>2, <4>3, <4>4
        <5>2. QED
          BY <2>3, <3>1, <5>1 DEF There
      <4>5. CASE j # 1
        <5>1. j - 1 \in 1..Len(chan'[s]) /\ chan'[s][j - 1] = chan[s][j]
          BY <2>2, <4>3, <4>5
        <5>2. Sent(m)'
          BY <2>1, <2>2, <2>3, <4>3, <5>1 DEF Sent
        <5>3. QED
          BY <1>4, <5>2 DEF There
      <4>6. QED
        BY <4>4, <4>5
    <3>4. QED
      BY <3>2, <3>3
  <2>7. CASE m \notin lost /\ m # e.mission
    <3>1. view'[m] = view[m]
      BY <1>1, <2>1, <2>7 DEF Rows
    <3>2. ASSUME Sent(m) PROVE Sent(m)'
      <4>1. PICK i \in 1..Len(chan[s]) : chan[s][i].mission = m /\ chan[s][i].version >= Due(row[m])
        BY <2>2, <3>2 DEF Sent
      <4>2. i # 1
        BY <2>2, <2>7, <4>1
      <4>3. i - 1 \in 1..Len(chan'[s]) /\ chan'[s][i - 1] = chan[s][i]
        BY <2>2, <4>1, <4>2
      <4>4. QED
        BY <2>1, <2>2, <2>3, <4>1, <4>3 DEF Sent
    <3>3. QED
      BY <1>2, <1>3, <1>4, <2>3, <2>7, <3>1, <3>2 DEF There
  <2>8. QED
    BY <2>5, <2>6, <2>7
<1>19. ASSUME NEW s \in Sockets, Closed(s) PROVE There(m)'
  <2>1. Opening'
    BY <1>19 DEF Closed, Opening
  <2>2. QED
    BY <1>4, <2>1 DEF There
<1>20. ASSUME NEW i \in 1..MaxSnapshots, Answered(i) PROVE There(m)'
  <2>1. /\ snapshots' = [snapshots EXCEPT ![i] = [stage |-> "answered", got |-> Listed]]
        /\ UNCHANGED <<row, lost>>
    BY <1>20 DEF Answered, database
  <2>2. row[m] # Gone
    BY <1>1, <2>1 DEF GoneIsLost
  <2>3. Listed[m] = row[m] /\ row[m] >= Due(row[m])
    BY <1>1, <2>2, Ranks, LiveTypes DEF Listed
  <2>4. snapshots'[i].stage = "answered" /\ snapshots'[i].got[m] >= Due(row'[m])
    BY <1>1, <2>1, <2>3
  <2>5. Asked(m)'
    BY <2>4 DEF Asked
  <2>6. QED
    BY <1>4, <2>5 DEF There
<1>21. ASSUME NEW i \in 1..MaxSnapshots, Failed(i) PROVE There(m)'
  <2>1. snapshots' = [snapshots EXCEPT ![i].stage = "failed"]
    BY <1>21 DEF Failed
  <2>2. snapshots'[i].stage = "failed"
    BY <1>1, <2>1 DEF Snapshot
  <2>3. Asked(m)'
    BY <2>2 DEF Asked
  <2>4. QED
    BY <1>4, <2>3 DEF There
<1>22. ASSUME NEW i \in 1..MaxSnapshots, Applied(i) PROVE There(m)'
  <2> DEFINE got == snapshots[i].got
  <2>1. /\ UNCHANGED <<database, hub, chan, sock, ws>>
        /\ snapshots[i].stage \in {"answered", "failed"}
        /\ snapshots' = [snapshots EXCEPT ![i] = Free]
        /\ view' = IF snapshots[i].stage = "answered" THEN got ELSE view
        /\ lost' = Caught(IF snapshots[i].stage = "answered"
                          THEN lost \cup {n \in Missions : got[n] < view[n]}
                          ELSE Missions, view', chan)
    BY <1>22 DEF Applied, server, connection
  <2>2. row' = row /\ (Waiting(m)' <=> Waiting(m))
    BY <2>1 DEF database, Waiting
  <2>3. /\ got[m] \in 0..Ended /\ view[m] \in 0..Ended /\ Due(row[m]) \in 0..Ended /\ Ended = 4
    <3>1. got \in Rows
      BY <1>1 DEF Snapshot
    <3> HIDE DEF got
    <3>2. QED
      BY <1>1, <3>1, Ranks DEF Rows
  <2>4. view' = got \/ view' = view
    BY <2>1
  <2>5. CASE view'[m] >= Due(row[m])
    BY <2>2, <2>5 DEF There
  <2>6. CASE ~(view'[m] >= Due(row[m]))
    <3>1. view'[m] < Due(row[m])
      BY <2>3, <2>4, <2>6
    <3>2. snapshots[i].stage = "answered" /\ m \notin lost /\ ~(got[m] < view[m]) /\ view' = got
      BY <2>1, <3>1 DEF Caught
    <3>3. ~(view[m] >= Due(row[m])) /\ ~(got[m] >= Due(row[m]))
      BY <2>3, <3>1, <3>2
    <3>4. ASSUME Asked(m) PROVE Asked(m)'
      <4>1. PICK j \in 1..MaxSnapshots :
              \/ snapshots[j].stage \in {"asked", "failed"}
              \/ snapshots[j].stage = "answered" /\ snapshots[j].got[m] >= Due(row[m])
        BY <3>4 DEF Asked
      <4>2. j # i
        BY <3>2, <3>3, <4>1
      <4>3. snapshots'[j] = snapshots[j]
        BY <1>1, <2>1, <4>2
      <4>4. QED
        BY <2>2, <4>1, <4>3 DEF Asked
    <3>5. QED
      BY <1>2, <1>3, <1>4, <1>6, <1>7, <2>1, <2>2, <3>2, <3>3, <3>4 DEF There
  <2>7. QED
    BY <2>5, <2>6
<1>23. CASE UNCHANGED vars
  <2>1. UNCHANGED <<database, hub, chan, sock, ws, snapshots, view, lost>>
    BY <1>23 DEF vars, server, connection
  <2>2. row' = row /\ (Waiting(m) => Waiting(m)')
    BY <2>1 DEF database, Waiting
  <2>3. QED
    BY <1>5, <1>6, <1>7, <1>8, <2>1, <2>2
<1>24. QED
  BY <1>9, <1>10, <1>11, <1>12, <1>13, <1>14, <1>15, <1>17, <1>18, <1>19, <1>20, <1>21, <1>22,
     <1>23, <1>9a, <1>9b DEF Next, Server, Page, SocketEvent, Request

\* Nothing is under way before a page is mounted, and nothing is there to be shown.
LEMMA ArrivalStarts == Init => ArrivalInv
<1> SUFFICES ASSUME Init PROVE ArrivalInv
  OBVIOUS
<1>1. LiveInv
  BY LiveStarts
<1>2. /\ row = Nothing /\ ws = None /\ view = Nothing /\ \A m \in Missions : Nothing[m] = 0
  BY DEF Init, Nothing
<1>3. GoneIsLost
  BY <1>2, Ranks DEF GoneIsLost
<1>4. Hubbed
  BY <1>2 DEF Init, Hubbed
<1>5. \A m \in Missions : Told(m)
  BY DEF Init, Told
<1>6. ChangesArrive
  BY <1>2 DEF OnItsWay, ChangesArrive
<1>7. QED
  BY <1>1, <1>3, <1>4, <1>5, <1>6 DEF ArrivalInv

\* All parts together.
LEMMA ArrivalKept == ArrivalInv /\ [Next]_vars => ArrivalInv'
<1> SUFFICES ASSUME ArrivalInv, [Next]_vars PROVE ArrivalInv'
  OBVIOUS
<1>1. LiveInv /\ GoneIsLost /\ Hubbed
  BY DEF ArrivalInv
<1>2. LiveInv' /\ GoneIsLost' /\ Hubbed'
  BY <1>1, LiveKept, GoneIsLostKept, HubbedKept
<1>3. (\A m \in Missions \ lost : Told(m))'
  BY ToldKept
<1>4. ChangesArrive'
  BY ArrivesKept
<1>5. QED
  BY <1>2, <1>3, <1>4 DEF ArrivalInv

\* For any missions, sockets, faults and requests in progress: the page shows a mission
\* at least in its last announced state - a mission that was only created is in none -,
\* or its event is yet to be published or handled, or that state is on its way, by a
\* message, by a request, or by the connection that is about to open; or the page has
\* missed something of it, as a lost event, an older snapshot and a deletion make it.
THEOREM EveryChangeArrives == Spec => []ChangesArrive
<1>1. ArrivalInv => ChangesArrive
  BY DEF ArrivalInv
<1>2. QED
  BY <1>1, ArrivalStarts, ArrivalKept, PTL DEF Spec
-------------------------------------------------------------------------------
(* The home page. *)

\* What has been read out is remembered, and nothing has been read out twice.
ReadOnce ==
  /\ spoken \subseteq Ids /\ said \in [Ids -> 0..2]
  /\ \A m \in Ids : said[m] <= 1 /\ (m \notin spoken => said[m] = 0)

\* One run of the effect keeps that, on whatever list.
LEMMA EffectReadsOnce ==
  ASSUME NEW list, NEW on, NEW before \in SUBSET Ids, NEW heard \in [Ids -> 0..2],
         \A m \in Ids : heard[m] <= 1 /\ (m \notin before => heard[m] = 0),
         SpeakResults(list, on, before, heard)
  PROVE  ReadOnce'
<1> DEFINE ended == {m \in Ids : list[m] \in {"ended", "silent"}}
           fresh == IF on THEN ended \ before ELSE {}
<1>1. /\ spoken' = before \cup fresh
      /\ said' = [m \in Ids |-> IF m \in fresh /\ list[m] = "ended" /\ heard[m] < 2
                                     THEN heard[m] + 1 ELSE heard[m]]
  BY DEF SpeakResults
<1>2. fresh \subseteq Ids /\ fresh \cap before = {}
  OBVIOUS
<1> HIDE DEF fresh
<1>3. ASSUME NEW m \in Ids
      PROVE  said'[m] \in 0..1 /\ (m \notin spoken' => said'[m] = 0)
  <2>1. CASE m \in fresh
    <3>1. heard[m] = 0
      BY <1>2, <2>1
    <3>2. said'[m] \in {0, 1}
      BY <1>1, <3>1
    <3>3. QED
      BY <1>1, <2>1, <3>2
  <2>2. CASE m \notin fresh
    <3>1. said'[m] = heard[m] /\ heard[m] \in 0..1
      BY <1>1, <2>2
    <3>2. QED
      BY <1>1, <3>1
  <2>3. QED
    BY <2>1, <2>2
<1>4. spoken' \subseteq Ids
  BY <1>1, <1>2
<1>5. said' \in [Ids -> 0..2]
  BY <1>1, <1>3
<1>6. QED
  BY <1>3, <1>4, <1>5 DEF ReadOnce

\* Every step keeps it.
LEMMA ReadOnceStep == ReadOnce /\ [HomeNext]_homeVars => ReadOnce'
<1> SUFFICES ASSUME ReadOnce, [HomeNext]_homeVars PROVE ReadOnce'
  OBVIOUS
<1>1. CASE ListChanges
  BY <1>1, EffectReadsOnce DEF ListChanges, ReadOnce
<1>2. CASE ToggleVoiceReplies
  BY <1>2, EffectReadsOnce DEF ToggleVoiceReplies, ReadOnce
<1>3. CASE Reopen
  <2> DEFINE none == [m \in Ids |-> 0]
  <2>1. none \in [Ids -> 0..2] /\ \A m \in Ids : none[m] = 0
    OBVIOUS
  <2>2. SpeakResults(missions, voiceReplies, {}, none)
    BY <1>3 DEF Reopen
  <2> HIDE DEF none
  <2>3. QED
    BY <2>1, <2>2, EffectReadsOnce
<1>4. CASE UNCHANGED results
  BY <1>4 DEF results, ReadOnce
<1>5. ASSUME NEW traits, HandleInput(traits) PROVE UNCHANGED results
  BY <1>5 DEF HandleInput, AnswerLocally, AskChat, MakeMission
<1>6. QED
  BY <1>1, <1>2, <1>3, <1>4, <1>5 DEF HomeNext, ReplyTimer, Dismiss, Type, Submit, Heard, QuickAction,
    MakeMission, CreateEnds, ChatAnswered, homeVars

\* However often the list goes back to an earlier state, and voice replies are
\* switched, no result is read out twice while the page is open.
THEOREM ResultsAreSpokenOnce == HomeSpec => []SpokenOnce
<1>1. HomeInit => ReadOnce
  BY DEF HomeInit, ReadOnce
<1>2. ReadOnce => SpokenOnce
  BY DEF ReadOnce, SpokenOnce
<1>3. QED
  BY <1>1, <1>2, ReadOnceStep, PTL DEF HomeSpec
-------------------------------------------------------------------------------
\* Every step leaves the bubble true: a question is put there when it is asked and
\* replaced when it is answered, whatever else the bubble has shown meanwhile.
LEMMA ThinkingStep == ThinkingIsTrue /\ [HomeNext]_homeVars => ThinkingIsTrue'
<1> SUFFICES ASSUME ThinkingIsTrue, [HomeNext]_homeVars PROVE ThinkingIsTrue'
  OBVIOUS
<1> USE DEF ThinkingIsTrue
<1>1. CASE UNCHANGED <<reply, chats>>
  BY <1>1
<1>2. CASE reply' = NoReply
  BY <1>2 DEF NoReply
<1>3. ASSUME NEW c, ShowChatReply("answer", c) PROVE ThinkingIsTrue'
  BY <1>3 DEF ShowChatReply
<1>4. ASSUME NEW traits, HandleInput(traits) PROVE ThinkingIsTrue'
  <2>1. CASE AnswerLocally
    BY <1>3, <2>1 DEF AnswerLocally
  <2>2. CASE AskChat
    BY <2>2 DEF AskChat, ShowChatReply
  <2>3. CASE MakeMission(TRUE)
    BY <1>1, <2>3 DEF MakeMission, chat
  <2>4. QED
    BY <1>4, <2>1, <2>2, <2>3 DEF HandleInput
<1>5. CASE ListChanges \/ ToggleVoiceReplies \/ Type \/ CreateEnds \/ QuickAction \/ UNCHANGED homeVars
  BY <1>1, <1>5 DEF ListChanges, ToggleVoiceReplies, Type, CreateEnds, QuickAction, MakeMission,
    chat, homeVars
<1>6. CASE Reopen \/ ReplyTimer \/ Dismiss
  BY <1>2, <1>6 DEF Reopen, ReplyTimer, Dismiss
<1>7. ASSUME NEW c \in 1..MaxChats, ChatAnswered(c) PROVE ThinkingIsTrue'
  BY <1>3, <1>7 DEF ChatAnswered
<1>8. QED
  BY <1>4, <1>5, <1>6, <1>7 DEF HomeNext, Submit, Heard

\* However many chats are in progress and in whatever order they are answered, the
\* bubble says "thinking" only for a question without an answer.
THEOREM ThinkingIsNeverStale == HomeSpec => []ThinkingIsTrue
<1>1. HomeInit => ThinkingIsTrue
  BY DEF HomeInit, ThinkingIsTrue, NoReply
<1>2. QED
  BY <1>1, ThinkingStep, PTL DEF HomeSpec
===============================================================================
