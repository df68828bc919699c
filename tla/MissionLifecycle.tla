--------------------------- MODULE MissionLifecycle ---------------------------
(***************************************************************************)
(* What the mission store promises, with no SQL, no callers and no races:  *)
(* every mission is created once, moves only along MissionTransitions, one *)
(* whole step at a time, and leaves the table only when it is terminal.    *)
(* The SQLite store (SqliteMissionStore) and the running system            *)
(* (MissionExecution) are both shown to implement this specification.      *)
(***************************************************************************)
EXTENDS MissionContracts

CONSTANT Missions
VARIABLE status     \* [Missions -> RowState], the Status column of each row

Init == status = [m \in Missions |-> "Unborn"]

\* IMissionStore.Create: one INSERT with Status = 'Created'.
Create(m) ==
  /\ status[m] = "Unborn"
  /\ status' = [status EXCEPT ![m] = "Created"]

\* IMissionStore.Transition (and ClaimNext, a transition to Running): the
\* move is one the table allows from the status the row has at that instant.
Move(m, next) ==
  /\ IsAllowed(status[m], next)
  /\ status' = [status EXCEPT ![m] = next]

\* SqliteMissionStore.ClearTerminal: every terminal row goes, no other does.
ForgetTerminal ==
  status' = [m \in Missions |-> IF status[m] \in Terminal THEN "Deleted" ELSE status[m]]

Next ==
  \/ \E m \in Missions : Create(m) \/ \E next \in Status : Move(m, next)
  \/ ForgetTerminal

Spec == Init /\ [][Next]_status
===============================================================================
