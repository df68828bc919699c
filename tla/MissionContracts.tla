--------------------------- MODULE MissionContracts ---------------------------
(***************************************************************************)
(* The vocabulary every mission module shares: the statuses of a mission   *)
(* row and the table of transitions the stores enforce                     *)
(* (src/Kerai.Contracts/Contracts.cs, MissionTransitions in                *)
(* src/Kerai.Runtime/Runtime.cs).                                          *)
(***************************************************************************)

\* enum MissionStatus.
Status == {"Created", "Running", "WaitingForApproval", "Verifying",
           "Completed", "Failed", "Cancelled"}

\* The statuses SetResult and FailMissionAsync treat as final, and the ones
\* "Forget all" deletes.
Terminal == {"Completed", "Failed", "Cancelled"}

\* MissionTransitions.Allowed: the targets each status may move to.
Allowed ==
  [s \in Status |->
     CASE s = "Created"            -> {"Running", "Cancelled"}
       [] s = "Running"            -> {"WaitingForApproval", "Verifying"} \cup Terminal
       [] s = "WaitingForApproval" -> {"Running", "Failed", "Cancelled"}
       [] s = "Verifying"          -> {"Completed", "Failed", "Running"}
       [] OTHER                    -> {}]

\* MissionTransitions.IsAllowed.
IsAllowed(current, next) == current \in Status /\ next \in Allowed[current]

\* A mission id is a fresh GUID. It has no row before Create, and none after
\* ClearTerminal deletes it; the id is never used again.
NoRow == {"Unborn", "Deleted"}
RowState == Status \cup NoRow
===============================================================================
