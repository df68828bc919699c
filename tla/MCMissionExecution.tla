-------------------------- MODULE MCMissionExecution --------------------------
(***************************************************************************)
(* MissionExecution on small sets of missions and workers.                 *)
(***************************************************************************)
EXTENDS MissionExecution, TLC

\* Missions and workers are interchangeable (not used with liveness).
Symmetry == Permutations(Missions) \cup Permutations(Workers)
===============================================================================
