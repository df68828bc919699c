SPECIFICATION FairSpec
CONSTANTS
  Missions = {m1, m2}
  Workers = {w1}
  None = None
  UserTargets = {"Cancelled"}
  MaxTurns = 1
  MaxCrashes = 0
  MaxStops = 1
  MaxFaults = 0
INVARIANTS TypeOK OutcomeFitsStatus
PROPERTIES KeepsExecutor EveryMissionEnds
