SPECIFICATION FairSpec
CONSTANTS
  Missions = {m1}
  Workers = {w1}
  None = None
  UserTargets = {"Cancelled"}
  MaxTurns = 1
  MaxCrashes = 1
  MaxStops = 0
  MaxFaults = 0
PROPERTY EveryMissionEnds
