SPECIFICATION Spec
CONSTANTS
  Missions = {m1}
  Workers = {w1}
  None = None
  UserTargets = {"Cancelled"}
  MaxTurns = 1
  MaxCrashes = 0
  MaxStops = 0
  MaxFaults = 0
PROPERTY TerminalOutcomeFrozen
