SPECIFICATION Spec
CONSTANTS
  Missions = {m1}
  Workers = {w1, w2}
  None = None
  UserTargets = {"Created", "Running", "WaitingForApproval", "Verifying", "Completed", "Failed", "Cancelled"}
  MaxTurns = 1
  MaxCrashes = 1
  MaxStops = 1
  MaxFaults = 1
SYMMETRY Symmetry
INVARIANTS ClaimedOnce EventsFollowState
PROPERTY ImplementsLifecycle
