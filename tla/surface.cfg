SPECIFICATION SurfaceSpec
CONSTANTS
  None = None
  Bytes = {0}
  MaxSilence = 2
  CoreStates = {"idle", "listening", "speaking", "thinking", "error"}
  Missions = {m1}
  Ids = {m1}
  Sockets = {s1, s2}
  MaxSnapshots = 2
  MaxRetries = 2
  MaxFaults = 1
  Tools = {"read"}
  Limit = 3
  MaxEvents = 5
  MaxSlips = 1
  MaxChats = 2
  MaxCreates = 2
  MaxData = 1
CHECK_DEADLOCK FALSE
INVARIANTS
  SurfaceTypeOK OneFrameLoop RingFits OneConnection ChangesArrive CompletedCard
  SpokenOnce ThinkingIsTrue FreshPages
PROPERTIES DriveSettles CatchesUp
