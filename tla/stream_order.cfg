SPECIFICATION FairSpec
CONSTANTS
  Missions = {m1}
  Clients = {c1, c2}
  MaxFaults = 2
INVARIANTS TypeOK NothingSkipped RowsKeepUp
PROPERTIES InOrder EventsAreHandled
