SPECIFICATION FairSpec
CONSTANTS
  p1 = p1
  p2 = p2
  login = login
  register = register
  NoData = NoData
  NoPath = NoPath
  Paths <- MCOne
  Data <- MCData2
  WatchPaths <- MCOne
  Discovers = FALSE
  SessionLoss = TRUE
  MaxEvents = 2
INVARIANTS
  ConnectedFollows
PROPERTIES
  WatchKept
  StaleOnlyUnwatched
  ChangeIsTold
  ConnectedConverges
CHECK_DEADLOCK FALSE
