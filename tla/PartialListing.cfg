SPECIFICATION Spec
CONSTANTS
  p1 = p1
  p2 = p2
  login = login
  register = register
  NoData = NoData
  NoPath = NoPath
  Paths <- MCTwo
  Data <- MCData
  WatchPaths <- MCNone
  Discovers = TRUE
  SessionLoss = FALSE
  MaxEvents = 2
PROPERTIES
  DiscoversAll
CHECK_DEADLOCK FALSE
