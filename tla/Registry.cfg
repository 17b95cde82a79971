SPECIFICATION FairSpec
CONSTANTS
  p1 = p1
  p2 = p2
  login = login
  register = register
  NoData = NoData
  NoPath = NoPath
  Paths <- MCTwo
  Data <- MCData
  WatchPaths <- MCNone
  Discovers = TRUE
  SessionLoss = TRUE
  MaxEvents = 2
INVARIANTS
  TypeOK
PROPERTIES
  DeadInstanceForgotten
  EmptyListForgotten
CHECK_DEADLOCK FALSE
