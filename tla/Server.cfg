SPECIFICATION FairSpec
CONSTANTS
  k1 = k1
  k2 = k2
  user = user
  NoService = NoService
  NoConn = NoConn
  NoRequest = NoRequest
  Conns <- MCConns
  Occurring <- MCKinds
  Services <- MCServices
  MaxRequests = 2
  Parts = 1
  ReadCap = 2
INVARIANTS
  TypeOK
  DiscoveredIsFound
  AnswersTell
  AnsweredInOrder
  SocketsTracked
  OnlyResetsTerminate
  
  NoCircularWait
PROPERTIES
  OnlyNestedStalls
  ExitCompletes
CHECK_DEADLOCK FALSE
