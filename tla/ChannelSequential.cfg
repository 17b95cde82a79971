SPECIFICATION FairSpec
CONSTANTS
  a1 = a1
  a2 = a2
  a3 = a3
  s1 = s1
  s2 = s2
  server1 = server1
  server2 = server2
  NoCall = NoCall
  NoServer = NoServer
  Calls <- MCMixed
  SyncCalls <- MCSync
  Servers <- MCOne
  Concurrent = FALSE
  Parts = 1
  ReadCap = 2
INVARIANTS
  TypeOK
  OwnResponse
  PipelineAligned
PROPERTIES
  ImplementsRpcCall
  SendLetsGo
CHECK_DEADLOCK FALSE
