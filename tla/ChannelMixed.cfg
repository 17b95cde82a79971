SPECIFICATION Spec
CONSTANTS
  a1 = a1
  a2 = a2
  a3 = a3
  s1 = s1
  s2 = s2
  server1 = server1
  server2 = server2
  NoCall = NoCall
  NoServer = NoServer
  Calls <- MCTwoSync
  SyncCalls <- MCSync
  Servers <- MCOne
  Concurrent = TRUE
  Parts = 2
  ReadCap = 3
INVARIANTS
  CompletedOnce
  SyncBufferOwned
  RefusedNeverServed
  NobodyForgotten
CHECK_DEADLOCK FALSE
