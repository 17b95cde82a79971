SPECIFICATION FairSpec
CONSTANTS
  t1 = t1
  t2 = t2
  Threads <- MCThreads
  max_retries = 2
INVARIANTS
  TypeOK
  LateOnlyAfterTimeout
  VerdictSettled
  StatsTrue
PROPERTIES
  AsyncEnds
CHECK_DEADLOCK FALSE
