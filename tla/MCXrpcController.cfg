SPECIFICATION Spec
CONSTANTS
  plain1 = plain1
  plain2 = plain2
  reentrant = reentrant
  NoClosure = NoClosure
  Closures <- MCClosures
  Reentrant <- MCReentrant
INVARIANTS
  TypeOK
  ClosureRunAtMostOnce
  CanceledHoldsNoClosure
  NoClosureLost
CHECK_DEADLOCK FALSE
