SPECIFICATION CrashSpec
CONSTANTS
  g = g
  a1 = a1
  a2 = a2
  b1 = b1
  b2 = b2
  b3 = b3
  b4 = b4
  a3 = a3
  t1 = t1
  t2 = t2
  NULL = NULL
  Genesis = g
  Blocks <- ForkBlocks
  Parent <- ForkParent
  Anc <- ForkAnc
  Work <- ForkWork
  Addr <- ForkAddr
  BadBody <- None
  Invalid <- None
  Threads <- DiskThreads
  PerFile = 2
  MaxCrashes = 1
INVARIANTS
  ActiveChainSurvives
CHECK_DEADLOCK FALSE
