SPECIFICATION FairDiskSpec
CONSTANTS
  g = g
  a1 = a1
  a2 = a2
  b1 = b1
  b2 = b2
  b3 = b3
  b4 = b4
  a3 = a3
  t1 = t1
  t2 = t2
  NULL = NULL
  Genesis = g
  Blocks <- DiskBlocks
  Parent <- DiskParent
  Anc <- DiskAnc
  Work <- DiskWork
  Addr <- DiskAddr
  BadBody <- None
  Invalid <- DiskInvalid
  Threads <- DiskThreads
  PerFile = 2
  MaxCrashes = 2
INVARIANT CoinsReferToIndex
PROPERTY RecoveredChainWins
