SPECIFICATION FairNetSpec
CONSTANTS
  g = g
  a1 = a1
  a2 = a2
  b1 = b1
  b2 = b2
  b3 = b3
  b4 = b4
  a3 = a3
  t1 = t1
  t2 = t2
  NULL = NULL
  Genesis = g
  Blocks <- LiveBlocks
  Parent <- LiveParent
  Anc <- LiveAnc
  Work <- LiveWork
  Addr <- LiveAddr
  BadBody <- LiveBadBody
  Invalid <- LiveInvalid
  Threads <- MCThreads
INVARIANTS
  ActiveChainSound
  ChainTxExact
  AssertsHold
  BestChainActive
PROPERTY GoodChainWins
