SPECIFICATION NetSpec
CONSTANTS
  g = g
  a1 = a1
  a2 = a2
  b1 = b1
  b2 = b2
  b3 = b3
  b4 = b4
  a3 = a3
  t1 = t1
  t2 = t2
  NULL = NULL
  Genesis = g
  Blocks <- MCBlocks
  Parent <- MCParent
  Anc <- MCAnc
  Work <- MCWork
  Addr <- MCAddr
  BadBody <- MCBadBody
  Invalid <- MCInvalid
  Threads <- MCThreads
SYMMETRY MCSymmetry
INVARIANTS
  TypeOK
  ActiveChainSound
  ChainTxExact
  AssertsHold
  BestChainActive
  StepAimsAtBest
PROPERTY TipMovesAlongTree
