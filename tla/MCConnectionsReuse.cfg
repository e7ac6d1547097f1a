SPECIFICATION FullSpec
CONSTANTS
  Nodes = {n1, n2}
  o1 = o1
  o2 = o2
  a1 = a1
  a2 = a2
  Openers = {o1, o2}
  Targets <- SharedTargets
  NoAddr = NoAddr
  NoNode = NoNode
  MaxOutbound = 1
  MaxInbound = 1
INVARIANTS NoUseAfterDelete
