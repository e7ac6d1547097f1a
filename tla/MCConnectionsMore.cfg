SPECIFICATION Spec
CONSTANTS
  Nodes = {n1, n2, n3}
  o1 = o1
  o2 = o2
  a1 = a1
  a2 = a2
  Openers = {o1, o2}
  Targets <- OwnTargets
  NoAddr = NoAddr
  NoNode = NoNode
  MaxOutbound = 1
  MaxInbound = 1
INVARIANTS TypeOK NoUseAfterDelete RefCountAssert
PROPERTIES SlotsConserved
SYMMETRY NodeSymmetry
