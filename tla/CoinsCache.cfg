SPECIFICATION Spec
CONSTANTS
    Txids = {x1, x2}
    Coins = {none, c1, c2}
    Pruned = none
    Blocks = {b1, b2}
    NullHash = null
INVARIANT FlagsTruthful
PROPERTY ImplementsMaps
