SPECIFICATION Spec
CONSTANTS
    Txids <- MCTxids
    CoinBases <- MCCoinBases
    Ins <- MCIns
    Outs <- MCOuts
    Unspendable <- MCUnspendable
    MaxMoney = 20
    Blocks <- MCBlocks
    Genesis = "g"
    Parent <- MCParent
    Vtx <- MCVtx
    Maturity = 2
    GenesisSubsidy = 4
    HalvingInterval = 5
    NullHash = null
    NoUndo = none
INVARIANTS CoinsMatchChain DiskMatchesBest TipUndoable SupplyBounded
PROPERTY UsesMaps
