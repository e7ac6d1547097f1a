SPECIFICATION RelaySpec
CONSTANTS
    Txids <- MCTxids
    CoinBases <- MCCoinBases
    Ins <- MCIns
    Outs <- MCOuts
    Unspendable <- MCUnspendable
    LockTime <- MCLockTime
    Blocks <- MCBlocks
    Genesis = "g"
    Parent <- MCParent
    Vtx <- MCVtx
    Standard <- NoT1
    Wanted <- MCTxids
    Maturity = 2
    MaxMoney = 20
    Peers <- MCPeers
    Free <- MCFree
    Big <- MCBig
    BadScript <- MCBadScript
    MaxOrphans = 2
    MaxSkipped = 2
INVARIANT InputsAvailable
