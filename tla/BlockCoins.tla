------------------------------ MODULE BlockCoins ------------------------------
(***************************************************************************)
(* Blocks applied to the coin set and undone again: ConnectBlock,            *)
(* UpdateCoins, DisconnectBlock, ConnectTip, DisconnectTip and the flush of   *)
(* pcoinsTip (main.cpp).  The coin views are the plain maps of CoinsMap,      *)
(* which CoinsCache is proved to implement; one step is one ModifyCoins.      *)
(* Which block is connected next is left open: any child of the tip.          *)
(***************************************************************************)
EXTENDS ChainCoins

CONSTANTS Maturity,         \* COINBASE_MATURITY
          GenesisSubsidy,   \* Params().GenesisSubsidy() * COIN
          HalvingInterval,  \* Params().SubsidyHalvingInterval()
          NullHash,
          NoUndo            \* a block without undo data

ASSUME SubsidyAssumption == GenesisSubsidy \in Nat /\ HalvingInterval \in Nat \ {0}

ASSUME NoUndoAssumption == NoUndo \notin Seq(Seq([height : Nat, coinbase : BOOLEAN]))

VARIABLES disk, tip, view, open,   \* as in CoinsMap
          job,       \* the block in work: what is done, how far, and what was noted
          undo,      \* undo[b]: undo data that the block index knows of, or NoUndo
          dUndo      \* blocks whose undo position is in the block index database

maps == <<disk, tip, view, open>>
vars == <<disk, tip, view, open, job, undo, dUndo>>

\* i, j: transaction and input that come next; txundo: the CTxUndo of transaction i;
\* blockundo: those of the transactions before it; clean: fClean.
Idle == [kind |-> "idle", block |-> Genesis, i |-> 0, j |-> 0,
         fees |-> 0, txundo |-> <<>>, blockundo |-> <<>>, clean |-> TRUE]

\* The chain state that InitBlockIndex leaves: the coinbase of Genesis is not spendable.
Init ==
    /\ disk = [coins |-> [t \in Txids |-> Pruned], best |-> Genesis]
    /\ tip = disk
    /\ view = disk
    /\ open = FALSE
    /\ job = Idle
    /\ undo = [b \in Blocks |-> NoUndo]
    /\ dUndo = {}

-------------------------------------------------------------------------------
(* ConnectTip *)

\* nSubsidy >> k
Halved[k \in 0..63] == IF k = 0 THEN GenesisSubsidy ELSE Halved[k - 1] \div 2

GetBlockSubsidy(h) ==
    LET halvings == h \div HalvingInterval IN IF halvings >= 64 THEN 0 ELSE Halved[halvings]

\* fault: the fees are counted twice.
FeesTwice(h, fees) == GetBlockSubsidy(h) + 2 * fees

GetBlockValue(h, fees) == GetBlockSubsidy(h) + fees

CheckBlock(b) ==
    /\ Vtx[b] # <<>>
    /\ \A k \in DOMAIN Vtx[b] : /\ CheckTransaction(Vtx[b][k])
                                /\ Vtx[b][k] \in CoinBases <=> k = 1

\* No transaction of b overwrites one that is not completely spent.
BIP30(b) == \A k \in DOMAIN Vtx[b] : IsPruned(view.coins[Vtx[b][k]])

BeginConnect(b) ==
    /\ ~open
    /\ b # Genesis /\ Parent[b] = tip.best
    /\ open' = TRUE
    /\ job' = [Idle EXCEPT !.kind = "connect", !.block = b, !.i = 1]
    /\ UNCHANGED <<disk, tip, view, undo, dUndo>>

Tx == Vtx[job.block][job.i]

\* The checks that precede the first change by the transaction in turn.
TxOK ==
    /\ job.i = 1 => CheckBlock(job.block) /\ BIP30(job.block)
    /\ Tx \notin CoinBases => CheckInputs(view.coins, Tx, Height(job.block), Maturity)

SetCoins(t, c) == view' = [view EXCEPT !.coins[t] = Normal(c)]

\* The metadata go into the undo data of the last output that is spent.
TxInUndo(c, left) ==
    IF left = {} THEN [height |-> c.height, coinbase |-> c.coinbase]
                 ELSE [height |-> 0, coinbase |-> FALSE]

\* One turn of the loop over vin in UpdateCoins.
SpendInput ==
    /\ job.kind = "connect" /\ job.i <= Len(Vtx[job.block])
    /\ job.j < Len(Ins[Tx])
    /\ job.j = 0 => TxOK
    /\ LET p == Ins[Tx][job.j + 1]
           c == view.coins[p[1]]
           left == c.vout \ {p[2]}
       IN  /\ SetCoins(p[1], [c EXCEPT !.vout = left])
           /\ job' = [job EXCEPT !.j = @ + 1,
                                 !.fees = IF job.j = 0 THEN @ + GetValueIn(Tx) - GetValueOut(Tx)
                                                       ELSE @,
                                 !.txundo = Append(@, TxInUndo(c, left))]
    /\ UNCHANGED <<disk, tip, open, undo, dUndo>>

\* The end of UpdateCoins.
AddOutputs ==
    /\ job.kind = "connect" /\ job.i <= Len(Vtx[job.block])
    /\ job.j = Len(Ins[Tx])
    /\ job.j = 0 => TxOK
    /\ SetCoins(Tx, FromTx(Tx, Height(job.block)))
    /\ job' = [job EXCEPT !.i = @ + 1, !.j = 0, !.txundo = <<>>,
                          !.blockundo = IF job.i = 1 THEN @ ELSE Append(@, job.txundo)]
    /\ UNCHANGED <<disk, tip, open, undo, dUndo>>

\* A block without transactions has failed CheckBlock.
CoinbaseOK ==
    /\ Vtx[job.block] # <<>>
    /\ GetValueOut(Vtx[job.block][1]) <= GetBlockValue(Height(job.block), job.fees)

\* Undo data are written once for a block; then the view gets its new best block.
FinishConnect ==
    /\ job.kind = "connect" /\ job.i > Len(Vtx[job.block])
    /\ CoinbaseOK
    /\ undo' = [undo EXCEPT ![job.block] = IF @ = NoUndo THEN job.blockundo ELSE @]
    /\ view' = [view EXCEPT !.best = job.block]
    /\ job' = [job EXCEPT !.kind = "flush"]
    /\ UNCHANGED <<disk, tip, open, dUndo>>

\* ConnectBlock returned false: the view is destroyed.
RejectBlock ==
    /\ job.kind = "connect"
    /\ IF job.i <= Len(Vtx[job.block]) THEN job.j = 0 /\ ~TxOK ELSE ~CoinbaseOK
    /\ view' = tip
    /\ open' = FALSE
    /\ job' = Idle
    /\ UNCHANGED <<disk, tip, undo, dUndo>>

-------------------------------------------------------------------------------
(* DisconnectTip *)

BeginDisconnect ==
    /\ ~open
    /\ tip.best # Genesis
    /\ undo[tip.best] # NoUndo
    /\ open' = TRUE
    /\ job' = [Idle EXCEPT !.kind = "disconnect", !.block = tip.best,
                           !.i = Len(Vtx[tip.best])]
    /\ UNCHANGED <<disk, tip, view, undo, dUndo>>

\* The outputs of the transaction in turn must be as the block made them; they are removed.
RemoveOutputs ==
    /\ job.kind = "disconnect" /\ job.i > 0 /\ job.j = 0
    /\ SetCoins(Tx, Pruned)
    /\ job' = [job EXCEPT !.clean = @ /\ view.coins[Tx] = FromTx(Tx, Height(job.block)),
                          !.j = Len(Ins[Tx]),
                          !.i = IF Ins[Tx] = <<>> THEN @ - 1 ELSE @]
    /\ UNCHANGED <<disk, tip, open, undo, dUndo>>

\* fault: a transaction that was spent completely comes back at the height of the block.
RestoredHere(c, u, n) ==
    IF u.height # 0 THEN [vout |-> {n}, height |-> Height(job.block), coinbase |-> u.coinbase]
                    ELSE [c EXCEPT !.vout = @ \cup {n}]

\* Undo data with a height bring back a transaction that was spent completely.
Restored(c, u, n) ==
    IF u.height # 0 THEN [vout |-> {n}, height |-> u.height, coinbase |-> u.coinbase]
                    ELSE [c EXCEPT !.vout = @ \cup {n}]

\* fault: the inputs are restored in the order in which they were spent.
RestoreForwards ==
    /\ job.kind = "disconnect" /\ job.i > 0 /\ job.j > 0
    /\ LET k == Len(Ins[Tx]) + 1 - job.j
           p == Ins[Tx][k]
           c == view.coins[p[1]]
           u == undo[job.block][job.i - 1][k]
       IN  /\ SetCoins(p[1], Restored(c, u, p[2]))
           /\ job' = [job EXCEPT !.clean = @ /\ (u.height # 0 <=> IsPruned(c))
                                             /\ ~IsAvailable(c, p[2]),
                                 !.j = @ - 1,
                                 !.i = IF job.j = 1 THEN @ - 1 ELSE @]
    /\ UNCHANGED <<disk, tip, open, undo, dUndo>>

RestoreInput ==
    /\ job.kind = "disconnect" /\ job.i > 0 /\ job.j > 0
    /\ LET p == Ins[Tx][job.j]
           c == view.coins[p[1]]
           u == undo[job.block][job.i - 1][job.j]
       IN  /\ SetCoins(p[1], Restored(c, u, p[2]))
           /\ job' = [job EXCEPT !.clean = @ /\ (u.height # 0 <=> IsPruned(c))
                                             /\ ~IsAvailable(c, p[2]),
                                 !.j = @ - 1,
                                 !.i = IF job.j = 1 THEN @ - 1 ELSE @]
    /\ UNCHANGED <<disk, tip, open, undo, dUndo>>

\* DisconnectBlock returns fClean; an unclean view is destroyed.
FinishDisconnect ==
    /\ job.kind = "disconnect" /\ job.i = 0
    /\ IF job.clean
       THEN /\ view' = [view EXCEPT !.best = Parent[job.block]]
            /\ job' = [job EXCEPT !.kind = "flush"]
            /\ UNCHANGED open
       ELSE view' = tip /\ job' = Idle /\ open' = FALSE
    /\ UNCHANGED <<disk, tip, undo, dUndo>>

-------------------------------------------------------------------------------
(* Flushing and restarting *)

\* assert(view.Flush())
FlushView ==
    /\ job.kind = "flush"
    /\ tip' = view
    /\ open' = FALSE
    /\ job' = Idle
    /\ UNCHANGED <<disk, view, undo, dUndo>>

Indexed == {b \in Blocks : undo[b] # NoUndo}

\* fault: the best block is written without the coins.
FlushBestOnly ==
    /\ ~open
    /\ dUndo' = Indexed
    /\ disk' = [disk EXCEPT !.best = tip.best]
    /\ UNCHANGED <<tip, view, open, job, undo>>

\* fault: pcoinsTip is flushed under a view that still reads from it.
FlushUnderView ==
    /\ dUndo' = Indexed
    /\ disk' = tip
    /\ UNCHANGED <<tip, view, open, job, undo>>

\* FlushStateToDisk: the block index, then the coins.  It depends on the size of the
\* cache, the time and the caller whether it writes.
FlushStateToDisk ==
    /\ ~open
    /\ dUndo' = Indexed
    /\ disk' = tip
    /\ UNCHANGED <<tip, view, open, job, undo>>

\* The write of the coins throws.  CCoinsViewDB::BatchWrite has already taken the
\* entries out of the cache, which keeps its hashBlock; the node asks to be shut down,
\* and runs on until it is, with a last flush in Shutdown.
FlushFails ==
    /\ ~open
    /\ dUndo' = Indexed
    /\ tip' = [tip EXCEPT !.coins = disk.coins]
    /\ view' = tip'
    /\ UNCHANGED <<disk, open, job, undo>>

\* The process ends at any moment and is started again.
Crash ==
    /\ tip' = disk
    /\ view' = disk
    /\ open' = FALSE
    /\ job' = Idle
    /\ undo' = [b \in Blocks |-> IF b \in dUndo THEN undo[b] ELSE NoUndo]
    /\ UNCHANGED <<disk, dUndo>>

Next ==
    \/ \E b \in Blocks : BeginConnect(b)
    \/ SpendInput
    \/ AddOutputs
    \/ FinishConnect
    \/ RejectBlock
    \/ BeginDisconnect
    \/ RemoveOutputs
    \/ RestoreInput
    \/ FinishDisconnect
    \/ FlushView
    \/ FlushStateToDisk
    \/ Crash

Spec == Init /\ [][Next]_vars

\* With a coin database that may refuse a write and accept the next one.
FailSpec == Init /\ [][Next \/ FlushFails]_vars

-------------------------------------------------------------------------------
(* Properties *)

CoinType == [vout : SUBSET UNION {DOMAIN Outs[t] : t \in Txids},
             height : {Height(b) : b \in Blocks}, coinbase : BOOLEAN]

MapOK(m) ==
    /\ m.coins \in [Txids -> {c \in CoinType : IsPruned(c) => c = Pruned}]
    /\ m.best \in Blocks

TypeOK ==
    /\ MapOK(disk) /\ MapOK(tip) /\ MapOK(view)
    /\ open <=> job.kind # "idle"
    /\ job.kind \in {"idle", "connect", "disconnect", "flush"}
    /\ dUndo \subseteq Indexed

\* Connecting, undoing, rejecting, flushing and crashing in any order leaves pcoinsTip
\* with exactly the outputs that the chain to its best block created and did not spend,
\* at the height and with the coinbase flag of their last creation.
CoinsMatchChain == tip.coins = CoinsAt[tip.best]

\* So does the database: GetBestBlock names the block whose state it represents.
DiskMatchesBest == disk.coins = CoinsAt[disk.best]

\* DisconnectBlock finds what it expects: fClean is never cleared, also for ids that
\* occur twice in a chain, for transactions that spend several outputs of one other, the
\* last one included, and for transactions without spendable outputs.
UndoClean == job.clean

\* Each block of the chain down to Genesis has undo data, also after a crash.
UndoAvailable == \A b \in Chain[tip.best] \ {Genesis} : undo[b] # NoUndo

\* The tip can always be undone: the undo data are there (the order of the writes in
\* FlushStateToDisk), and they fit the coins at every input that DisconnectBlock restores.
TipUndoable == UndoAvailable /\ UndoClean

\* UpdateCoins spends only what is there: its assert(false) is not reached.
SpendsAvailable ==
    (/\ job.kind = "connect" /\ job.i <= Len(Vtx[job.block])
     /\ job.j < Len(Ins[Tx]) /\ (job.j = 0 => TxOK))
        => IsAvailable(view.coins[Ins[Tx][job.j + 1][1]], Ins[Tx][job.j + 1][2])

\* What a coin set is worth, and what the blocks of a chain may have created.
Utxos(coins) == UNION {{t} \X coins[t].vout : t \in Txids}
Value(utxos) == SumFunction([p \in utxos |-> ValueOf(p)])
Minted(blocks) == SumFunction([b \in blocks |-> GetBlockSubsidy(Height(b))])

\* The value of the coin set never exceeds the subsidies of the chain: fees move
\* value and no reorganisation creates any.
SupplyBounded == Value(Utxos(tip.coins)) <= Minted(Chain[tip.best] \ {Genesis})

\* The block operations use the coin views as CoinsMap promises them.
Maps == INSTANCE CoinsMap WITH Coins <- CoinType
UsesMaps == [][Maps!Next]_maps
===============================================================================
