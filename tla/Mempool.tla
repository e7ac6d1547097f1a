-------------------------------- MODULE Mempool --------------------------------
(***************************************************************************)
(* The memory pool (txmempool.cpp) and what fills and empties it              *)
(* (AcceptToMemoryPool, ConnectTip and DisconnectTip in main.cpp).  Blocks    *)
(* here are blocks that connect; BlockCoins shows that the coin set of        *)
(* pcoinsTip is then the one ChainCoins states.  ConnectTip and DisconnectTip  *)
(* hold cs_main and change the pool one transaction at a time; a step here is  *)
(* one turn of their loops.  While transactions come back, a thread that only  *)
(* takes mempool.cs sees the pool between two turns; removeForBlock keeps      *)
(* mempool.cs for its whole loop.                                             *)
(***************************************************************************)
EXTENDS ChainCoins

CONSTANTS Maturity,   \* COINBASE_MATURITY
          LockTime,   \* LockTime[t]: nLockTime, as a height
          Standard,   \* transactions that pass IsStandardTx
          Wanted,     \* those whose inputs, size, fee and priority the node accepts
          BadScript   \* those with a script that fails

VARIABLES best,   \* the best block of pcoinsTip
          disk,   \* the best block of the coin database
          pool,   \* mapTx, mapNextTx and totalTxSize, in transactions
          job     \* the ConnectTip or DisconnectTip in progress, and its next transaction

poolVars == <<best, disk, pool, job>>

Idle == [kind |-> "idle", block |-> Genesis, i |-> 0]

EmptyPool == [tx |-> {}, next |-> [o \in {} |-> Genesis], total |-> 0]

PoolInit ==
    /\ best = Genesis
    /\ disk = Genesis
    /\ pool = EmptyPool
    /\ job = Idle

InsOf(t) == Range(Ins[t])

IsFinalTx(t, h) == LockTime[t] < h

ASSUME PoolAssumption ==
    /\ Maturity \in Nat \ {0, 1}
    /\ \A t \in Txids : LockTime[t] \in Nat

-------------------------------------------------------------------------------
(* Blocks that connect *)

\* The view of ConnectBlock when it comes to transaction k of b.
ViewOfBlock(b, k) ==
    [t \in Txids |->
        LET c == IF \E j \in 1..(k - 1) : Vtx[b][j] = t THEN FromTx(t, Height(b))
                                                       ELSE CoinsAt[Parent[b]][t]
        IN  [vout |-> {n \in c.vout : \A j \in 1..(k - 1) : <<t, n>> \notin InsOf(Vtx[b][j])},
             height |-> c.height, coinbase |-> c.coinbase]]

\* What ContextualCheckBlock and ConnectBlock require of b; the value of its coinbase is in BlockCoins.
ConnectBlock(b) ==
    \A k \in DOMAIN Vtx[b] :
        LET t == Vtx[b][k]
        IN  /\ CheckTransaction(t) /\ (t \in CoinBases <=> k = 1)
            /\ IsFinalTx(t, Height(b))
            /\ IsPruned(CoinsAt[Parent[b]][t])
            /\ t \notin CoinBases => CheckInputs(ViewOfBlock(b, k), t, Height(b), Maturity)
            /\ t \notin BadScript

\* The blocks of the tree are those that connect.  A coinbase starts with the height of
\* its block, so that one whose outputs can be spent is not repeated in a chain.
ASSUME ConnectAssumption ==
    \A b \in Blocks \ {Genesis} :
        /\ Vtx[b] # <<>> /\ ConnectBlock(b)
        /\ \A c \in Chain[Parent[b]] \ {Genesis} :
              Vtx[b][1] = Vtx[c][1] => FromTx(Vtx[b][1], Height(b)) = Pruned

-------------------------------------------------------------------------------
(* CTxMemPool *)

addUnchecked(p, t) ==
    [tx |-> p.tx \cup {t},
     next |-> [o \in DOMAIN p.next \cup InsOf(t) |-> IF o \in InsOf(t) THEN t ELSE p.next[o]],
     total |-> p.total + 1]

\* Pool transactions that spend an output of t.
Spenders(p, t) == {p.next[o] : o \in {q \in DOMAIN p.next : q[1] = t /\ q[2] \in DOMAIN Outs[t]}}

\* What remove finds with fRecursive from the transactions S: the least set that has
\* those of S that are in the pool, and with a transaction its spenders.
Descendants(p, S) ==
    LET Closed(D) == /\ S \cap p.tx \subseteq D
                     /\ \A d \in D : Spenders(p, d) \cap p.tx \subseteq D
    IN  {t \in p.tx : \A D \in SUBSET p.tx : Closed(D) => t \in D}

Without(p, D) ==
    [tx |-> p.tx \ D,
     next |-> [o \in DOMAIN p.next \ UNION {InsOf(t) : t \in D} |-> p.next[o]],
     total |-> p.total - Cardinality(D)]

\* fault: what spends from a confirmed transaction goes with it.
RemoveFamily(p, t) == Without(p, Descendants(p, {t}))

\* remove(tx, removed, false) and, for every t in S, remove(t, removed, true).
remove(p, t) == Without(p, {t} \cap p.tx)
removeRecursive(p, S) == Without(p, Descendants(p, S))

\* Transactions that spend an output that t spends.
Conflicts(p, t) == {p.next[o] : o \in InsOf(t) \cap DOMAIN p.next} \ {t}

removeConflicts(p, t) == removeRecursive(p, Conflicts(p, t))

\* The turn of removeForBlock for transaction t.
Confirmed(p, t) == removeConflicts(remove(p, t), t)

\* AccessCoins of pcoinsTip gives NULL.  A pruned entry is still in the cache, and not
\* NULL, as long as the database has coins of t.
NoEntry(t) == IsPruned(CoinsAt[best][t]) /\ IsPruned(CoinsAt[disk][t])

\* What removeCoinbaseSpends looks for.
Immature(p) ==
    {t \in p.tx : \E o \in InsOf(t) :
        /\ o[1] \notin p.tx
        /\ LET c == CoinsAt[best][o[1]]
           IN  NoEntry(o[1]) \/ (c.coinbase /\ Height(best) + 1 - c.height < Maturity)}

removeCoinbaseSpends(p) == removeRecursive(p, Immature(p))

-------------------------------------------------------------------------------
(* AcceptToMemoryPool *)

MEMPOOL_HEIGHT == 2147483647

\* CCoinsViewMemPool over pcoinsTip.
ViewMemPool ==
    [t \in Txids |-> IF t \in pool.tx THEN FromTx(t, MEMPOOL_HEIGHT) ELSE CoinsAt[best][t]]

\* chainActive is set at the end of DisconnectTip.
ActiveHeight == Height(IF job.kind = "disconnect" THEN job.block ELSE best)

\* fault: an output that another transaction of the pool spends may be spent again.
NoConflictCheck(t) ==
    /\ CheckTransaction(t) /\ t \notin CoinBases
    /\ t \in Standard
    /\ IsFinalTx(t, ActiveHeight + 1)
    /\ t \notin pool.tx
    /\ IsPruned(ViewMemPool[t])

\* The checks up to the one for missing inputs.
Offered(t) ==
    /\ CheckTransaction(t) /\ t \notin CoinBases
    /\ t \in Standard
    /\ IsFinalTx(t, ActiveHeight + 1)
    /\ t \notin pool.tx
    /\ InsOf(t) \cap DOMAIN pool.next = {}
    /\ IsPruned(ViewMemPool[t])

HaveParents(t) == \A o \in InsOf(t) : ~IsPruned(ViewMemPool[o[1]])

fMissingInputs(t) == Offered(t) /\ ~HaveParents(t)

\* AcceptToMemoryPool returns true.  CheckInputs counts from the best block of pcoinsTip.
Accepts(t) ==
    /\ Offered(t) /\ HaveParents(t)
    /\ t \in Wanted
    /\ CheckInputs(ViewMemPool, t, Height(best) + 1, Maturity)
    /\ t \notin BadScript

-------------------------------------------------------------------------------
\* From the wallet or an RPC.
AcceptToMemoryPool(t) ==
    /\ job = Idle
    /\ Accepts(t)
    /\ pool' = addUnchecked(pool, t)
    /\ UNCHANGED <<best, disk, job>>

\* The coins of the block are in pcoinsTip, which was written to disk if it was full.
ConnectTip(b) ==
    /\ job = Idle
    /\ b # Genesis /\ Parent[b] = best
    /\ best' = b
    /\ disk' \in {disk, b}
    /\ job' = [kind |-> "connect", block |-> b, i |-> 1]
    /\ UNCHANGED pool

\* One turn of removeForBlock; UpdateTip after the last one.
removeForBlock ==
    /\ job.kind = "connect"
    /\ pool' = Confirmed(pool, Vtx[job.block][job.i])
    /\ job' = IF job.i < Len(Vtx[job.block]) THEN [job EXCEPT !.i = @ + 1] ELSE Idle
    /\ UNCHANGED <<best, disk>>

DisconnectTip ==
    /\ job = Idle
    /\ best # Genesis
    /\ best' = Parent[best]
    /\ disk' \in {disk, Parent[best]}
    /\ job' = [kind |-> "disconnect", block |-> best, i |-> 1]
    /\ UNCHANGED pool

\* fault: the transactions of the block are forgotten.
ResurrectNone ==
    /\ job.kind = "disconnect" /\ job.i <= Len(Vtx[job.block])
    /\ pool' = removeRecursive(pool, {Vtx[job.block][job.i]})
    /\ job' = [job EXCEPT !.i = @ + 1]
    /\ UNCHANGED <<best, disk>>

\* One turn of the loop that resurrects the transactions of the block.
Resurrect ==
    /\ job.kind = "disconnect" /\ job.i <= Len(Vtx[job.block])
    /\ LET t == Vtx[job.block][job.i]
       IN  pool' = IF Accepts(t) THEN addUnchecked(pool, t) ELSE removeRecursive(pool, {t})
    /\ job' = [job EXCEPT !.i = @ + 1]
    /\ UNCHANGED <<best, disk>>

\* The end of DisconnectTip.
FinishDisconnect ==
    /\ job.kind = "disconnect" /\ job.i > Len(Vtx[job.block])
    /\ pool' = removeCoinbaseSpends(pool)
    /\ job' = Idle
    /\ UNCHANGED <<best, disk>>

FlushStateToDisk ==
    /\ job = Idle
    /\ disk # best
    /\ disk' = best
    /\ UNCHANGED <<best, pool, job>>

\* The process ends at any moment; the pool is not kept.
Crash ==
    /\ best' = disk
    /\ pool' = EmptyPool
    /\ job' = Idle
    /\ UNCHANGED disk

PoolStep ==
    \/ \E t \in Txids : AcceptToMemoryPool(t)
    \/ \E b \in Blocks : ConnectTip(b)
    \/ removeForBlock
    \/ DisconnectTip
    \/ Resurrect
    \/ FinishDisconnect
    \/ FlushStateToDisk

-------------------------------------------------------------------------------
(* Properties *)

PoolTypeOK ==
    /\ best \in Blocks /\ disk \in Blocks
    /\ pool.tx \subseteq Txids \ CoinBases
    /\ pool.total \in Nat
    /\ job.kind \in {"idle", "connect", "disconnect"}
    /\ job.block \in Blocks /\ job.i \in Nat

\* Also in the middle of ConnectTip, DisconnectTip and a "tx" message, mapNextTx has
\* exactly the inputs of the transactions in the pool, each with the one that spends it, so that no two
\* transactions spend the same output, and totalTxSize is their size (CTxMemPool::check).
IndexExact ==
    /\ DOMAIN pool.next = UNION {InsOf(t) : t \in pool.tx}
    /\ \A t \in pool.tx : \A o \in InsOf(t) : pool.next[o] = t
    /\ pool.total = Cardinality(pool.tx)

\* "Check that every mempool transaction's inputs refer to available coins, or other
\* mempool tx's" (CTxMemPool::check): after every connect and disconnect, each input is
\* an unspent coin or an output of a transaction in the pool.
InputsAvailable == job = Idle => \A t \in pool.tx : HaveInputs(ViewMemPool, t)

\* And each transaction could be mined in the next block, after the ones it spends from:
\* no reorganisation leaves a spend of a coinbase that is immature again.
PoolValid ==
    job = Idle => \A t \in pool.tx : CheckInputs(ViewMemPool, t, Height(best) + 1, Maturity)

\* CCoinsViewMemPool answers from the pool first, as a transaction there is "guaranteed
\* to never conflict with the underlying cache": the chain has no unspent coins of it.
NeverConfirmed == job = Idle => \A t \in pool.tx : IsPruned(CoinsAt[best][t])

\* A block that is connected drives out only what it confirms and what can not be mined
\* any more.
OnlyDeadEvicted ==
    [][removeForBlock =>
        \A t \in pool.tx \ pool'.tx : t \in Range(Vtx[job.block]) \/ ~HaveInputs(ViewMemPool', t)
      ]_poolVars

\* The transactions of blocks, coinbases aside, are ones that the node lets into its pool.
Relayable == \A b \in Blocks \ {Genesis} : Range(Vtx[b]) \ CoinBases \subseteq Standard \cap Wanted

\* If the node accepts the transactions of a block as loose ones (Relayable), then after
\* the block was disconnected all of them but the coinbase wait in the pool again.
NothingLost ==
    [][FinishDisconnect => Range(Vtx[job.block]) \ CoinBases \subseteq pool'.tx]_poolVars
===============================================================================
