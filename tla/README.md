# TLA+ verification of the fastcoin node

fastcoin is a full node of a proof-of-work currency, a fork of Bitcoin Core 0.10. This
directory holds TLA+ models of the parts of it in which concurrency, failure and order of
events matter, TLC configurations that check them on small instances, and TLAPS proofs of the
results that hold for every instance. File names below are relative to `src/` in the
repository.

## The system

One process, many threads, one big lock:

* **Message handler** (`ThreadMessageHandler`, net.cpp) takes messages off the receive queues
  of all peers, runs `ProcessMessage` on them, and calls `SendMessages` for each peer.
* **Validation** (main.cpp) keeps the tree of block headers (`mapBlockIndex`), the active
  chain (`chainActive`) and the chains worth trying (`setBlockIndexCandidates`), all under
  `cs_main`. `ActivateBestChain` moves the active chain; it gives up `cs_main` between two
  steps, so several threads (message handler, import, miner, RPC) may be half way.
* **Script checks** of a block run in a pool of threads (checkqueue.h).
* **Coins** (coins.h, txdb.cpp): a stack of caches over the database of unspent outputs;
  blocks are connected into a cache and undone with undo data.
* **Storage** (main.cpp, txdb.cpp): block files, a block index database and a coin database
  that are flushed one after the other and may be cut short by a crash.
* **Memory pool** (txmempool.cpp) holds transactions that are not in the active chain; the
  **orphan maps** (main.cpp) those whose inputs are unknown.
* **Block download** (main.cpp) decides which peer is asked for which block.
* **Connections** (net.cpp): threads that open connections publish `CNode` objects, the socket
  handler moves bytes and is the only one to delete nodes, the message handler works on copies.
* **Addresses** of possible peers are in `CAddrMan` (addrman.h), saved in peers.dat.
* **Miner** (miner.cpp) makes a block of the pool.
* **Wallet** (wallet.cpp) hands out keys from a pool that its database also has.
* **RPC** and the GUI use all of these.

`PROJECT.json` lists every part, modelled or not, and for each definition of a module the lines
it stands for.

## Modules

| Module | Models | Code |
|---|---|---|
| `CheckQueue` | pool of script verification threads | checkqueue.h |
| `CheckBatch` | what a caller of that pool is promised | checkqueue.h |
| `ChainState` | block tree, candidates, activation of the best chain, `invalidateblock`, `reconsiderblock` | main.cpp, rpcblockchain.cpp |
| `ChainStateDisk` | `ChainState` with block files, the two databases, crashes and restarts | main.cpp, txdb.cpp, init.cpp |
| `CoinsCache` | two coin caches over the database, with `DIRTY` and `FRESH` | coins.h, coins.cpp, txdb.cpp |
| `CoinsMap` | the same three views as plain maps | coins.h |
| `Transactions` | transactions, `CCoins`, `CheckTransaction`, `CheckInputs` | main.cpp, coins.h |
| `ChainCoins` | the coins that a chain of blocks leaves (a definition, no code) | |
| `BlockCoins` | `ConnectBlock`, `DisconnectBlock`, undo data, flushes, on top of the views | main.cpp |
| `Mempool` | the pool, `AcceptToMemoryPool`, and what (dis)connecting a block does to it | txmempool.cpp, main.cpp |
| `TxRelay` | `Mempool` with the "tx" message, orphans and peers | main.cpp |
| `Miner` | `CreateNewBlock` and `TestBlockValidity` of its result, as operators over `Mempool` | miner.cpp, main.cpp |
| `BlockDownload` | `CNodeState`, blocks in flight, "inv", "headers", "block", `SendMessages` | main.cpp |
| `Connections` | life of a `CNode`: publication, references, disconnection, deletion, outbound slots | net.cpp, net.h, sync.h |
| `PeerLink` | one connection between two nodes: send queue, reassembly, `ProcessMessages`, flow control | net.cpp, net.h, main.cpp |
| `MessageChannel` | what the two directions of a connection promise | net.cpp |
| `AddrMan` | the tables of addresses and peers.dat | addrman.cpp, addrman.h |
| `KeyPool` | the key pool in memory and in the wallet database | wallet.cpp, walletdb.cpp |
| `CheckQueueProofs`, `ChainStateProofs` (also about `ChainStateDisk`), `CoinsCacheProofs`, `BlockCoinsProofs`, `TxRelayProofs`, `BlockDownloadProofs`, `ConnectionsProofs`, `KeyPoolProofs` | theorems | |

An `MC...` module gives the constants of the module it extends values for TLC. Definitions
with the comment `fault:` are not part of a model. Each one is a plausible mistake in the
definition after it; with the mistake in place TLC finds the property that `PROJECT.json`
names with it violated, which shows that the property can see that kind of mistake.

How the modules fit together:

* `ChainStateDisk` extends `ChainState`: each of its steps is a step of the block tree with its
  effect on the storage, or a step of the storage alone.
* `BlockCoins` instantiates `CoinsMap`, the abstract specification of the views, and uses them as
  `CoinsMap` allows (`UsesMaps`). `CoinsCache`, which has the flags, implements `CoinsMap`
  (`ImplementsMaps`). Both are proved, so what `BlockCoins` shows about plain maps holds for the caches.
* `BlockCoins` shows that the coins are those of the chain (`CoinsMatchChain`, with `CoinsAt` of
  `ChainCoins`, proved). `Mempool` builds on that and takes `CoinsAt[best]` for `pcoinsTip`.
* `BlockDownload` has an index, stored blocks and a tip of its own and takes over from `ChainState`
  that after each call the tip is the best complete chain without a failed block.
* `Miner` extends `Mempool`; `MCTxRelay` puts it beside `TxRelay`, so that `MinesPool` says of every
  pool that messages, blocks and reorganisations can lead to that a block can be made of it.
* `PeerLink` is shown to implement `MessageChannel` (`CarriesMessages`). `BlockDownload` and `TxRelay`
  take messages as whole, and `BlockDownload` loses them with the connection, as `MessageChannel` allows.
* `Connections` has the disconnection and deletion of nodes that `BlockDownload` sees as
  `FinalizeNode`; `PeerLink` is one node of it while it is in `vNodes`.
* `CheckQueue` gives the verdict that `ConnectBlock` waits for; the other modules take it as a
  property of the block (`Invalid`) or of the transaction (`BadScript`).

### CheckQueue

A step is one critical section of `CCheckQueue::Loop`, `Add`, `Wait`, or the run of a batch
outside the lock. Variables are the fields of the class (`nIdle`, `nTotal`, `nTodo`, `fAllOk`,
the queue), the mutex, and the location, batch and `fOk` of each thread. Condition variables
lose notifications nobody waits for and wake up spuriously (at most `MaxSpurious` times).
Interruption at shutdown leaves `cond.wait` with an exception, so `nIdle--` is skipped.

### ChainState and ChainStateDisk

State: `index`, `data`, `connected`, `failedValid`, `failedChild`, `chainTx` are the flags of
`CBlockIndex`; `seq` is `nSequenceId`; `cands` is `setBlockIndexCandidates`; `unlinked` is
`mapBlocksUnlinked`; `tip` is `chainActive.Tip()`; `pc`, `target` and `oldTip` are the threads
inside `ActivateBestChain`. `Work`, `Addr` (the last criterion of the comparator), `BadBody` and
`Invalid` (blocks that fail `ContextualCheckBlock` and `ConnectBlock`) are constants. A step of a
thread is one turn of a loop of `FindMostWorkChain`, `ActivateBestChainStep` or
`InvalidateBlock`; `LockFree` keeps `cs_main` exclusive.

`ChainStateDisk` adds the databases (`dIndex`, ..., `dCoins`), the number of the block file and
the dirty entries. `FlushStateToDisk` is two steps, index and coins, which the process may die
between. `ProcessDies` keeps what was written; `PowerFails` also loses coin batches that were not
synced. `Restart` is `LoadBlockIndexDB` with the checks of `VerifyDB`.

### Coins

`CoinsCache`: `view` (the cache `ConnectTip` and `DisconnectTip` open), `tip` (`pcoinsTip`) and
`disk`. An entry is in `keys`; `dirty` and `fresh` are the entries with these flags.
`BlockCoins` does one `ModifyCoins` per step and keeps undo data per block; a write of the
coins may also fail with an exception (`FailSpec`). Amounts are small integers and the right shift of
the subsidy is that many halvings (`Halved`); `MaxMoney`, `Maturity`, `GenesisSubsidy` and
`HalvingInterval` are constants.

### Mempool and TxRelay

`pool` is `mapTx`, `mapNextTx` and `totalTxSize`. `ConnectTip` and `DisconnectTip` are split at
the turns of their loops over the transactions (`job`). `disk` is the best block of the coin
database: `AccessCoins` gives a pruned entry instead of NULL as long as the database has the
coins, and `removeCoinbaseSpends` depends on the difference. The "tx" handler is split at the
turns of its loops (`relay`), and holds `cs_main` throughout. The rate limiter, evictions and the
order in a set of hashes are nondeterministic.

The blocks are a constant tree of blocks that connect: `ConnectAssumption` requires of each what
`ContextualCheckBlock` and `ConnectBlock` do (`ConnectBlock(b)`: finality, BIP30, inputs that are there,
mature and enough), and that a chain repeats no coinbase with spendable outputs. The code enforces the
latter by the height at the start of the coinbase (main.cpp:2618), in blocks of version 2 once they are the
majority; a chain of older blocks that repeats a coinbase whose outputs are all spent is not covered.
`PoolAssumption` requires that a coinbase cannot be spent in the next block (`COINBASE_MATURITY` is 14,
main.h:72).

### BlockDownload

One record `dl` has `mapNodeState`, `mapBlocksInFlight` and the three counters, so that the
operators that stand for functions of the code map one value of it to the next. `vBlocksInFlight`
is a set of entries: the code appends to it and erases from any place, and its order only decides
which entry is late first. The loop of `SendMessages` that requests blocks is one operator
(`MarkBlocksAsInFlight`), as the blocks of one call differ and are in flight from nobody. Clocks are
left out: a timeout may strike whenever there is something to time (`Overdue`), for every peer that
is not reliable.

### Miner

`CreateNewBlock` holds `cs_main` and `mempool.cs` throughout and changes neither the chain nor the
pool, so it is the set of results it may have: the heap may give up any of its elements first, and
the limits of size, signature operations and fees may turn away any transaction, at most
`MaxSkipped` per block. `depends` is `setDependsOn` of every `COrphan`, `heap` is `vecPriority`.

### Connections

`vNodes`, `pool` (`vNodesDisconnected`), `ref` (`nRefCount`), `disconnect`, `network` and `grant`
are the fields of that name; `sem` is the value of `semOutbound`. `sock`, `msgh` and `opener` are the
positions and copies of the threads. A step is one section under `cs_vNodes`, or one unprotected
access: `OpenNetworkConnection` moves the grant and sets `fNetworkNode` in two steps after
`ConnectNode` has published the node. `Spec` is about threads that connect to addresses of their
own and calls without `fOneShot`. `FullSpec` adds a connection to the same address that appears
between the two calls of `FindNode`, and one-shot calls.

### PeerLink

`node[e]` is the `CNode` at each end, with the fields of the code and with the units that TCP has
on their way (`out`). A step is what a thread does under `cs_vSend` or `cs_vRecvMsg`; `select()` is
a step of its own. `send()` takes any part of what it is offered, `recv()` returns any part of what
is there, and the connection may break (`Break`). The messages are "getdata" for blocks, "ping" and
the answers. Functions of the code are operators from one value of the `CNode` to the next.

### AddrMan

`addrman` is the whole object, as each method holds its lock from beginning to end. Random choices
are existential. Times and attempts only decide which entry makes way and whether a repeated address
is ignored; both are left open. `Restart` is `Serialize` and `Unserialize`.

### KeyPool

`db` has the "pool" entries of the database, `setKeyPool` the indices in memory, `nIndex` and
`vchPubKey` the fields of each `CReserveKey`. A key is used when it is kept. `Restart` may come at
any moment and loses memory only. `collision` and `old` are history variables: an entry was
overwritten since the wallet was loaded, the keys before `NewKeyPool`. `EntriesKept` is about
wallets that were never encrypted: a locked wallet is not topped up, and encryption makes a new pool.

## Runs

| Run | Configuration | Question | States |
|---|---|---|---|
| `checkqueue` | MCCheckQueue.cfg | idle between blocks, implements `CheckBatch`, nobody waits for ever | 166,773 |
| `chainstate` | MCChainStateLive.cfg | sound and best active chain, no assert fails, the best valid chain wins in the end | 22,333 |
| `disk` | MCChainStateDisk.cfg | death of the process at any moment, up to twice, and recovery: in the end no chain of stored valid blocks is better than the active one | 251,867 |
| `coins_cache` | CoinsCache.cfg | flags truthful, caches look like maps | 43,368 |
| `block_coins` | MCBlockCoins.cfg | coins match the chain, also on disk, the tip can be undone without an inconsistency, no money from nothing, the views are used as `CoinsMap` allows | 83,965 |
| `tx_relay` | MCTxRelay.cfg | indexes of pool and orphans exact, every block made of the pool is valid and complete, nothing lost or kept wrongly | 168,665 |
| `download` | MCBlockDownload.cfg | books about requests exact, synchronisation completes | 49,554 |
| `invalidate_best` | MCChainStateInvalidate.cfg | violated: see findings | |
| `connections` | MCConnections.cfg | no use after delete, outbound slots never made and lost only with a node that is closed too early, closed connections are deleted in the end | 271,368 |
| `peer_link` | MCPeerLink.cfg | messages whole and in order, answers in order, every request answered or the connection over | 79,517 |
| `addrman` | MCAddrMan.cfg | `Check_` passes, buckets bounded, peers.dat complete, tried hosts kept | 113,953 |
| `key_pool` | MCKeyPool.cfg | no entry overwritten in a wallet never encrypted, one user per key, no used key handed out | 158,876 |

### Bounds, and why they are enough

* `checkqueue`: two workers and the master, three checks (one bad), batches of at most two,
  one spurious wake-up. Two workers are the least with which a late batch can overwrite a
  failure; three checks make two batches. One spurious wake-up at a time is enough since each
  thread re-reads everything after it.
* `chainstate`: two threads and two branches of two and three blocks, one with a bad body, the
  longer with an invalid block in its middle. A reorganisation then starts, fails half way,
  and returns, while the other thread adds blocks. The proofs cover all trees and threads.
* `disk`: one thread, five blocks, two crashes, two blocks per file. The second crash meets the
  state that the first recovery left. `MCChainStateDiskCrash.cfg` has the RPCs and the power
  failure on one fork of three blocks and one crash, since they multiply the states. The proof of
  `CoinsReferToIndex` covers all of them.
* `coins_cache`: two transactions, two coins besides the pruned one, two block hashes. Entries of different
  transactions do not influence each other, which the proof confirms.
* `block_coins`: a chain of six blocks that spends both outputs of a coinbase, spends an output in the
  block that made it, makes an unspendable one and repeats ids that were spent completely; a branch
  of three blocks; and six blocks that each break one rule: immaturity, overwrite, double spend, too
  high a coinbase, an output named twice, outputs above inputs.
* `tx_relay`: seven loose transactions: a family over three generations whose last member has a
  failing script, a conflict, a free one that the rate limiter may refuse, and one that is locked and
  too big for an orphan; one of them has two parents that may both wait in the pool, the least with
  which the dependencies of the miner matter; two peers, two orphans at most, two branches of two blocks on two
  common ones, and two transactions turned away per block.
* `download`: a reliable and an unreliable peer, a window of one block and a chain of two, so that
  the window can stall; two blocks in transit; three connections, so that a peer returns.
  `MCBlockDownloadBad.cfg` checks the invariants with a bad block beside the chain.

* `connections`: two nodes, two threads with an address each, one outbound slot and one
  inbound place. One slot makes a slot that is lost or made twice show; two nodes let a
  connection be made while another is being taken down. `MCConnectionsMore` has
  three nodes, and the proof any number.
* `peer_link`: one end asks for two blocks and pings, the other pings; headers of two units, blocks
  of one more, pipes of two units, a send buffer that two messages fill and a receive buffer that
  stops reading at the second message. Every message is then cut by some write and some read, and both limits are reached.
* `addrman`: four hosts, two new buckets of one entry, one tried bucket of two, at most four
  identifiers between two restarts. Every bucket fills, and an entry is evicted from each kind.
  `MCAddrManMore` has two ports of one host.
* `key_pool`: three users, `-keypool=1`, a refill to two, six keys. With three users the pool
  runs dry and a returned entry lies below and above others. The proof has no bounds.

Deadlock is checked except where the system may stop: `download` (`MaxConnects` connections are
used up) and `peer_link` (the connection is closed at both ends).

### Fairness

* `checkqueue`: each thread that can take a step does, and `ConnectBlock` comes to its `Wait` or to
  the destructor. The mutex is not assumed to be fair to anybody.
* `chainstate`, `disk`: a thread inside `ActivateBestChain` goes on, and a flush that was begun goes
  on, unless the process dies. Nothing in these functions waits for input. Blocks need not
  arrive, crashes need not happen.
* `download`: `ThreadMessageHandler` calls `SendMessages` again for a peer for which it has
  something to do; clocks go on, so that what is overdue is seen; `ThreadSocketHandler` deletes
  nodes with `fDisconnect`; a reliable peer answers. The conditions are weak fairness with
  ENABLED written out as a predicate (`CallDue`, `TimeOutDue`, `AnswerDue`).

* `connections`: the two handlers never stop (`WF` on the socket handler), and the message handler gets
  `cs_vNodes` if it finds it free again and again (`SF`), since nobody holds it for
  long. Addresses need not answer, peers need not come.
* `peer_link`: each end's message handler and socket handler go on; `TRY_LOCK` in the socket handler
  succeeds again and again, since the locks are held for short times only (`SF` on `Select` with both
  locks); the inactivity check runs when nothing else can (`TimeOut`: twenty minutes are longer than
  any other step). The network may fail at any time but need not.

## Findings

The run `invalidate_best` shows that the code does not do what a comment of it says. TLC finds
the same of other comments when a configuration is given another specification or property, in
parentheses here:

* `invalidate_best`: `InvalidateBlock` (main.cpp:2296) inserts `pindex` instead of `it->second`, so
  better chains do not become candidates again, and the node stays on a worse one.
* `MCBlockCoins` (`FailSpec`, `DiskMatchesBest`): `CCoinsViewDB::BatchWrite` (txdb.cpp:57) empties the cache before a write that
  may throw; the flush at shutdown then records the new best block without its coins.
* `MCTxRelayReorg` (`InputsAvailable`): when a transaction of a disconnected block is not accepted again, `remove`
  (txmempool.cpp:451) does not find it and leaves the pool transactions that spend from it. In such a pool the case of
  `CreateNewBlock` that "should never happen" (miner.cpp:163) does; in the
  run `tx_relay` every transaction of the blocks is one that the node also accepts as a loose one.
* `MCBlockDownloadBad` (`QueuedExact`): `FinalizeNode` (main.cpp:318) does not take the blocks in flight of the peer
  off `nQueuedValidatedHeaders`, which lengthens all later timeouts.

* `MCConnectionsReuse` (`NoUseAfterDelete` under `FullSpec`): `ConnectNode` (net.cpp:339) counts a
  reference to a node after `FindNode` has released `cs_vNodes`; the socket handler may have deleted it.
* `MCConnections` (`PoolDrains`): "hold in disconnected pool until all refs are released"
  (net.cpp:663): a node that is disconnected between `push_back` and `fNetworkNode = true` keeps the
  reference of its connection, and so stays in the pool for ever.
* `MCConnections` (`NoSlotLost`): "release outbound grant (if any)" (net.cpp:657) is done before such a
  node has its grant: `MoveTo` (net.cpp:1345) gives it afterwards, and as the node is never
  deleted the slot of `semOutbound` never comes back. `SlotsConserved` says that slots are lost in
  no other way, one at a time.
* `MCPeerLink` (`NeverStalled`): "at least one of the following is always possible, so we don't
  deadlock" (net.cpp:748): when both nodes have unsent data, neither reads, both pipes are full and
  both send buffers too full to process a message; the inactivity timeout ends it.
* `MCAddrManMore` (`EvictsOldest`): `SelectTried` (addrman.cpp:147) remembers the position of the oldest
  entry before the swap, where another entry is afterwards, so another one than "the least
  recently tried" may be evicted.
* `MCKeyPool` (`OldKeysUsed`): "Mark old keypool keys as used" (wallet.cpp:1756) does not reach an
  entry that is reserved while `NewKeyPool` runs; it may be returned to the new pool. The entry of
  the same index may also be overwritten then, as with `-keypool=0` or in a wallet that was drained while locked;
  `EntriesKept` states where this cannot happen.

Related behaviour, also found violated: `MCCheckQueue` (`Spec`, `ConstructorAssertsHold`: the asserts in the
constructor of the control read counters without the mutex), `MCChainStateInvalidate`
(`AssertsHold`: an assert after `invalidateblock`; `Spec` with `BestChainActive` or `ChainTxExact`:
`reconsiderblock` in the middle of arriving blocks), `MCChainStateDiskPower` (undo data in a file that is
not synced) and `MCChainStateDiskInvalidate` (a crash during `invalidateblock`).

Other configurations pass. `MCChainStateNet` is a larger tree for the safety properties of
`chainstate`; `MCChainStateDiskCrash` checks `ActiveChainSurvives` (the chain of the coin database can be
read again after a crash) with both RPCs and a power failure; `MCBlockDownloadBad` has the bad block;
`MCConnectionsMore`, `MCAddrManMore` and `MCPeerLinkMore` are larger or other instances with the type
invariants, `RefCountAssert` and `SendAccounting`. The type invariants of the other modules and what
supports their properties hold in the configurations of the runs, checked there as invariants:
`NTodoCounts` and `VerdictCorrect` in `MCCheckQueue`; `DiskTypeOK`, `ChainTxExact`, `AssertsHold` and
`BestChainActive` in `MCChainStateDisk`; `SpendsAvailable` in `MCBlockCoins`;
`OrphansBounded`, `InputsAvailable`, `PoolValid` and `NeverConfirmed` in `MCTxRelay`.

## Theorems

All theorems hold for every value of the constants that the named ASSUMEs allow; TLC evaluates
these assumptions in the runs.

* **CheckQueueProofs** (any number of workers, checks, batch size). `IInv`: who holds the mutex
  (`MutexInv`), each check is in one place (`DisjointInv`), a bad check is still to be run or its
  failure is on record (`NoLossInv`), a failure on record has a cause (`CauseInv`), and the
  difference of `nTotal` and `nIdle` is the number of threads at work (`CountInv`). `NTodoCounts`
  and `VerdictCorrect` are not inductive without these: the verdict is spread over the batches of
  threads that run outside the lock. From it: `TypeCorrect`, `TodoExact`, `VerdictIsCorrect`,
  `IdleIsRestored`, and the refinement `ImplementsCheckBatch`.
* **ChainStateProofs**, about `ChainState` (any tree, any number of threads, without the RPCs). `IInv`:
  at most one thread is in a section under `cs_main` and it aims at the best candidate
  (`ThreadInv`); connected blocks are closed under ancestors and unmarked (`ConnInv`); a stored
  block that waits for an ancestor is in `mapBlocksUnlinked`, unless its parent has a bad body, and
  nothing else is (`LinkInv`); there is a valid candidate not worse than the tip
  above which no chain was forgotten (`FloorInv`); a better candidate always has a thread that
  will look for it (`PendingInv`). `FloorInv` is the heart: it is why pruning candidates is safe
  and a failed reorganisation finds its way back. From it: `ActiveChainIsSound`, `ChainTxIsExact`,
  `NoAssertion`, `BestChainIsActive`, `StepAims`, `TipMoves`, `TypeCorrect`.
* **ChainStateProofs**, about `ChainStateDisk` (any tree, threads and crashes, with RPCs and power failures).
  `DiskInv`: an entry that is not dirty is in the database as in memory (`CleanInv`), and the
  database is closed under ancestors and has every chain a coin batch may be at (`DbInv`). From it:
  `CoinsReferToIndexAlways`.
* **CoinsCacheProofs** (any transactions, coins, hashes). `Inv`: the flags are truthful, and an
  entry of the view that is not `FRESH` is also in `pcoinsTip` (`ReadThrough`), without which the
  assert in `BatchWrite` could fail. From it: `FlagsAlwaysTruthful`, `FlushAssertHolds`, and the
  refinement `CachesImplementMaps`.
* **BlockCoinsProofs** (any transactions, blocks and tree, any number of crashes, without failing
  writes; from `BlockAssumption`, `TreeAssumption` and `NoUndoAssumption`). The coins of a chain are
  defined block by block, while the code moves them input by input, up when it connects and down when
  it disconnects. `Part(b, i, j)` are the coins after `j` inputs of transaction `i` of block `b`, seen
  from the chain below `b`. `IInv` says that the view has exactly these coins in the middle of a block,
  the same ones in both directions (`ConnectInv`, `DisconnectInv`); that what has been recorded
  of the block restores the coins it spent (`UndoOf`); and that `tip` and `disk` are
  at the end of chains whose blocks can be undone. That the way down meets the states of the way up is the core
  of the argument, and rests on `CheckInputs` and on the BIP30 check: an output is spent only
  if it is there, and an id is created only if nothing of it is left. From it: `TipIsChainState`,
  `DatabaseIsChainState`, `TipCanBeUndone` (the undo data is there, and `fClean` is never cleared),
  `InputsAreThere` (the assert of `UpdateCoins` holds), `TypeCorrect`, and `UsesViewsAsPromised`, which
  says that each step is a step of `CoinsMap` or leaves the views alone. `SupplyIsBounded` (also from
  `SubsidyAssumption`) needs a second invariant, `SupplyInv`: the coins of every
  chain that `tip` or `disk` may be at, and of every chain below it, are worth no more than its subsidies (`Fair`), so that
  disconnecting cannot break the bound; and in the middle of a block the view is worth at most what `tip` is, plus
  what the coinbase has created, less the fees counted, up to what the transaction in turn has still to spend and
  to create (`Balance`). It rests on lemmas about sums over finite sets.
* **TxRelayProofs** (any transactions, blocks, peers and `-maxorphantx`). `IInv`: `PoolOK` and `MapsOK` are
  the two indexes with the finiteness that counting needs; `HandlerOK` says that of the transactions the
  "tx" handler has turned to, each orphan that spends from one is still to be tried or to be erased,
  which `OrphansProcessed`, a statement about the last step, cannot carry by itself. From it:
  `PoolIndexSafe`, `OrphanIndexSafe`, `OrphansLimited`, and the action property `AllProcessed`.
* **TxRelayProofs**, the pool and the chain (also from `ConnectAssumption` and `PoolAssumption`). By induction over
  the tree of blocks, every chain is `Orderly`: a transaction with spendable outputs is made once, an output is spent
  once and after it was made, and the coins of a chain are the outputs made and not spent. `ChainInv`: the pool spends
  nothing that the chain spends, as far as the pool has been told of the chain (`Settled`): `removeForBlock` and the loop
  of `DisconnectTip` tell it one transaction at a time, which is why the properties, stated for the end of these
  loops, are not inductive. From it: `PoolNeverConfirmed` and the action property `EvictedAreDead`.
  `GroundInv` adds that the pool spends only from itself and from `Settled` (`Grounded`), only coinbases that are mature
  (`Ripe`) and no more than it has (`Funded`), and that the transactions of the block that is being disconnected are in
  the pool up to where the loop is (`Returned`). It holds if the node accepts the transactions of blocks as loose ones
  (`Relayable`): then `AcceptToMemoryPool` accepts each of them again when its turn comes (`AcceptedAgain`),
  because those it spends from came back before it, and nothing in the pool conflicts with it. From
  it, under `Relayable`: `InputsAreAvailable` (what `CTxMemPool::check` asserts), `PoolIsValid` and the action property
  `ResurrectedKept` (`NothingLost`). So the finding `MCTxRelayReorg` is confined to nodes whose policy refuses a
  transaction that a block has confirmed.
* **BlockDownloadProofs** (any peers, number of connections, tree, window and limit in transit; from
  `DownloadAssumption` and `TreeAssumption`). `IInv`: the lists of the nodes and
  `mapBlocksInFlight` are inverse to each other (`Books`); each node counts its own list, is within
  the limit, has a common block that is complete, and owes a block while it is timed for
  stalling (`NodeOK`); the counters are the cardinalities of the nodes they count; nothing
  stored is in flight. The clauses need each other: a stored block is never requested again because of the last one, and
  only then does a request leave the lists of the other nodes alone. From it: `BooksAgree`,
  `CountersAgree`, `CommonIsComplete`, `RequestsBounded`, `StallersOweBlocks`, `TypeCorrect`.
* **ConnectionsProofs** (any nodes, threads, addresses and slots, for `Spec`). `IInv`: a node that exists is in
  one of `vNodes`, the pool or the hands of the socket handler (`PlaceInv`); what each thread holds by
  where it is (`HandlerInv`, `OpenInv`); and the count of a node is the number of copies it is in plus
  one for the connection, which is not released as long as `fNetworkNode` is not set (`RefInv`). The
  last clause is why a thread that counts no reference of its own may still write to the node.
  From it: `PointersSafe`, `CountsSafe`. For the slots, `SlotsCounted` counts those of all nodes, and is
  preserved by every step; `FlagInv` says that a node that is not inbound and has no `fNetworkNode` is still being
  set up, so that `Cut` strands a node only in the hands of its opener. Together they give
  the action property `SlotsSafe`.
* **KeyPoolProofs** (any users, `-keypool`, refills and number of keys). `IInv`: keys differ, and a key of a user
  can only be in the entry of that index (`KeyInv`); entries are reserved by one user or in the pool as long
  as none was overwritten (`EntryInv`); and in a wallet that was never encrypted some index of the pool is at least
  as high as every entry (`LastInv`), because a top-up makes one entry more than the size and a
  reservation takes the lowest. From it: `EntriesSafe`, `UsersSafe`, `UsedSafe`.

Only model-checked:

* all liveness (`WaitTerminates`, `GoodChainWins`, `RecoveredChainWins`, `SyncCompletes`, `Reclaimed`,
  `RequestsAnswered`), since the prover does not handle fairness;
* `Miner` (`MinesPool`), which is recursive, and `PeerLink` and `AddrMan`, whose operators fold over
  sequences: what they compute needs induction over data;
* recovery beyond `CoinsReferToIndex`.

## Not modelled

* Inside modelled parts: `-reindex` and `-loadblock`, the transaction index, signature operation
  limits, running out of disk space, failing writes of the block index, priorities and fee deltas
  of the pool, inventories and trickling, whitelisting, bans, shutdown of the network threads, the
  coinbase of a new block, times and attempts of addresses, the rewrite of encrypted wallets of
  versions 0.4 and 0.5 when they are first loaded.
* Cryptography and the script interpreter: verdicts are constants.
* Pure computations whose correctness is arithmetic over wide numbers or bytes: difficulty, proof of
  work, merkle trees, Bloom filters, compression, serialization, and the median of time offsets.
* Wallet transactions, fee estimation, alerts, RPC, start and shutdown, command line tools and the
  graphical interface: code of one thread under one lock, input and output, or presentation.

`PROJECT.json` gives the reason for each part under `components`.
