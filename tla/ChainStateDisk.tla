---------------------------- MODULE ChainStateDisk ----------------------------
(***************************************************************************)
(* What the node keeps on disk of the state in ChainState, and what it      *)
(* makes of it after a crash (main.cpp, txdb.cpp, init.cpp).                *)
(*                                                                          *)
(* FlushStateToDisk syncs the newest block and undo file, writes the dirty  *)
(* block index entries in one synced batch, and then the coins, whose best  *)
(* block is the tip, in a second batch that is not synced.  It runs under   *)
(* cs_main: inside DisconnectTip and ConnectTip when the coin cache is full, *)
(* and otherwise between two other sections.  The process may die between   *)
(* any two of these writes, and a power failure also takes what was not     *)
(* synced.  LoadBlockIndexDB rebuilds the rest from the two databases.      *)
(***************************************************************************)
EXTENDS ChainState

CONSTANTS
    PerFile,     \* blocks that fit into one block file
    MaxCrashes   \* bound on the number of restarts

ASSUME PerFileAssumption == PerFile \in Nat \ {0}
ASSUME MaxCrashesAssumption == MaxCrashes \in Nat

VARIABLES
    dIndex, dData, dConnected, dFailedValid, dFailedChild,  \* the block index database
    dCoins,        \* best block of the last batch written to the coin database
    batches,       \* best blocks of the batches that may be the last to survive a power failure
    file,          \* nFile of each stored block
    lastFile,      \* nLastBlockFile
    dLastFile,     \* the same in the block index database
    syncedData,    \* blocks whose bytes in blk?????.dat are synced
    syncedUndo,    \* blocks whose bytes in rev?????.dat are synced
    flush,         \* the next write of a FlushStateToDisk in progress, or "no"
    crashes

dbVars == <<dIndex, dData, dConnected, dFailedValid, dFailedChild>>
fileVars == <<file, lastFile, dLastFile, syncedData, syncedUndo>>
diskVars == <<dbVars, dCoins, batches, fileVars, flush, crashes>>
allVars == <<vars, diskVars>>

\* InitBlockIndex ends with FLUSH_STATE_ALWAYS.
DiskInit ==
    /\ Init
    /\ dIndex = {Genesis} /\ dData = {Genesis} /\ dConnected = {Genesis}
    /\ dFailedValid = {} /\ dFailedChild = {}
    /\ dCoins = Genesis
    /\ batches = {Genesis}
    /\ file = [b \in Blocks |-> 0]
    /\ lastFile = 0
    /\ dLastFile = 0
    /\ syncedData = {Genesis}
    /\ syncedUndo = {Genesis}
    /\ flush = "no"
    /\ crashes = 0

-------------------------------------------------------------------------------
(* Block files *)

InFile(f) == {b \in data : file[b] = f}

\* FlushBlockFile: what has been written to the newest block file and its undo file.
FlushBlockFile ==
    /\ syncedData' = syncedData \cup InFile(lastFile)
    /\ syncedUndo' = syncedUndo \cup (connected \cap InFile(lastFile))

\* A full file is synced and left for good.
FindBlockPos(b) ==
    LET full == Cardinality(InFile(lastFile)) >= PerFile
    IN  /\ lastFile' = IF full THEN lastFile + 1 ELSE lastFile
        /\ file' = [file EXCEPT ![b] = lastFile']
        /\ IF full THEN FlushBlockFile ELSE UNCHANGED <<syncedData, syncedUndo>>

-------------------------------------------------------------------------------
(* FlushStateToDisk *)

\* FLUSH_STATE_PERIODIC and FLUSH_STATE_ALWAYS; with nothing to write nothing changes.
StartFlush ==
    /\ LockFree
    /\ dirty # {} \/ dCoins # tip
    /\ flush' = "index"
    /\ UNCHANGED <<vars, dbVars, dCoins, batches, fileVars, crashes>>

\* A dirty entry replaces the one in the database.
Written(old, mem) == (old \ dirty) \cup (mem \cap dirty)

WriteBatchSync ==
    /\ dIndex' = Written(dIndex, index)
    /\ dData' = Written(dData, data)
    /\ dConnected' = Written(dConnected, connected)
    /\ dFailedValid' = Written(dFailedValid, failedValid)
    /\ dFailedChild' = Written(dFailedChild, failedChild)
    /\ dLastFile' = lastFile
    /\ dirty' = {}

\* fault: nothing is known of the blocks the coins refer to
CoinsFirst ==
    /\ flush = "index"
    /\ flush' = "coins"
    /\ dCoins' = tip
    /\ batches' = batches \cup {tip}
    /\ UNCHANGED <<vars, dbVars, fileVars, crashes>>

FlushIndex ==
    /\ flush = "index"
    /\ FlushBlockFile
    /\ WriteBatchSync
    /\ flush' = "coins"
    /\ UNCHANGED <<index, data, connected, failedValid, failedChild, chainTx, seq, nextSeq,
                   cands, unlinked, tip, bestHeader, bestInvalid, threadVars,
                   dCoins, batches, file, lastFile, crashes>>

FlushCoins ==
    /\ flush = "coins"
    /\ dCoins' = tip
    /\ batches' = batches \cup {tip}
    /\ flush' = "no"
    /\ UNCHANGED <<vars, dbVars, fileVars, crashes>>

-------------------------------------------------------------------------------
(* Restart *)

Best(S, s, b) == b \in S /\ \A c \in S \ {b} : WorseBy(s, c, b)

\* Complete and not marked, before pruning.
LoadedCandidates == {b \in dData \ (dFailedValid \cup dFailedChild) : Anc[b] \subseteq dData}

\* fault: mapBlocksUnlinked starts empty
LoadedUnlinkedNot == {}

\* The blocks that wait for an ancestor again.
LoadedUnlinked == {<<Parent[b], b>> : b \in {d \in dData : ~ Anc[d] \subseteq dData}}

\* AppInit2 calls ActivateBestChain; the network may already deliver blocks meanwhile, as
\* it does in a call that is interrupted later.
StartThread(t) == [u \in Threads |-> IF u = t THEN "activate" ELSE "idle"]

\* The strongest marked block; of several the one that comes first in the sorted list.
LoadedBestInvalid(b) ==
    IF dFailedValid \cup dFailedChild = {} THEN b = NULL
    ELSE /\ b \in dFailedValid \cup dFailedChild
         /\ \A c \in dFailedValid \cup dFailedChild : Work[c] <= Work[b]

\* Every block of the active chain can be read back and disconnected in memory.
VerifyDB(c, readable) == Anc[c] \ {Genesis} \subseteq readable

\* A crash, and the next start of the node up to the ActivateBestChain of AppInit2.
\* InsertBlockIndex adds nothing: the parent of an entry is in the database too.
LoadBlockIndexDB(t, c, readable) ==
    /\ index' = dIndex
    /\ data' = dData
    /\ connected' = dConnected
    /\ failedValid' = dFailedValid
    /\ failedChild' = dFailedChild
    /\ chainTx' = {b \in dData : Anc[b] \subseteq dData}
    /\ seq' = [b \in Blocks |-> 0]
    /\ nextSeq' = 1
    /\ unlinked' = LoadedUnlinked
    /\ tip' = c
    /\ cands' = {b \in LoadedCandidates : ~ WorseBy(seq', b, c)}
    /\ Best(dIndex \ (dFailedValid \cup dFailedChild), seq', bestHeader')
    /\ \E b \in dIndex \cup {NULL} : LoadedBestInvalid(b) /\ bestInvalid' = b
    /\ dirty' = {}
    /\ pc' = IF cands' = {} \/ ~ VerifyDB(c, readable) THEN Abort ELSE StartThread(t)
    /\ target' = [u \in Threads |-> NULL]
    /\ oldTip' = [u \in Threads |-> NULL]

Restart(c, readable) ==
    /\ crashes < MaxCrashes
    /\ crashes' = crashes + 1
    /\ \E t \in Threads : LoadBlockIndexDB(t, c, readable)
    /\ dCoins' = c
    /\ batches' = {c}
    /\ lastFile' = dLastFile
    /\ file' = [b \in Blocks |-> IF b \in dData THEN file[b] ELSE 0]
    /\ syncedData' = syncedData \cap dData
    /\ syncedUndo' = syncedUndo \cap dConnected
    /\ flush' = "no"
    /\ UNCHANGED <<dbVars, dLastFile>>

\* The process dies; what it has handed to the operating system is safe.
ProcessDies == Restart(dCoins, dData \cap dConnected)

\* The machine dies: the coin database falls back to an earlier batch, and only synced
\* bytes of the block files are left.
PowerFails == \E c \in batches : Restart(c, dData \cap dConnected \cap syncedData \cap syncedUndo)

-------------------------------------------------------------------------------
(* The steps of ChainState; none of them runs in the middle of a flush *)

\* DisconnectTip and ConnectTip flush if the cache is full.
Move(t) == DisconnectTip(t) \/ (\E b \in Blocks : ConnectTip(t, b))

MoveAndFlush(move) ==
    /\ flush = "no"
    /\ move
    /\ flush' \in {"no", "index"}
    /\ UNCHANGED <<dbVars, dCoins, batches, fileVars, crashes>>

Store ==
    /\ flush = "no"
    /\ \E t \in Threads, b \in Blocks : AcceptBlock(t, b) /\ FindBlockPos(b)
    /\ UNCHANGED <<dbVars, dCoins, batches, dLastFile, flush, crashes>>

Quiet(t) ==
    \/ \E b \in Blocks : \/ AcceptBlockHeader(b)
                         \/ AcceptBadBlock(b)
                         \/ AcceptKnownBlock(t, b)
                         \/ InvalidBlockFound(t, b)
    \/ DropFailedBranch(t)
    \/ NothingToDo(t)
    \/ FoundMostWork(t)
    \/ LoopTest(t)

QuietRpc(t) ==
    \/ \E b \in Blocks : InvalidateBlock(t, b) \/ ReconsiderBlock(t, b)
    \/ InvalidateDone(t)

Flushing == (flush = "no" /\ StartFlush) \/ FlushIndex \/ FlushCoins

DiskNext ==
    \/ Store
    \/ \E t \in Threads : \/ MoveAndFlush(Move(t))
                          \/ flush = "no" /\ Quiet(t) /\ UNCHANGED diskVars
    \/ Flushing

RpcNext == \E t \in Threads : \/ MoveAndFlush(InvalidateWalk(t))
                              \/ flush = "no" /\ QuietRpc(t) /\ UNCHANGED diskVars

\* A node that is killed now and then, one that loses power, one that is killed and serves
\* the RPCs, and all of this together.
DiskSpec == DiskInit /\ [][DiskNext \/ ProcessDies]_allVars
PowerSpec == DiskInit /\ [][DiskNext \/ PowerFails]_allVars
RpcDiskSpec == DiskInit /\ [][DiskNext \/ RpcNext \/ ProcessDies]_allVars
CrashSpec == DiskInit /\ [][DiskNext \/ RpcNext \/ ProcessDies \/ PowerFails]_allVars

\* The node keeps working between its restarts, of which there are finitely many.
FairDiskSpec ==
    /\ DiskSpec
    /\ \A t \in Threads : WF_allVars(\/ MoveAndFlush(Move(t))
                                     \/ flush = "no" /\ Activation(t) /\ UNCHANGED diskVars)
    /\ WF_allVars(FlushIndex \/ FlushCoins)

-------------------------------------------------------------------------------
(* What is claimed *)

\* Every variable of the disk stays in its type.
DiskTypeOK ==
    /\ dIndex \in SUBSET Blocks
    /\ dData \in SUBSET dIndex
    /\ dConnected \in SUBSET dData
    /\ dFailedValid \in SUBSET dIndex
    /\ dFailedChild \in SUBSET dIndex
    /\ dCoins \in Blocks
    /\ batches \in SUBSET Blocks
    /\ file \in [Blocks -> Nat]
    /\ lastFile \in Nat
    /\ dLastFile \in Nat
    /\ syncedData \in SUBSET Blocks
    /\ syncedUndo \in SUBSET Blocks
    /\ flush \in {"no", "index", "coins"}
    /\ crashes \in 0 .. MaxCrashes

\* Whatever write a crash comes after, every block of the chain that the coin database is
\* at has its index entry, its data and its undo data in the block index database
\* (FlushStateToDisk writes them first).
CoinsReferToIndex ==
    \A c \in batches \cup {dCoins} : Anc[c] \subseteq dData \cap dConnected

\* Whatever a crash interrupts, invalidateblock included, the active chain of the next start
\* has all its blocks and no block that fails the checks; and until there is a crash the
\* two RPCs leave no marked block in it.
ActiveChainSurvives == ActiveChainStored /\ (crashes = 0 => ActiveChainSound)

\* Of the chain the coin database is at, no byte that a later disconnect needs can be lost
\* in a power failure ("First make sure all block and undo data is flushed to disk").
ChainIsSynced == Anc[dCoins] \subseteq syncedData \cap syncedUndo

\* Again and again the tip matches every chain of valid blocks that is stored completely:
\* the node finds its way back from whatever a crash left on disk, and blocks that waited
\* for an ancestor when it died still join their chain when the ancestor comes
\* (LoadBlockIndexDB).
RecoveredChainWins ==
    []<>(\A b \in data : Anc[b] \subseteq data \ Invalid => ~ Worse(tip, b))
===============================================================================
