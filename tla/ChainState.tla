------------------------------ MODULE ChainState ------------------------------
(***************************************************************************)
(* The block tree and the active chain (main.cpp): what mapBlockIndex,      *)
(* chainActive, setBlockIndexCandidates and mapBlocksUnlinked hold, how     *)
(* headers and blocks enter them, and how ActivateBestChain moves the       *)
(* active chain from one branch to another.                                 *)
(*                                                                          *)
(* Several threads (message handler, import, miner, RPC) run ProcessNewBlock *)
(* at the same time.  Everything happens under cs_main, but                 *)
(* ActivateBestChain releases it after every ActivateBestChainStep, so a    *)
(* thread's pindexMostWork may be out of date when it comes back.  A step   *)
(* is one DisconnectTip or ConnectTip at a time.                            *)
(*                                                                          *)
(* The tree of all blocks that exist in the world is a constant; the model  *)
(* says which of them the node has heard of.  chainActive is the set of     *)
(* ancestors of its tip.                                                    *)
(*                                                                          *)
(* Definitions marked "fault" are mutations that show which property        *)
(* depends on the definition below them; nothing else uses them.            *)
(***************************************************************************)
EXTENDS Integers, FiniteSets

CONSTANTS
    Blocks,    \* every block of the run
    Genesis,
    Parent,    \* pprev: a function on Blocks \ {Genesis}
    Anc,       \* Anc[b]: b and all its ancestors
    Work,      \* nChainWork
    Addr,      \* address of the CBlockIndex object, the last tie breaker
    BadBody,   \* blocks that fail ContextualCheckBlock
    Invalid,   \* blocks that fail ConnectBlock
    Threads,
    NULL

ASSUME GenesisAssumption == Genesis \in Blocks /\ NULL \notin Blocks

ASSUME TreeAssumption ==
    /\ Parent \in [Blocks \ {Genesis} -> Blocks]
    /\ Anc \in [Blocks -> SUBSET Blocks]
    /\ Anc[Genesis] = {Genesis}
    /\ \A b \in Blocks \ {Genesis} : Anc[b] = Anc[Parent[b]] \cup {b} /\ b \notin Anc[Parent[b]]
    /\ \A b \in Blocks : Genesis \in Anc[b] /\ (\A a \in Anc[b] : Anc[a] \subseteq Anc[b])

\* The ancestors of a block form a chain.
ASSUME LinearAssumption ==
    \A d \in Blocks : \A a, b \in Anc[d] : a \in Anc[b] \/ b \in Anc[a]

ASSUME WorkAssumption ==
    /\ Work \in [Blocks -> Nat]
    /\ \A b \in Blocks \ {Genesis} : Work[Parent[b]] < Work[b]
    /\ \A b \in Blocks : \A a \in Anc[b] \ {b} : Work[a] < Work[b]

ASSUME AddrAssumption ==
    Addr \in [Blocks -> Nat] /\ \A a, b \in Blocks : Addr[a] = Addr[b] => a = b

ASSUME FaultAssumption ==
    BadBody \subseteq Blocks \ {Genesis} /\ Invalid \subseteq Blocks \ {Genesis}

ASSUME ThreadsAssumption == Threads # {}

VARIABLES
    index,         \* mapBlockIndex: blocks whose header is known
    data,          \* BLOCK_HAVE_DATA (and nTx > 0)
    connected,     \* BLOCK_VALID_SCRIPTS and BLOCK_HAVE_UNDO: connected at least once (and genesis)
    failedValid,   \* BLOCK_FAILED_VALID
    failedChild,   \* BLOCK_FAILED_CHILD
    chainTx,       \* blocks with nChainTx > 0
    seq,           \* nSequenceId
    nextSeq,       \* nBlockSequenceId
    cands,         \* setBlockIndexCandidates
    unlinked,      \* mapBlocksUnlinked: pairs <<parent, child>>
    tip,           \* chainActive.Tip()
    bestHeader,    \* pindexBestHeader
    bestInvalid,   \* pindexBestInvalid, or NULL
    dirty,         \* setDirtyBlockIndex
    pc,            \* where each thread is in ActivateBestChain
    target,        \* its pindexMostWork
    oldTip         \* its pindexOldTip

treeVars == <<index, data, connected, failedValid, failedChild, chainTx, seq, nextSeq, unlinked,
              bestHeader>>
threadVars == <<pc, target, oldTip>>
vars == <<index, data, connected, failedValid, failedChild, chainTx, seq, nextSeq, cands,
          unlinked, tip, bestHeader, bestInvalid, dirty, pc, target, oldTip>>

failed == failedValid \cup failedChild

\* chainActive.Contains
Active(b) == b \in Anc[tip]

\* cs_main is held by a thread inside FindMostWorkChain, ActivateBestChainStep or
\* InvalidateBlock.  A failed assert ends the process: nobody gets the lock again.
LockFree == \A t \in Threads : pc[t] \notin {"find", "step", "walk", "aborted"}

\* CBlockIndexWorkComparator: a sorts before b, that is, a is the worse tip.
WorseBy(s, a, b) ==
    \/ Work[a] < Work[b]
    \/ Work[a] = Work[b] /\ s[a] > s[b]
    \/ Work[a] = Work[b] /\ s[a] = s[b] /\ Addr[a] > Addr[b]

Worse(a, b) == WorseBy(seq, a, b)

\* The branch from (not including) the fork with the active chain up to b.
Branch(b) == Anc[b] \ Anc[tip]

Init ==
    /\ index = {Genesis}
    /\ data = {Genesis}
    /\ connected = {Genesis}
    /\ failedValid = {}
    /\ failedChild = {}
    /\ chainTx = {Genesis}
    /\ seq = [b \in Blocks |-> IF b = Genesis THEN 1 ELSE 0]
    /\ nextSeq = 2
    /\ cands = {Genesis}
    /\ unlinked = {}
    /\ tip = Genesis
    /\ bestHeader = Genesis
    /\ bestInvalid = NULL
    /\ dirty = {}
    /\ pc = [t \in Threads |-> "idle"]
    /\ target = [t \in Threads |-> NULL]
    /\ oldTip = [t \in Threads |-> NULL]

-------------------------------------------------------------------------------
(* Headers and blocks coming in *)

\* The header is known and not marked, or it is new and its parent is known and not marked.
HeaderOK(b) ==
    IF b \in index THEN b \notin failed
    ELSE b # Genesis /\ Parent[b] \in index \ failed

AddToBlockIndex(b) ==
    /\ index' = index \cup {b}
    /\ bestHeader' = IF b \notin index /\ Work[bestHeader] < Work[b] THEN b ELSE bestHeader

AcceptBlockHeader(b) ==
    /\ LockFree
    /\ b \notin index
    /\ HeaderOK(b)
    /\ AddToBlockIndex(b)
    /\ dirty' = dirty \cup {b}
    /\ UNCHANGED <<data, connected, failedValid, failedChild, chainTx, seq, nextSeq, cands,
                   unlinked, tip, bestInvalid, threadVars>>

\* AcceptBlock of a block whose body is bad: only its header entry remains, marked.
AcceptBadBlock(b) ==
    /\ LockFree
    /\ b \in BadBody
    /\ b \notin data
    /\ HeaderOK(b)
    /\ AddToBlockIndex(b)
    /\ failedValid' = failedValid \cup {b}
    /\ dirty' = dirty \cup {b}
    /\ UNCHANGED <<data, connected, failedChild, chainTx, seq, nextSeq, cands, unlinked, tip,
                   bestInvalid, threadVars>>

\* A block that is already stored: ProcessNewBlock goes straight on to ActivateBestChain.
AcceptKnownBlock(t, b) ==
    /\ pc[t] = "idle"
    /\ LockFree
    /\ b \in data
    /\ HeaderOK(b)
    /\ pc' = [pc EXCEPT ![t] = "activate"]
    /\ UNCHANGED <<treeVars, cands, tip, bestInvalid, dirty, target, oldTip>>

\* fault: waiting descendants are not looked at
LinkOnly(b) == {b}

\* The waiting descendants of b that its arrival connects to the tree of complete chains.
Linked(b) ==
    {d \in data \cup {b} :
        /\ b \in Anc[d]
        /\ \A x \in Anc[d] \ Anc[b] : <<Parent[x], x>> \in unlinked}

ReceivedBlockTransactions(b) ==
    /\ data' = data \cup {b}
    /\ seq' = [seq EXCEPT ![b] = nextSeq]
    /\ nextSeq' = nextSeq + 1
    /\ \/ /\ Parent[b] \in chainTx
          /\ chainTx' = chainTx \cup Linked(b)
          /\ cands' = cands \cup Linked(b)
          /\ unlinked' = {p \in unlinked : p[1] \notin Linked(b)}
       \/ /\ Parent[b] \notin chainTx
          /\ unlinked' = IF Parent[b] \in failed THEN unlinked
                         ELSE unlinked \cup {<<Parent[b], b>>}
          /\ UNCHANGED <<chainTx, cands>>

AcceptBlock(t, b) ==
    /\ pc[t] = "idle"
    /\ LockFree
    /\ b \notin data
    /\ b \notin BadBody
    /\ HeaderOK(b)
    /\ AddToBlockIndex(b)
    /\ ReceivedBlockTransactions(b)
    /\ dirty' = dirty \cup {b}
    /\ pc' = [pc EXCEPT ![t] = "activate"]
    /\ UNCHANGED <<connected, failedValid, failedChild, tip, bestInvalid, target, oldTip>>

-------------------------------------------------------------------------------
(* ActivateBestChain: "activate" waits for cs_main, "find" and "step" hold it, *)
(* "notify" runs the callbacks and then the loop test without it.              *)

IsBest(b) == b \in cands /\ \A c \in cands \ {b} : Worse(c, b)

\* The first marked block met on the way down from b to the active chain.
FirstFailed(b, f) ==
    f \in Branch(b) \cap failed /\ \A x \in Branch(b) \cap failed : x \in Anc[f]

\* The two asserts on every block the walk down from b visits.
AssertsOnWalk(b) ==
    \A x \in Branch(b) :
        (\E y \in Branch(b) \cap failed : y # x /\ x \in Anc[y]) \/ x \in data \cap chainTx

Abort == [t \in Threads |-> "aborted"]

\* InvalidChainFound, and the same test in FindMostWorkChain
UpdateBestInvalid(b) ==
    bestInvalid' = IF bestInvalid = NULL THEN b
                   ELSE IF Work[b] > Work[bestInvalid] THEN b ELSE bestInvalid

Finding(t) == pc[t] = "find" \/ (pc[t] = "activate" /\ LockFree)

Leave(t) ==
    /\ pc' = [pc EXCEPT ![t] = "idle"]
    /\ target' = [target EXCEPT ![t] = NULL]
    /\ oldTip' = [oldTip EXCEPT ![t] = NULL]

\* fault: the descendants of the marked block are neither marked nor dropped
DropFailedOnly(t) ==
    /\ Finding(t)
    /\ \E b \in cands, f \in failed :
         /\ IsBest(b)
         /\ AssertsOnWalk(b)
         /\ FirstFailed(b, f)
         /\ UpdateBestInvalid(b)
         /\ failedChild' = failedChild
         /\ cands' = cands \ {f}
    /\ pc' = [pc EXCEPT ![t] = "find"]
    /\ UNCHANGED <<index, data, connected, failedValid, chainTx, seq, nextSeq, unlinked, tip,
                   bestHeader, dirty, target, oldTip>>

\* One iteration of FindMostWorkChain that meets a marked block.
DropFailedBranch(t) ==
    /\ Finding(t)
    /\ \E b \in cands, f \in failed :
         /\ IsBest(b)
         /\ AssertsOnWalk(b)
         /\ FirstFailed(b, f)
         /\ UpdateBestInvalid(b)
         /\ failedChild' = failedChild \cup (Branch(b) \ Anc[f])
         /\ cands' = cands \ ((Branch(b) \ Anc[f]) \cup {f})
    /\ pc' = [pc EXCEPT ![t] = "find"]
    /\ UNCHANGED <<index, data, connected, failedValid, chainTx, seq, nextSeq, unlinked, tip,
                   bestHeader, dirty, target, oldTip>>

\* The iteration that returns a chain: nothing to do, or the start of a step unless an
\* assert on the way fails.
NothingToDo(t) ==
    /\ Finding(t)
    /\ cands = {} \/ IsBest(tip)
    /\ Leave(t)
    /\ UNCHANGED <<treeVars, cands, tip, bestInvalid, dirty>>

FoundMostWork(t) ==
    /\ Finding(t)
    /\ \E b \in cands :
         /\ IsBest(b)
         /\ b # tip
         /\ AssertsOnWalk(b) => Branch(b) \cap failed = {}
         /\ target' = [target EXCEPT ![t] = b]
         /\ pc' = IF AssertsOnWalk(b) THEN [pc EXCEPT ![t] = "step"] ELSE Abort
    /\ oldTip' = [oldTip EXCEPT ![t] = tip]
    /\ UNCHANGED <<treeVars, cands, tip, bestInvalid, dirty>>

DisconnectTip(t) ==
    /\ pc[t] = "step"
    /\ tip \notin Anc[target[t]]
    /\ tip' = Parent[tip]
    /\ pc' = [pc EXCEPT ![t] = IF Parent[tip] = target[t] THEN "notify" ELSE "step"]
    /\ UNCHANGED <<treeVars, cands, bestInvalid, dirty, target, oldTip>>

\* The block ConnectTip is called with next: the child of the tip towards the target.
NextBlock(t, b) ==
    /\ pc[t] = "step"
    /\ tip \in Anc[target[t]]
    /\ b \in Anc[target[t]] \ {Genesis}
    /\ Parent[b] = tip

\* fault: candidates on other branches are dropped as soon as a step begins
KeepDescendants(b) == {c \in cands : b \in Anc[c]}

\* fault: the tip itself goes too
KeepBetter(b) == {c \in cands : Worse(b, c)}

\* What PruneBlockIndexCandidates leaves; the code asserts that it is not empty.
PruneBlockIndexCandidates(b) == {c \in cands : ~ Worse(c, b)}

\* fault: the verdict of the checks is dropped
AnyBlock(b) == TRUE

ConnectBlock(b) == b \notin Invalid

ConnectTip(t, b) ==
    /\ NextBlock(t, b)
    /\ ConnectBlock(b)
    /\ connected' = connected \cup {b}
    /\ dirty' = IF b \in connected THEN dirty ELSE dirty \cup {b}
    /\ tip' = b
    /\ cands' = PruneBlockIndexCandidates(b)
    /\ pc' = IF cands' = {} THEN Abort
             ELSE [pc EXCEPT ![t] = IF Work[b] > Work[oldTip[t]] \/ b = target[t]
                                    THEN "notify" ELSE "step"]
    /\ UNCHANGED <<index, data, failedValid, failedChild, chainTx, seq, nextSeq, unlinked,
                   bestHeader, bestInvalid, target, oldTip>>

InvalidBlockFound(t, b) ==
    /\ NextBlock(t, b)
    /\ ~ ConnectBlock(b)
    /\ failedValid' = failedValid \cup {b}
    /\ dirty' = dirty \cup {b}
    /\ cands' = cands \ {b}
    /\ UpdateBestInvalid(b)
    /\ pc' = [pc EXCEPT ![t] = "notify"]
    /\ UNCHANGED <<index, data, connected, failedChild, chainTx, seq, nextSeq, unlinked, tip,
                   bestHeader, target, oldTip>>

\* while(pindexMostWork != chainActive.Tip()), read without cs_main
LoopTest(t) ==
    /\ pc[t] = "notify"
    /\ \/ target[t] = tip /\ Leave(t)
       \/ /\ target[t] # tip
          /\ pc' = [pc EXCEPT ![t] = "activate"]
          /\ UNCHANGED <<target, oldTip>>
    /\ UNCHANGED <<treeVars, cands, tip, bestInvalid, dirty>>

-------------------------------------------------------------------------------
(* The RPCs invalidateblock and reconsiderblock; both end in ActivateBestChain *)

\* The genesis block has no predecessor to fall back to and is left out.
InvalidateBlock(t, b) ==
    /\ pc[t] = "idle"
    /\ LockFree
    /\ b \in index \ {Genesis}
    /\ failedValid' = failedValid \cup {b}
    /\ dirty' = dirty \cup {b}
    /\ cands' = cands \ {b}
    /\ target' = [target EXCEPT ![t] = b]
    /\ pc' = [pc EXCEPT ![t] = "walk"]
    /\ UNCHANGED <<index, data, connected, failedChild, chainTx, seq, nextSeq, unlinked, tip,
                   bestHeader, bestInvalid, oldTip>>

InvalidateWalk(t) ==
    /\ pc[t] = "walk"
    /\ Active(target[t])
    /\ failedChild' = failedChild \cup {tip}
    /\ dirty' = dirty \cup {tip}
    /\ cands' = cands \ {tip}
    /\ tip' = Parent[tip]
    /\ UNCHANGED <<index, data, connected, failedValid, chainTx, seq, nextSeq, unlinked,
                   bestHeader, bestInvalid, threadVars>>

\* Blocks the two RPCs look for: complete, unmarked and better than the tip.
BetterThanTip(bad) == {b \in (data \cap chainTx) \ bad : Worse(tip, b)}

\* The loop inserts the invalidated block itself, once for every block it finds.
InvalidateDone(t) ==
    /\ pc[t] = "walk"
    /\ ~ Active(target[t])
    /\ cands' = IF BetterThanTip(failed) = {} THEN cands ELSE cands \cup {target[t]}
    /\ UpdateBestInvalid(target[t])
    /\ pc' = [pc EXCEPT ![t] = "activate"]
    /\ target' = [target EXCEPT ![t] = NULL]
    /\ UNCHANGED <<treeVars, tip, dirty, oldTip>>

\* IsValid() also fails for a block whose transactions were never received.
ReconsiderBlock(t, b) ==
    LET cleared == {d \in index : b \in Anc[d] /\ (d \in failed \/ d \notin data)}
    IN  /\ pc[t] = "idle"
        /\ LockFree
        /\ b \in index
        /\ failedValid' = failedValid \ (cleared \cup Anc[b])
        /\ failedChild' = failedChild \ (cleared \cup Anc[b])
        /\ dirty' = dirty \cup cleared \cup (Anc[b] \cap failed)
        /\ cands' = cands \cup (BetterThanTip(failed \ cleared) \cap cleared)
        /\ bestInvalid' = IF bestInvalid \in cleared THEN NULL ELSE bestInvalid
        /\ pc' = [pc EXCEPT ![t] = "activate"]
        /\ UNCHANGED <<index, data, connected, chainTx, seq, nextSeq, unlinked, tip, bestHeader,
                       target, oldTip>>

-------------------------------------------------------------------------------
Activation(t) ==
    \/ DropFailedBranch(t)
    \/ NothingToDo(t)
    \/ FoundMostWork(t)
    \/ DisconnectTip(t)
    \/ \E b \in Blocks : ConnectTip(t, b) \/ InvalidBlockFound(t, b)
    \/ LoopTest(t)

Arrival ==
    \E b \in Blocks :
        \/ AcceptBlockHeader(b)
        \/ AcceptBadBlock(b)
        \/ \E t \in Threads : AcceptKnownBlock(t, b) \/ AcceptBlock(t, b)

invalidateblock ==
    \E t \in Threads :
        \/ \E b \in Blocks : InvalidateBlock(t, b)
        \/ InvalidateWalk(t)
        \/ InvalidateDone(t)

reconsiderblock == \E t \in Threads, b \in Blocks : ReconsiderBlock(t, b)

NetNext == Arrival \/ (\E t \in Threads : Activation(t))
Next == NetNext \/ invalidateblock \/ reconsiderblock

\* A node nobody sends the two RPCs to, one that only gets invalidateblock, and one that
\* serves both.
NetSpec == Init /\ [][NetNext]_vars
InvalidateSpec == Init /\ [][NetNext \/ invalidateblock]_vars
Spec == Init /\ [][Next]_vars

\* A thread inside ActivateBestChain keeps running: nothing in it waits for input.
FairNetSpec == NetSpec /\ \A t \in Threads : WF_vars(Activation(t))

-------------------------------------------------------------------------------
(* What is claimed *)

\* Every variable stays in its type.
TypeOK ==
    /\ index \in SUBSET Blocks
    /\ data \in SUBSET index
    /\ connected \in SUBSET data
    /\ failedValid \in SUBSET index
    /\ failedChild \in SUBSET index
    /\ chainTx \in SUBSET data
    /\ seq \in [Blocks -> Nat]
    /\ nextSeq \in Nat
    /\ cands \in SUBSET index
    /\ unlinked \in SUBSET (index \X data)
    /\ tip \in index
    /\ bestHeader \in index
    /\ bestInvalid \in index \cup {NULL}
    /\ dirty \in SUBSET index
    /\ pc \in [Threads -> {"idle", "activate", "find", "step", "notify", "walk", "aborted"}]
    /\ target \in [Threads -> index \cup {NULL}]
    /\ oldTip \in [Threads -> index \cup {NULL}]

ActiveChainStored ==
    /\ Anc[tip] \subseteq data \cap chainTx \cap connected
    /\ Anc[tip] \cap (Invalid \cup BadBody) = {}

\* Outside InvalidateBlock, every block of the active chain is stored, was connected
\* without an error, and is not marked as failed: ConnectTip and DisconnectTip find its
\* data and its undo data, and InvalidateBlock disconnects every block it marks.
ActiveChainSound ==
    /\ ActiveChainStored
    /\ (\A t \in Threads : pc[t] # "walk") => Anc[tip] \cap failed = {}

\* nChainTx is non-zero exactly for the blocks whose whole chain of ancestors has
\* arrived, in whatever order it arrived (ReceivedBlockTransactions, mapBlocksUnlinked).
ChainTxExact == \A b \in index : b \in chainTx <=> Anc[b] \subseteq data

\* No assert of FindMostWorkChain or PruneBlockIndexCandidates ever fails.
AssertsHold == \A t \in Threads : pc[t] # "aborted"

\* When no thread is inside ActivateBestChain, the tip is at least as good as every
\* complete chain without a marked block: threads that gave up cs_main half way, failed
\* reorganisations and stale values of pindexMostWork never leave the node on a worse chain.
BestChainActive ==
    (\A t \in Threads : pc[t] = "idle") =>
        \A b \in chainTx : Anc[b] \cap failed = {} => ~ Worse(tip, b)

\* At most one thread is inside a section that holds cs_main, and in the middle of a step
\* its target is still the best candidate.
StepAimsAtBest ==
    \A t \in Threads : pc[t] = "step" =>
        /\ \A u \in Threads \ {t} : pc[u] \notin {"find", "step", "walk"}
        /\ IsBest(target[t])

\* The tip moves one block at a time along the tree, and a thread that disconnects a block
\* is on the way to a chain with at least as much work as the tip it started from.
TipMovesAlongTree ==
    [][tip' # tip =>
         \/ tip # Genesis /\ tip' = Parent[tip]
            /\ \E t \in Threads :
                 \/ pc[t] = "walk"
                 \/ pc[t] = "step" /\ Work[target[t]] >= Work[oldTip[t]]
         \/ tip' # Genesis /\ Parent[tip'] = tip]_vars

\* A complete chain of valid blocks is eventually no better than the tip, whatever failed
\* branches the node has to back out of on the way.
GoodChainWins ==
    \A b \in Blocks :
        (b \in chainTx /\ Anc[b] \cap Invalid = {}) ~> ~ Worse(tip, b)
===============================================================================
