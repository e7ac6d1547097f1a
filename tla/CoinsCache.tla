------------------------------ MODULE CoinsCache ------------------------------
(***************************************************************************)
(* Two CCoinsViewCache objects on top of the coin database (coins.h,         *)
(* coins.cpp, txdb.cpp): pcoinsTip, and the short-lived view in which        *)
(* ConnectTip and DisconnectTip apply a block.  A cache keeps entries with    *)
(* the flags DIRTY and FRESH; reads fill it, and also fill the cache below.   *)
(*                                                                           *)
(* A CCoins is an opaque member of Coins; Pruned stands for the ones without  *)
(* unspent outputs, which operator== takes for equal.  ModifyCoins and the    *)
(* destructor of the CCoinsModifier it returns are one step: the caller holds *)
(* the modifier for one assignment and cs_main all along.                     *)
(***************************************************************************)
CONSTANTS Txids, Coins, Pruned, Blocks, NullHash

ASSUME CoinsAssumption == Pruned \in Coins /\ NullHash \notin Blocks

VARIABLES disk,    \* the database: coins that are not Pruned are its entries
          tip,     \* pcoinsTip
          view,    \* the CCoinsViewCache over pcoinsTip, empty when there is none
          open     \* whether that object exists

vars == <<disk, tip, view, open>>

\* A CCoinsViewCache: the keys of cacheCoins, their coins and flags, and hashBlock.
Cache == [keys : SUBSET Txids, coins : [Txids -> Coins],
          dirty : SUBSET Txids, fresh : SUBSET Txids,
          best : Blocks \cup {NullHash}]

EmptyCache(b) ==
    [keys |-> {}, coins |-> [t \in Txids |-> Pruned], dirty |-> {}, fresh |-> {}, best |-> b]

\* What a cache answers for every transaction id, given what its base answers.
Contents(c, base) == [t \in Txids |-> IF t \in c.keys THEN c.coins[t] ELSE base[t]]

TipCoins == Contents(tip, disk.coins)
ViewCoins == Contents(view, TipCoins)

\* GetBestBlock: hashBlock if it is set, else the answer of the base.
TipBest == IF tip.best = NullHash THEN disk.best ELSE tip.best
ViewBest == IF view.best = NullHash THEN TipBest ELSE view.best

-------------------------------------------------------------------------------
(* Methods of a cache c over a base that has entries for keys, and answers base[t] *)

\* fault: what was read from the base passes for new.
FetchAsFresh(c, base, keys, t) ==
    IF t \in c.keys \/ t \notin keys
    THEN c
    ELSE [c EXCEPT !.keys = @ \cup {t},
                   !.coins[t] = base[t],
                   !.fresh = @ \cup {t}]

FetchCoins(c, base, keys, t) ==
    IF t \in c.keys \/ t \notin keys
    THEN c
    ELSE [c EXCEPT !.keys = @ \cup {t},
                   !.coins[t] = base[t],
                   !.fresh = IF base[t] = Pruned THEN @ \cup {t} ELSE @]

\* The entry is fetched or made, marked DIRTY and given the value; the destructor of
\* the modifier drops it again if the base need not hear of it.
Modified(c, base, t, value) ==
    LET fresh == IF t \notin c.keys /\ base[t] = Pruned THEN c.fresh \cup {t} ELSE c.fresh
    IN  IF t \in fresh /\ value = Pruned
        THEN [c EXCEPT !.keys = @ \ {t}, !.coins[t] = Pruned,
                       !.dirty = @ \ {t}, !.fresh = @ \ {t}]
        ELSE [c EXCEPT !.keys = @ \cup {t}, !.coins[t] = value,
                       !.dirty = @ \cup {t}, !.fresh = fresh]

\* fault: a pruned coin is dropped from the cache although the base still has it.
EraseAnyPruned(c, child) == {t \in child.dirty \cap c.keys : child.coins[t] = Pruned}

\* What CCoinsViewCache::BatchWrite does with the dirty entries of the child.
Inserted(c, child) == {t \in child.dirty \ c.keys : child.coins[t] # Pruned}
Erased(c, child) == {t \in child.dirty \cap c.fresh : child.coins[t] = Pruned}
Replaced(c, child) == (child.dirty \cap c.keys) \ Erased(c, child)

BatchWrite(c, child) ==
    LET new == Inserted(c, child) \cup Replaced(c, child)
        old == Erased(c, child)
    IN  [keys |-> (c.keys \ old) \cup new,
         coins |-> [t \in Txids |-> IF t \in new THEN child.coins[t]
                                    ELSE IF t \in old THEN Pruned ELSE c.coins[t]],
         dirty |-> (c.dirty \ old) \cup new,
         fresh |-> (c.fresh \ old) \cup Inserted(c, child),
         best |-> child.best]

-------------------------------------------------------------------------------
Init ==
    /\ disk = [coins |-> [t \in Txids |-> Pruned], best |-> NullHash]
    /\ tip = EmptyCache(NullHash)
    /\ view = EmptyCache(NullHash)
    /\ open = FALSE

\* The database holds no pruned entries.
DbKeys == {t \in Txids : disk.coins[t] # Pruned}

\* pcoinsTip once its base was asked for t.
TipFetched(t) == FetchCoins(tip, disk.coins, DbKeys, t)

\* A read of pcoinsTip itself: the memory pool, an RPC, mempool.check.
ReadTip(t) ==
    /\ ~open
    /\ tip' = TipFetched(t)
    /\ UNCHANGED <<disk, view, open>>

\* CCoinsViewCache view(pcoinsTip); ConnectBlock and DisconnectBlock begin by asking
\* it for its best block, which both caches then remember.
Open ==
    /\ ~open
    /\ open' = TRUE
    /\ tip' = [tip EXCEPT !.best = TipBest]
    /\ view' = [view EXCEPT !.best = TipBest]
    /\ UNCHANGED disk

\* AccessCoins on the view: HaveInputs, GetValueIn, CheckInputs.
Read(t) ==
    /\ open
    /\ t \notin view.keys
    /\ tip' = TipFetched(t)
    /\ view' = FetchCoins(view, TipCoins, tip'.keys, t)
    /\ UNCHANGED <<disk, open>>

ModifyCoins(t, value) ==
    /\ open
    /\ tip' = IF t \in view.keys THEN tip ELSE TipFetched(t)
    /\ view' = Modified(view, TipCoins, t, value)
    /\ UNCHANGED <<disk, open>>

SetBestBlock(b) ==
    /\ open
    /\ view' = [view EXCEPT !.best = b]
    /\ UNCHANGED <<disk, tip, open>>

\* view.Flush() and the destructor.
Flush ==
    /\ open
    /\ tip' = BatchWrite(tip, view)
    /\ view' = EmptyCache(NullHash)
    /\ open' = FALSE
    /\ UNCHANGED disk

\* The block failed: the view is destroyed and its changes are forgotten.
Forget ==
    /\ open
    /\ view' = EmptyCache(NullHash)
    /\ open' = FALSE
    /\ UNCHANGED <<disk, tip>>

\* CCoinsViewDB::BatchWrite: a dirty entry is written, or erased if pruned.
DbBatchWrite(c) ==
    [coins |-> [t \in Txids |-> IF t \in c.dirty THEN c.coins[t] ELSE disk.coins[t]],
     best |-> IF c.best = NullHash THEN disk.best ELSE c.best]

\* pcoinsTip->Flush(): hashBlock stays, the entries go.
FlushTip ==
    /\ ~open
    /\ disk' = DbBatchWrite(tip)
    /\ tip' = EmptyCache(tip.best)
    /\ UNCHANGED <<view, open>>

\* The process ends without a flush and is started again.
Crash ==
    /\ tip' = EmptyCache(NullHash)
    /\ view' = EmptyCache(NullHash)
    /\ open' = FALSE
    /\ UNCHANGED disk

Next ==
    \/ \E t \in Txids : ReadTip(t)
    \/ Open
    \/ \E t \in Txids : Read(t)
    \/ \E t \in Txids, value \in Coins : ModifyCoins(t, value)
    \/ \E b \in Blocks : SetBestBlock(b)
    \/ Flush
    \/ Forget
    \/ FlushTip
    \/ Crash

Spec == Init /\ [][Next]_vars

-------------------------------------------------------------------------------
(* Properties *)

WellFormed(c) ==
    /\ c \in Cache
    /\ c.dirty \subseteq c.keys
    /\ c.fresh \subseteq c.keys

TypeOK ==
    /\ disk \in [coins : [Txids -> Coins], best : Blocks \cup {NullHash}]
    /\ WellFormed(tip)
    /\ WellFormed(view)
    /\ open \in BOOLEAN

\* The flags of c tell the truth about what the base answers.
FlagsHold(c, base) ==
    /\ \A t \in c.fresh : base[t] = Pruned
    /\ \A t \in c.keys \ c.dirty : c.coins[t] = base[t]

\* FRESH and DIRTY mean what CCoinsCacheEntry says: the parent does not have a FRESH
\* entry (or has it pruned), and an entry that differs from the parent's is DIRTY.
FlagsTruthful ==
    /\ FlagsHold(tip, disk.coins)
    /\ FlagsHold(view, TipCoins)

\* The assert in BatchWrite: an entry that the parent cache does not have, and that is
\* worth moving up, is FRESH, because any other entry was read through the parent.
FlushAssert == Inserted(tip, view) \subseteq view.fresh

\* The maps that the caches stand for.
Maps == INSTANCE CoinsMap WITH
    disk <- disk,
    tip <- [coins |-> TipCoins, best |-> TipBest],
    view <- [coins |-> ViewCoins, best |-> ViewBest]

\* The caches cannot be told from plain maps by what is read from them: no read
\* changes an answer, a flush moves up exactly the changes of the view, and a crash
\* takes the node back to the last flush.
ImplementsMaps == Maps!Spec
===============================================================================
