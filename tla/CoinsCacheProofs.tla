--------------------------- MODULE CoinsCacheProofs ---------------------------
(***************************************************************************)
(* Proofs about CoinsCache for every set of transactions, coins and blocks:  *)
(* the flags of the caches are truthful, the assert of BatchWrite holds, and *)
(* the caches implement the plain maps of CoinsMap.                          *)
(***************************************************************************)
EXTENDS CoinsCache, TLAPS

\* An entry of the view that is not FRESH was read through pcoinsTip, which still has it.
ReadThrough == view.keys \ view.fresh \subseteq tip.keys

\* No view, no entries.
ClosedEmpty == ~open => view = EmptyCache(NullHash)

\* A view without a hash of its own was opened on caches without one.
BestRead == open /\ view.best = NullHash => tip.best = NullHash /\ disk.best = NullHash

Inv ==
    /\ TypeOK
    /\ FlagsTruthful
    /\ ReadThrough
    /\ ClosedEmpty
    /\ BestRead

-------------------------------------------------------------------------------
(* What the methods of the caches preserve *)

\* The steps of CoinsMap that a step of the caches may be.
MapsStep == [Maps!Next]_Maps!vars

LEMMA TypesOfMaps ==
    ASSUME TypeOK
    PROVE  /\ disk.coins \in [Txids -> Coins] /\ TipCoins \in [Txids -> Coins]
           /\ ViewCoins \in [Txids -> Coins]
           /\ TipBest \in Blocks \cup {NullHash} /\ ViewBest \in Blocks \cup {NullHash}
  <1>1. tip \in Cache /\ view \in Cache /\ disk.coins \in [Txids -> Coins]
        /\ disk.best \in Blocks \cup {NullHash}
    BY DEF TypeOK, WellFormed
  <1>2. TipCoins \in [Txids -> Coins]
    BY <1>1 DEF TipCoins, Contents, Cache
  <1>3. ViewCoins \in [Txids -> Coins]
    BY <1>1, <1>2 DEF ViewCoins, Contents, Cache
  <1> QED
    BY <1>1, <1>2, <1>3 DEF TipBest, ViewBest, Cache

\* Once pcoinsTip was asked for t it answers as before, and its flags are as true.
LEMMA TipFetchedFacts ==
    ASSUME Inv, NEW t \in Txids
    PROVE  LET d == TipFetched(t)
           IN  /\ WellFormed(d)
               /\ FlagsHold(d, disk.coins)
               /\ Contents(d, disk.coins) = TipCoins
               /\ d.best = tip.best
               /\ d.keys = IF t \in DbKeys THEN tip.keys \cup {t} ELSE tip.keys
  <1> DEFINE d == TipFetched(t)
  <1>0. /\ tip \in Cache /\ WellFormed(tip) /\ FlagsHold(tip, disk.coins)
        /\ disk.coins \in [Txids -> Coins]
    BY DEF Inv, TypeOK, FlagsTruthful, WellFormed
  <1>1. CASE t \in tip.keys \/ t \notin DbKeys
    <2>1. d = tip
      BY <1>1 DEF TipFetched, FetchCoins
    <2> QED
      BY <1>0, <1>1, <2>1 DEF TipCoins
  <1>2. CASE ~(t \in tip.keys \/ t \notin DbKeys)
    <2>1. /\ d \in Cache
          /\ d.keys = tip.keys \cup {t}
          /\ d.coins = [tip.coins EXCEPT ![t] = disk.coins[t]]
          /\ d.dirty = tip.dirty
          /\ d.fresh = tip.fresh
          /\ d.best = tip.best
      BY Zenon, <1>0, <1>2 DEF TipFetched, FetchCoins, DbKeys, Cache
    <2>2. WellFormed(d) /\ FlagsHold(d, disk.coins)
      BY <1>0, <1>2, <2>1 DEF WellFormed, FlagsHold, Cache
    <2>3. Contents(d, disk.coins) = TipCoins
      BY <1>0, <1>2, <2>1 DEF TipCoins, Contents, Cache
    <2> QED
      BY <1>2, <2>1, <2>2, <2>3
  <1> QED
    BY <1>1, <1>2

-------------------------------------------------------------------------------
(* Every step keeps the invariant and is a step of the maps *)

\* Reads and openings change no answer.
LEMMA ReadTipStep ==
    ASSUME Inv, NEW t \in Txids, ReadTip(t)
    PROVE  Inv' /\ MapsStep
  <1>1. disk' = disk /\ view' = view /\ open' = open /\ ~open /\ tip' = TipFetched(t)
    BY DEF ReadTip
  <1>2. /\ WellFormed(tip') /\ FlagsHold(tip', disk.coins)
        /\ Contents(tip', disk.coins) = TipCoins
        /\ tip'.best = tip.best /\ tip.keys \subseteq tip'.keys
    BY Zenon, <1>1, TipFetchedFacts
  <1>3. TipCoins' = TipCoins /\ ViewCoins' = ViewCoins /\ TipBest' = TipBest /\ ViewBest' = ViewBest
    BY <1>1, <1>2 DEF TipCoins, ViewCoins, TipBest, ViewBest
  <1>4. Inv'
    BY <1>1, <1>2, <1>3 DEF Inv, TypeOK, FlagsTruthful, ReadThrough, ClosedEmpty, BestRead
  <1>5. MapsStep
    BY <1>1, <1>3 DEF MapsStep, Maps!vars
  <1> QED
    BY <1>4, <1>5

LEMMA OpenStep ==
    ASSUME Inv, Open
    PROVE  Inv' /\ MapsStep
  <1>1. /\ disk' = disk /\ ~open /\ open' = TRUE
        /\ tip' = [tip EXCEPT !.best = TipBest] /\ view' = [view EXCEPT !.best = TipBest]
    BY DEF Open
  <1>2. tip \in Cache /\ view \in Cache /\ TipBest \in Blocks \cup {NullHash}
    BY TypesOfMaps DEF Inv, TypeOK, WellFormed
  <1>3. /\ tip' \in Cache /\ tip'.keys = tip.keys /\ tip'.coins = tip.coins
        /\ tip'.dirty = tip.dirty /\ tip'.fresh = tip.fresh /\ tip'.best = TipBest
        /\ view' \in Cache /\ view'.keys = view.keys /\ view'.coins = view.coins
        /\ view'.dirty = view.dirty /\ view'.fresh = view.fresh /\ view'.best = TipBest
    BY <1>1, <1>2 DEF Cache
  <1>4. TipCoins' = TipCoins /\ ViewCoins' = ViewCoins
    BY <1>1, <1>3 DEF TipCoins, ViewCoins, Contents
  <1>5. TipBest' = TipBest
    BY <1>1, <1>3 DEF TipBest
  <1>6. ViewBest' = ViewBest
    <2>1. view.best = NullHash
      BY <1>1 DEF Inv, ClosedEmpty, EmptyCache
    <2> QED
      BY <1>3, <1>5, <2>1 DEF ViewBest
  <1>7. Inv'
    <2>1. TypeOK' /\ ReadThrough' /\ ClosedEmpty'
      BY <1>1, <1>3 DEF Inv, TypeOK, WellFormed, ReadThrough, ClosedEmpty
    <2>2. FlagsTruthful'
      BY <1>1, <1>3, <1>4 DEF Inv, FlagsTruthful, FlagsHold
    <2>3. BestRead'
      BY <1>1, <1>3 DEF BestRead, TipBest
    <2> QED
      BY <2>1, <2>2, <2>3 DEF Inv
  <1>8. MapsStep
    BY Zenon, <1>1, <1>4, <1>5, <1>6 DEF MapsStep, Maps!Next, Maps!Open, Maps!vars
  <1> QED
    BY <1>7, <1>8

LEMMA ReadStep ==
    ASSUME Inv, NEW t \in Txids, Read(t)
    PROVE  Inv' /\ MapsStep
  <1>1. /\ disk' = disk /\ open' = open /\ open /\ tip' = TipFetched(t) /\ t \notin view.keys
        /\ view' = FetchCoins(view, TipCoins, tip'.keys, t)
    BY DEF Read
  <1>2. /\ WellFormed(tip') /\ FlagsHold(tip', disk.coins)
        /\ Contents(tip', disk.coins) = TipCoins
        /\ tip'.best = tip.best /\ tip.keys \subseteq tip'.keys
    BY Zenon, <1>1, TipFetchedFacts
  <1>3. TipCoins' = TipCoins /\ TipBest' = TipBest
    BY <1>1, <1>2 DEF TipCoins, TipBest
  <1>4. CASE t \notin tip'.keys
    <2>1. view' = view
      BY <1>1, <1>4 DEF FetchCoins
    <2> QED
      BY <1>1, <1>2, <1>3, <2>1 DEF Inv, TypeOK, FlagsTruthful, ReadThrough, ClosedEmpty,
         BestRead, MapsStep, Maps!vars, ViewCoins, ViewBest
  <1>5. CASE t \in tip'.keys
    <2>0. view \in Cache /\ WellFormed(view) /\ FlagsHold(view, TipCoins) /\ TipCoins \in [Txids -> Coins]
      BY TypesOfMaps DEF Inv, TypeOK, WellFormed, FlagsTruthful
    <2>1. /\ view' \in Cache
          /\ view'.keys = view.keys \cup {t}
          /\ view'.coins = [view.coins EXCEPT ![t] = TipCoins[t]]
          /\ view'.dirty = view.dirty
          /\ view'.fresh = IF TipCoins[t] = Pruned THEN view.fresh \cup {t} ELSE view.fresh
          /\ view'.best = view.best
      BY Zenon, <1>1, <1>5, <2>0 DEF FetchCoins, Cache
    <2>2. WellFormed(view') /\ FlagsHold(view', TipCoins)
      BY <1>1, <2>0, <2>1 DEF WellFormed, FlagsHold, Cache
    <2>3. ViewCoins' = ViewCoins
      BY <1>1, <1>3, <2>0, <2>1 DEF ViewCoins, Contents, Cache
    <2>4. TypeOK' /\ FlagsTruthful' /\ ClosedEmpty' /\ BestRead'
      BY <1>1, <1>2, <1>3, <2>1, <2>2 DEF Inv, TypeOK, FlagsTruthful, ClosedEmpty, BestRead
    <2>5. ReadThrough'
      BY <1>2, <1>5, <2>1 DEF Inv, ReadThrough
    <2>6. MapsStep
      BY <1>1, <1>3, <2>1, <2>3 DEF MapsStep, Maps!vars, ViewBest
    <2> QED
      BY <2>4, <2>5, <2>6 DEF Inv
  <1> QED
    BY <1>4, <1>5

\* A modification changes the answer of the view for t and no other answer.
LEMMA ModifyStep ==
    ASSUME Inv, NEW t \in Txids, NEW value \in Coins, ModifyCoins(t, value)
    PROVE  Inv' /\ MapsStep
  <1> DEFINE fresh == IF t \notin view.keys /\ TipCoins[t] = Pruned
                      THEN view.fresh \cup {t} ELSE view.fresh
  <1>1. /\ disk' = disk /\ open' = open /\ open
        /\ tip' = IF t \in view.keys THEN tip ELSE TipFetched(t)
        /\ view' = Modified(view, TipCoins, t, value)
    BY DEF ModifyCoins
  <1>0. /\ view \in Cache /\ WellFormed(view) /\ FlagsHold(view, TipCoins)
        /\ TipCoins \in [Txids -> Coins] /\ tip \in Cache /\ disk.coins \in [Txids -> Coins]
    BY TypesOfMaps DEF Inv, TypeOK, WellFormed, FlagsTruthful
  <1>2. /\ WellFormed(tip') /\ FlagsHold(tip', disk.coins)
        /\ Contents(tip', disk.coins) = TipCoins
        /\ tip'.best = tip.best /\ tip.keys \subseteq tip'.keys
        /\ (t \notin view.keys /\ t \in DbKeys) => t \in tip'.keys
    <2>1. CASE t \in view.keys
      BY <1>1, <2>1 DEF Inv, TypeOK, FlagsTruthful, TipCoins
    <2>2. CASE t \notin view.keys
      BY Zenon, <1>1, <2>2, TipFetchedFacts
    <2> QED
      BY <2>1, <2>2
  <1>3. TipCoins' = TipCoins /\ TipBest' = TipBest
    BY <1>1, <1>2 DEF TipCoins, TipBest
  <1>4. t \notin view.keys /\ TipCoins[t] # Pruned => t \in tip'.keys
    BY <1>0, <1>2 DEF TipCoins, Contents, DbKeys
  <1>5. /\ fresh \subseteq view.keys \cup {t} /\ fresh \subseteq Txids
        /\ \A u \in fresh : TipCoins[u] = Pruned
        /\ view.fresh \subseteq fresh
    BY <1>0 DEF WellFormed, FlagsHold, Cache
  <1>6. /\ WellFormed(view') /\ FlagsHold(view', TipCoins) /\ ReadThrough'
        /\ ViewCoins' = [ViewCoins EXCEPT ![t] = value] /\ view'.best = view.best
    <2>1. CASE t \in fresh /\ value = Pruned
      <3>1. /\ view' \in Cache
            /\ view'.keys = view.keys \ {t} /\ view'.coins = [view.coins EXCEPT ![t] = Pruned]
            /\ view'.dirty = view.dirty \ {t} /\ view'.fresh = view.fresh \ {t}
            /\ view'.best = view.best
        BY Zenon, <1>0, <1>1, <2>1, CoinsAssumption DEF Modified, Cache
      <3>2. WellFormed(view') /\ FlagsHold(view', TipCoins)
        BY <1>0, <3>1 DEF WellFormed, FlagsHold, Cache
      <3>3. ViewCoins' = [ViewCoins EXCEPT ![t] = value]
        <4>1. TipCoins[t] = value /\ t \notin view'.keys
          BY <1>5, <2>1, <3>1
        <4> QED
          BY Zenon, <1>0, <1>3, <3>1, <4>1 DEF ViewCoins, Contents, Cache
      <3>4. ReadThrough'
        BY <1>2, <3>1 DEF Inv, ReadThrough
      <3> QED
        BY <3>1, <3>2, <3>3, <3>4
    <2>2. CASE ~(t \in fresh /\ value = Pruned)
      <3>1. /\ view' \in Cache
            /\ view'.keys = view.keys \cup {t} /\ view'.coins = [view.coins EXCEPT ![t] = value]
            /\ view'.dirty = view.dirty \cup {t} /\ view'.fresh = fresh
            /\ view'.best = view.best
        BY Zenon, <1>0, <1>1, <1>5, <2>2 DEF Modified, Cache
      <3>2. WellFormed(view') /\ FlagsHold(view', TipCoins)
        BY <1>0, <1>5, <3>1 DEF WellFormed, FlagsHold, Cache
      <3>3. ViewCoins' = [ViewCoins EXCEPT ![t] = value]
        BY Zenon, <1>0, <1>3, <3>1 DEF ViewCoins, Contents, Cache
      <3>4. ReadThrough'
        BY <1>2, <1>4, <1>5, <3>1 DEF Inv, ReadThrough
      <3> QED
        BY <3>1, <3>2, <3>3, <3>4
    <2> QED
      BY <2>1, <2>2
  <1>7. Inv'
    BY <1>1, <1>2, <1>3, <1>6 DEF Inv, TypeOK, FlagsTruthful, ClosedEmpty, BestRead
  <1>8. MapsStep
    <2>1. ViewBest' = ViewBest
      BY <1>3, <1>6 DEF ViewBest
    <2>2. [coins |-> ViewCoins, best |-> ViewBest]'
              = [[coins |-> ViewCoins, best |-> ViewBest] EXCEPT !.coins[t] = value]
      BY <1>6, <2>1
    <2>3. Maps!Modify(t)
      BY <1>1, <1>3, <2>2 DEF Maps!Modify
    <2> QED
      BY <2>3 DEF MapsStep, Maps!Next
  <1> QED
    BY <1>7, <1>8

LEMMA SetBestStep ==
    ASSUME Inv, NEW b \in Blocks, SetBestBlock(b)
    PROVE  Inv' /\ MapsStep
  <1>1. disk' = disk /\ tip' = tip /\ open /\ open' = open /\ view' = [view EXCEPT !.best = b]
    BY DEF SetBestBlock
  <1>2. /\ view' \in Cache /\ view'.keys = view.keys /\ view'.coins = view.coins
        /\ view'.dirty = view.dirty /\ view'.fresh = view.fresh /\ view'.best = b
        /\ b # NullHash
    BY <1>1, CoinsAssumption DEF Inv, TypeOK, WellFormed, Cache
  <1>3. /\ TipCoins' = TipCoins /\ TipBest' = TipBest
        /\ ViewCoins' = ViewCoins /\ ViewBest' = b
    BY <1>1, <1>2 DEF TipCoins, TipBest, ViewCoins, ViewBest, Contents
  <1>4. TypeOK' /\ ReadThrough' /\ ClosedEmpty' /\ BestRead'
    BY <1>1, <1>2 DEF Inv, TypeOK, WellFormed, ReadThrough, ClosedEmpty, BestRead
  <1>5. FlagsTruthful'
    BY <1>1, <1>2, <1>3 DEF Inv, FlagsTruthful, FlagsHold
  <1>6. Maps!SetBestBlock(b)
    BY <1>1, <1>3 DEF Maps!SetBestBlock
  <1> QED
    BY <1>4, <1>5, <1>6 DEF Inv, MapsStep, Maps!Next

\* The assert of BatchWrite: what is inserted is FRESH, so the database does not have it.
LEMMA InsertedFresh ==
    ASSUME Inv
    PROVE  /\ FlushAssert
           /\ \A t \in Inserted(tip, view) : t \in Txids /\ disk.coins[t] = Pruned
  <1>1. \A t \in Inserted(tip, view) : t \in view.dirty /\ t \notin tip.keys
    BY DEF Inserted
  <1>2. view.dirty \subseteq view.keys /\ view.keys \subseteq Txids
    BY DEF Inv, TypeOK, WellFormed, Cache
  <1>3. \A t \in Inserted(tip, view) : t \in view.fresh
    BY <1>1, <1>2 DEF Inv, ReadThrough
  <1>4. ASSUME NEW t \in Inserted(tip, view) PROVE disk.coins[t] = Pruned
    <2>1. TipCoins[t] = Pruned
      BY <1>3 DEF Inv, FlagsTruthful, FlagsHold
    <2> QED
      BY <1>1, <1>2, <2>1 DEF TipCoins, Contents
  <1> QED
    BY <1>1, <1>2, <1>3, <1>4 DEF FlushAssert

\* Flushing the view gives pcoinsTip exactly the answers of the view.
LEMMA FlushStep ==
    ASSUME Inv, Flush
    PROVE  Inv' /\ MapsStep
  <1> DEFINE ins == Inserted(tip, view)
             old == Erased(tip, view)
             rep == Replaced(tip, view)
  <1>0. /\ disk' = disk /\ open /\ open' = FALSE
        /\ tip' = BatchWrite(tip, view) /\ view' = EmptyCache(NullHash)
    BY DEF Flush
  <1>1. /\ tip \in Cache /\ view \in Cache /\ disk.coins \in [Txids -> Coins]
        /\ TipCoins \in [Txids -> Coins]
        /\ tip.dirty \subseteq tip.keys /\ tip.fresh \subseteq tip.keys
        /\ view.dirty \subseteq view.keys /\ view.fresh \subseteq view.keys
    BY TypesOfMaps DEF Inv, TypeOK, WellFormed
  <1>2. \A t \in Txids :
          /\ t \in ins <=> t \in view.dirty /\ t \notin tip.keys /\ view.coins[t] # Pruned
          /\ t \in old <=> t \in view.dirty /\ t \in tip.fresh /\ view.coins[t] = Pruned
          /\ t \in rep <=> t \in view.dirty /\ t \in tip.keys /\ t \notin old
    BY DEF Inserted, Erased, Replaced
  <1>3. ins \subseteq Txids /\ old \subseteq tip.fresh /\ rep \subseteq Txids /\ rep \subseteq tip.keys
    BY <1>1 DEF Inserted, Erased, Replaced, Cache
  <1>4. /\ tip'.keys = (tip.keys \ old) \cup (ins \cup rep)
        /\ tip'.coins = [t \in Txids |-> IF t \in ins \cup rep THEN view.coins[t]
                                        ELSE IF t \in old THEN Pruned ELSE tip.coins[t]]
        /\ tip'.dirty = (tip.dirty \ old) \cup (ins \cup rep)
        /\ tip'.fresh = (tip.fresh \ old) \cup ins
        /\ tip'.best = view.best
    BY <1>0 DEF BatchWrite
  <1>5. tip' \in Cache
    <2>1. tip'.coins \in [Txids -> Coins]
      BY <1>1, <1>4, CoinsAssumption DEF Cache
    <2>2. /\ tip'.keys \in SUBSET Txids /\ tip'.dirty \in SUBSET Txids
          /\ tip'.fresh \in SUBSET Txids /\ tip'.best \in Blocks \cup {NullHash}
      BY <1>1, <1>3, <1>4 DEF Cache
    <2> QED
      BY <1>0, <2>1, <2>2 DEF BatchWrite, Cache
  <1>6. tip'.dirty \subseteq tip'.keys /\ tip'.fresh \subseteq tip'.keys
    BY <1>1, <1>3, <1>4
  <1>7. FlagsHold(tip', disk.coins)
    <2>1. \A t \in tip'.fresh : disk.coins[t] = Pruned
      BY <1>4, InsertedFresh DEF Inv, FlagsTruthful, FlagsHold
    <2>2. ASSUME NEW t \in tip'.keys \ tip'.dirty PROVE tip'.coins[t] = disk.coins[t]
      <3>1. t \in tip.keys \ tip.dirty /\ t \notin ins \cup rep /\ t \notin old /\ t \in Txids
        BY <1>1, <1>3, <1>4, <1>5 DEF Cache
      <3> QED
        BY <3>1, <1>4 DEF Inv, FlagsTruthful, FlagsHold
    <2> QED
      BY <2>1, <2>2 DEF FlagsHold
  <1>8. TipCoins' = ViewCoins
    <2>1. ASSUME NEW t \in Txids PROVE TipCoins'[t] = ViewCoins[t]
      <3>0. /\ TipCoins'[t] = IF t \in tip'.keys THEN tip'.coins[t] ELSE disk.coins[t]
            /\ TipCoins[t] = IF t \in tip.keys THEN tip.coins[t] ELSE disk.coins[t]
            /\ ViewCoins[t] = IF t \in view.keys THEN view.coins[t] ELSE TipCoins[t]
        BY <1>0 DEF TipCoins, ViewCoins, Contents
      <3>1. CASE t \notin view.dirty
        <4>1. t \notin ins \cup rep /\ t \notin old
          BY <3>1, <1>2
        <4>2. TipCoins'[t] = TipCoins[t]
          BY <4>1, <3>0, <1>4
        <4>3. t \in view.keys => view.coins[t] = TipCoins[t]
          BY <3>1 DEF Inv, FlagsTruthful, FlagsHold
        <4> QED
          BY Zenon, <4>2, <4>3, <3>0
      <3>2. CASE t \in view.dirty
        <4>1. ViewCoins[t] = view.coins[t]
          BY <1>1, <3>0, <3>2
        <4>2. CASE t \in ins \cup rep
          BY Zenon, <4>1, <4>2, <3>0, <1>4
        <4>3. CASE t \notin ins \cup rep
          <5>1. view.coins[t] = Pruned /\ (t \in old \/ t \notin tip.keys)
            BY <3>2, <4>3, <1>2
          <5>2. t \notin tip'.keys
            BY <5>1, <4>3, <1>4
          <5>3. CASE t \in old
            <6>1. disk.coins[t] = Pruned
              BY <5>3, <1>3 DEF Inv, FlagsTruthful, FlagsHold
            <6> QED
              BY <4>1, <5>1, <5>2, <6>1, <3>0
          <5>4. CASE t \notin tip.keys
            <6>1. t \in view.fresh
              BY <5>4, <3>2, <1>1 DEF Inv, ReadThrough
            <6>2. TipCoins[t] = Pruned
              BY <6>1 DEF Inv, FlagsTruthful, FlagsHold
            <6> QED
              BY <4>1, <5>1, <5>2, <5>4, <6>2, <3>0
          <5> QED
            BY <5>1, <5>3, <5>4
        <4> QED
          BY <4>2, <4>3
      <3> QED
        BY <3>1, <3>2
    <2>2. /\ TipCoins' = [t \in Txids |-> TipCoins'[t]]
          /\ ViewCoins = [t \in Txids |-> ViewCoins[t]]
      BY DEF TipCoins, ViewCoins, Contents
    <2> QED
      BY <2>1, <2>2
  <1>9. TipBest' = ViewBest
    BY <1>0, <1>4 DEF Inv, BestRead, TipBest, ViewBest
  <1>a. ViewCoins' = ViewCoins /\ ViewBest' = ViewBest
    BY <1>0, <1>8, <1>9 DEF ViewCoins, ViewBest, Contents, EmptyCache
  <1>b. Inv'
    <2>1. /\ view' \in Cache /\ view'.keys = {} /\ view'.dirty = {} /\ view'.fresh = {}
      BY <1>0, CoinsAssumption DEF EmptyCache, Cache
    <2>2. TypeOK'
      BY Zenon, <1>0, <1>5, <1>6, <2>1 DEF Inv, TypeOK, WellFormed
    <2>3. FlagsTruthful'
      BY <1>0, <1>7, <2>1 DEF FlagsTruthful, FlagsHold
    <2> QED
      BY <1>0, <2>1, <2>2, <2>3 DEF Inv, ReadThrough, ClosedEmpty, BestRead
  <1>c. Maps!Flush
    BY <1>0, <1>8, <1>9, <1>a DEF Maps!Flush
  <1> QED
    BY <1>b, <1>c DEF MapsStep, Maps!Next

\* An empty cache is well formed, has truthful flags and answers what its base answers.
LEMMA EmptyView ==
    ASSUME TypeOK, FlagsHold(tip, disk.coins), view = EmptyCache(NullHash), ~open
    PROVE  Inv /\ ViewCoins = TipCoins /\ ViewBest = TipBest
  <1>1. view.keys = {} /\ view.dirty = {} /\ view.fresh = {} /\ view.best = NullHash
    BY DEF EmptyCache
  <1>2. FlagsTruthful /\ ReadThrough /\ ClosedEmpty /\ BestRead
    BY <1>1 DEF FlagsTruthful, FlagsHold, ReadThrough, ClosedEmpty, BestRead
  <1>3. ViewCoins = TipCoins
    BY <1>1 DEF ViewCoins, TipCoins, Contents
  <1> QED
    BY <1>1, <1>2, <1>3 DEF Inv, ViewBest

\* The same of the state after a step.
LEMMA EmptyViewNext ==
    ASSUME TypeOK', FlagsHold(tip', disk'.coins), view' = EmptyCache(NullHash), ~open'
    PROVE  Inv' /\ ViewCoins' = TipCoins' /\ ViewBest' = TipBest'
  <1>1. view'.keys = {} /\ view'.dirty = {} /\ view'.fresh = {} /\ view'.best = NullHash
    BY DEF EmptyCache
  <1>2. FlagsTruthful' /\ ReadThrough' /\ ClosedEmpty' /\ BestRead'
    BY <1>1 DEF FlagsTruthful, FlagsHold, ReadThrough, ClosedEmpty, BestRead
  <1>3. ViewCoins' = TipCoins'
    BY <1>1 DEF ViewCoins, TipCoins, Contents
  <1> QED
    BY <1>1, <1>2, <1>3 DEF Inv, ViewBest

LEMMA ForgetStep ==
    ASSUME Inv, Forget
    PROVE  Inv' /\ MapsStep
  <1>1. disk' = disk /\ tip' = tip /\ open /\ open' = FALSE /\ view' = EmptyCache(NullHash)
    BY DEF Forget
  <1>2. WellFormed(view')
    BY <1>1, CoinsAssumption DEF EmptyCache, WellFormed, Cache
  <1>3. TypeOK' /\ FlagsHold(tip', disk'.coins)
    BY Zenon, <1>1, <1>2 DEF Inv, TypeOK, FlagsTruthful
  <1>4. Inv' /\ ViewCoins' = TipCoins' /\ ViewBest' = TipBest'
    BY <1>1, <1>3, EmptyViewNext
  <1>5. TipCoins' = TipCoins /\ TipBest' = TipBest
    BY <1>1 DEF TipCoins, TipBest
  <1>6. Maps!Forget
    BY <1>1, <1>4, <1>5 DEF Maps!Forget
  <1> QED
    BY <1>4, <1>6 DEF MapsStep, Maps!Next

\* Flushing pcoinsTip makes the database answer what pcoinsTip answered.
LEMMA FlushTipStep ==
    ASSUME Inv, FlushTip
    PROVE  Inv' /\ MapsStep
  <1>1. /\ ~open /\ open' = open /\ view' = view
        /\ disk' = DbBatchWrite(tip) /\ tip' = EmptyCache(tip.best)
    BY DEF FlushTip
  <1>2. tip \in Cache /\ disk.coins \in [Txids -> Coins] /\ disk.best \in Blocks \cup {NullHash}
    BY DEF Inv, TypeOK, WellFormed
  <1>3. /\ disk' = [coins |-> disk'.coins, best |-> disk'.best]
        /\ disk'.coins = [t \in Txids |-> IF t \in tip.dirty THEN tip.coins[t] ELSE disk.coins[t]]
        /\ disk'.best = TipBest
    BY <1>1 DEF DbBatchWrite, TipBest
  <1>4. disk'.coins = TipCoins
    <2>1. tip.dirty \subseteq tip.keys /\ \A t \in tip.keys \ tip.dirty : tip.coins[t] = disk.coins[t]
      BY DEF Inv, TypeOK, WellFormed, FlagsTruthful, FlagsHold
    <2>2. \A t \in Txids : (IF t \in tip.dirty THEN tip.coins[t] ELSE disk.coins[t])
                                = IF t \in tip.keys THEN tip.coins[t] ELSE disk.coins[t]
      BY <2>1
    <2> QED
      BY <1>3, <2>2 DEF TipCoins, Contents
  <1>5. /\ tip' \in Cache /\ tip'.keys = {} /\ tip'.dirty = {} /\ tip'.fresh = {}
        /\ tip'.best = tip.best
    BY <1>1, <1>2, CoinsAssumption DEF EmptyCache, Cache
  <1>6. TipCoins' = disk'.coins /\ TipBest' = disk'.best
    <2>1. TipCoins' = disk'.coins
      BY <1>3, <1>5 DEF TipCoins, Contents
    <2>2. TipBest' = disk'.best
      BY <1>3, <1>5 DEF TipBest
    <2> QED
      BY <2>1, <2>2
  <1>7. TypeOK'
    BY <1>1, <1>2, <1>3, <1>4, <1>5, TypesOfMaps DEF Inv, TypeOK, WellFormed
  <1>8. FlagsHold(tip', disk'.coins)
    BY <1>5 DEF FlagsHold
  <1>9. view = EmptyCache(NullHash) /\ view' = EmptyCache(NullHash) /\ ~open'
    BY <1>1 DEF Inv, ClosedEmpty
  <1>a. Inv' /\ ViewCoins' = TipCoins' /\ ViewBest' = TipBest'
    BY <1>7, <1>8, <1>9, EmptyViewNext
  <1>b. ViewCoins = TipCoins /\ ViewBest = TipBest
    BY <1>1, <1>9, EmptyView DEF Inv, FlagsTruthful
  <1>c. Maps!FlushTip
    BY <1>1, <1>3, <1>4, <1>6, <1>a, <1>b DEF Maps!FlushTip
  <1> QED
    BY <1>a, <1>c DEF MapsStep, Maps!Next

LEMMA CrashStep ==
    ASSUME Inv, Crash
    PROVE  Inv' /\ MapsStep
  <1>1. disk' = disk /\ ~open' /\ open' = FALSE /\ tip' = EmptyCache(NullHash) /\ view' = EmptyCache(NullHash)
    BY DEF Crash
  <1>2. /\ tip' \in Cache /\ tip'.keys = {} /\ tip'.dirty = {} /\ tip'.fresh = {}
        /\ tip'.best = NullHash
    BY <1>1, CoinsAssumption DEF EmptyCache, Cache
  <1>3. TypeOK' /\ FlagsHold(tip', disk'.coins)
    BY Zenon, <1>1, <1>2 DEF Inv, TypeOK, WellFormed, FlagsHold
  <1>4. Inv' /\ ViewCoins' = TipCoins' /\ ViewBest' = TipBest'
    BY <1>1, <1>3, EmptyViewNext
  <1>5. TipBest' = disk.best
    BY <1>1, <1>2 DEF TipBest
  <1>6. TipCoins' = disk.coins
    <2>1. disk.coins = [t \in Txids |-> disk.coins[t]]
      BY DEF Inv, TypeOK
    <2> QED
      BY <1>1, <1>2, <2>1 DEF TipCoins, Contents
  <1>7. disk = [coins |-> disk.coins, best |-> disk.best]
    BY DEF Inv, TypeOK
  <1>8. Maps!Crash
    BY <1>1, <1>4, <1>5, <1>6, <1>7 DEF Maps!Crash
  <1> QED
    BY <1>4, <1>8 DEF MapsStep, Maps!Next

-------------------------------------------------------------------------------
(* The theorems *)

LEMMA InitFacts ==
    ASSUME Init
    PROVE  Inv /\ Maps!Init
  <1>1. /\ disk = [coins |-> [t \in Txids |-> Pruned], best |-> NullHash] /\ ~open /\ open = FALSE
        /\ tip = EmptyCache(NullHash) /\ view = EmptyCache(NullHash)
    BY DEF Init
  <1>2. /\ tip \in Cache /\ tip.keys = {} /\ tip.dirty = {} /\ tip.fresh = {} /\ tip.best = NullHash
    BY <1>1, CoinsAssumption DEF EmptyCache, Cache
  <1>3. TypeOK /\ FlagsHold(tip, disk.coins)
    BY Zenon, <1>1, <1>2, CoinsAssumption DEF TypeOK, WellFormed, FlagsHold
  <1>4. Inv /\ ViewCoins = TipCoins /\ ViewBest = TipBest
    BY <1>1, <1>3, EmptyView
  <1>5. TipCoins = [t \in Txids |-> Pruned] /\ TipBest = NullHash
    BY <1>1, <1>2 DEF TipCoins, TipBest, Contents
  <1>6. Maps!Init
    BY <1>1, <1>4, <1>5 DEF Maps!Init, Maps!EmptyMap
  <1> QED
    BY <1>4, <1>6

LEMMA StepFacts ==
    ASSUME Inv, [Next]_vars
    PROVE  Inv' /\ MapsStep
  <1>1. CASE UNCHANGED vars
    BY <1>1 DEF vars, Inv, TypeOK, FlagsTruthful, ReadThrough, ClosedEmpty, BestRead,
       MapsStep, Maps!vars, TipCoins, ViewCoins, TipBest, ViewBest
  <1>2. CASE Next
    BY <1>2, ReadTipStep, OpenStep, ReadStep, ModifyStep, SetBestStep, FlushStep, ForgetStep,
       FlushTipStep, CrashStep DEF Next
  <1> QED
    BY <1>1, <1>2

\* What CCoinsCacheEntry says of DIRTY and FRESH is true of every entry of both caches
\* in every state, whatever is read, modified, flushed or lost.
THEOREM FlagsAlwaysTruthful == Spec => []FlagsTruthful
  <1>1. Init => Inv
    BY InitFacts
  <1>2. Inv /\ [Next]_vars => Inv'
    BY StepFacts
  <1>3. Inv => FlagsTruthful
    BY DEF Inv
  <1> QED
    BY <1>1, <1>2, <1>3, PTL DEF Spec

\* The assert in CCoinsViewCache::BatchWrite never fails.
THEOREM FlushAssertHolds == Spec => []FlushAssert
  <1>1. Init => Inv
    BY InitFacts
  <1>2. Inv /\ [Next]_vars => Inv'
    BY StepFacts
  <1>3. Inv => FlushAssert
    BY InsertedFresh
  <1> QED
    BY <1>1, <1>2, <1>3, PTL DEF Spec

\* The stack of caches implements three plain maps: caching is invisible to the code
\* that connects, disconnects, flushes and crashes.
THEOREM CachesImplementMaps == Spec => ImplementsMaps
  <1>1. Init => Inv /\ Maps!Init
    BY InitFacts
  <1>2. Inv /\ [Next]_vars => Inv' /\ [Maps!Next]_Maps!vars
    BY StepFacts DEF MapsStep
  <1> QED
    BY <1>1, <1>2, PTL DEF Spec, ImplementsMaps, Maps!Spec
===============================================================================
