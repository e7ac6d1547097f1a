----------------------------- MODULE TxRelayProofs -----------------------------
(***************************************************************************)
(* The indexes of the memory pool and of the orphans stay exact, and the      *)
(* handler of "tx" misses no orphan, for every set of transactions and blocks, *)
(* every chain of reorganisations, restarts, peers that come and go, and every *)
(* -maxorphantx.  The pool conflicts with nothing of the chain and a block     *)
(* that connects drives out only what is dead; and if the node accepts the     *)
(* transactions of blocks as loose ones, a disconnected block loses none of    *)
(* them and every transaction of the pool can be mined.                       *)
(*                                                                         *)
(* The argument: the pool learns of the chain one transaction at a time.       *)
(* Settled is what it has learned, and at each of these steps the pool spends  *)
(* nothing that Settled spends (ChainInv), and spends only from itself and     *)
(* from Settled (GroundInv).                                                  *)
(***************************************************************************)
EXTENDS TxRelay, FiniteSetTheorems, WellFoundedInduction, TLAPS

\* The leaves below are for Zenon, and those that say so for SMT.
USE Zenon

--------------------------------------------------------------------------------
(* CTxMemPool *)

\* IndexExact of any value p of the pool, which is finite.
PoolOK(p) ==
    /\ IsFiniteSet(p.tx)
    /\ DOMAIN p.next = UNION {InsOf(t) : t \in p.tx}
    /\ \A t \in p.tx : \A o \in InsOf(t) : p.next[o] = t
    /\ p.total = Cardinality(p.tx)

\* The pool of a node that starts.
LEMMA EmptyOK == PoolOK(EmptyPool)
  BY FS_EmptySet DEF PoolOK, EmptyPool

\* A transaction that spends what no other of the pool spends can be added.
LEMMA AddUncheckedOK ==
    ASSUME NEW p, PoolOK(p), NEW t, t \notin p.tx, InsOf(t) \cap DOMAIN p.next = {}
    PROVE  PoolOK(addUnchecked(p, t))
  <1> DEFINE q == addUnchecked(p, t)
  <1>1. q.tx = p.tx \cup {t} /\ q.total = p.total + 1
    BY DEF addUnchecked
  <1>2. q.next = [o \in DOMAIN p.next \cup InsOf(t) |-> IF o \in InsOf(t) THEN t ELSE p.next[o]]
    BY DEF addUnchecked
  <1> HIDE DEF q
  <1>3. IsFiniteSet(q.tx) /\ q.total = Cardinality(q.tx)
    <2>1. IsFiniteSet(p.tx) /\ p.total = Cardinality(p.tx)
      BY DEF PoolOK
    <2>2. IsFiniteSet(p.tx \cup {t}) /\ Cardinality(p.tx \cup {t}) = Cardinality(p.tx) + 1
      BY <2>1, FS_AddElement
    <2>3. QED  BY <1>1, <2>1, <2>2
  <1>4. DOMAIN q.next = UNION {InsOf(u) : u \in q.tx}
    <2>1. DOMAIN q.next = (UNION {InsOf(u) : u \in p.tx}) \cup InsOf(t)
      BY <1>2 DEF PoolOK
    <2>2. QED  BY <1>1, <2>1
  <1>5. ASSUME NEW u \in q.tx, NEW o \in InsOf(u) PROVE q.next[o] = u
    <2>1. CASE u = t
      BY <1>2, <1>5, <2>1
    <2>2. CASE u # t
      <3>1. u \in p.tx
        BY <1>1, <1>5, <2>2
      <3>2. o \in DOMAIN p.next /\ p.next[o] = u
        BY <1>5, <3>1 DEF PoolOK
      <3>3. QED  BY <1>2, <3>2
    <2>3. QED  BY <2>1, <2>2
  <1>6. QED  BY <1>3, <1>4, <1>5 DEF PoolOK, q

\* Whatever set of its transactions leaves it, the pool stays exact.
LEMMA WithoutOK ==
    ASSUME NEW p, PoolOK(p), NEW D, D \subseteq p.tx
    PROVE  PoolOK(Without(p, D)) /\ Without(p, D).tx \subseteq p.tx
  <1> DEFINE q == Without(p, D)
  <1>1. q.tx = p.tx \ D /\ q.total = p.total - Cardinality(D)
    BY DEF Without
  <1>2. q.next = [o \in DOMAIN p.next \ UNION {InsOf(t) : t \in D} |-> p.next[o]]
    BY DEF Without
  <1> HIDE DEF q
  <1>3. IsFiniteSet(q.tx) /\ q.total = Cardinality(q.tx)
    <2>1. IsFiniteSet(p.tx) /\ IsFiniteSet(D) /\ p.tx \cap D = D
      BY FS_Subset DEF PoolOK
    <2>2. IsFiniteSet(p.tx \ D)
          /\ Cardinality(p.tx \ D) = Cardinality(p.tx) - Cardinality(p.tx \cap D)
      BY <2>1, FS_Difference
    <2>3. QED  BY <1>1, <2>1, <2>2 DEF PoolOK
  <1>4. ASSUME NEW u \in q.tx, NEW o \in InsOf(u) PROVE o \in DOMAIN q.next /\ q.next[o] = u
    <2>1. u \in p.tx /\ u \notin D /\ o \in DOMAIN p.next /\ p.next[o] = u
      BY <1>1, <1>4 DEF PoolOK
    <2>2. ASSUME NEW t \in D, o \in InsOf(t) PROVE FALSE
      <3>1. t \in p.tx /\ p.next[o] = t
        BY <2>2 DEF PoolOK
      <3>2. QED  BY <2>1, <3>1
    <2>3. QED  BY SMT, <1>2, <2>1, <2>2
  <1>5. ASSUME NEW o \in DOMAIN q.next PROVE \E u \in q.tx : o \in InsOf(u)
    BY SMT, <1>1, <1>2, <1>5 DEF PoolOK
  <1>6. DOMAIN q.next = UNION {InsOf(u) : u \in q.tx}
    BY SMT, <1>4, <1>5
  <1>7. QED  BY <1>1, <1>3, <1>4, <1>6 DEF PoolOK, q

\* remove with fRecursive.
LEMMA RemoveRecursiveOK ==
    ASSUME NEW p, PoolOK(p), NEW S
    PROVE  PoolOK(removeRecursive(p, S))
  <1>1. Descendants(p, S) \subseteq p.tx
    BY DEF Descendants
  <1>2. QED  BY <1>1, WithoutOK DEF removeRecursive

\* A turn of removeForBlock.
LEMMA ConfirmedOK ==
    ASSUME NEW p, PoolOK(p), NEW t
    PROVE  PoolOK(Confirmed(p, t))
  <1>1. PoolOK(remove(p, t))
    BY WithoutOK DEF remove
  <1>2. QED  BY <1>1, RemoveRecursiveOK DEF Confirmed, removeConflicts

\* What AcceptToMemoryPool lets in keeps the pool exact.
LEMMA AcceptedOK ==
    ASSUME PoolOK(pool), NEW t, Accepts(t)
    PROVE  PoolOK(addUnchecked(pool, t))
  BY AddUncheckedOK DEF Accepts, Offered

\* Each step of the chain and of the wallet.
LEMMA PoolStepOK ==
    ASSUME PoolOK(pool), PoolStep
    PROVE  PoolOK(pool)'
  <1>1. CASE \E t \in Txids : AcceptToMemoryPool(t)
    BY <1>1, AcceptedOK DEF AcceptToMemoryPool
  <1>2. CASE \E b \in Blocks : ConnectTip(b)
    BY <1>2 DEF ConnectTip
  <1>3. CASE removeForBlock
    BY <1>3, ConfirmedOK DEF removeForBlock
  <1>4. CASE DisconnectTip
    BY <1>4 DEF DisconnectTip
  <1>5. CASE Resurrect
    BY <1>5, AcceptedOK, RemoveRecursiveOK DEF Resurrect
  <1>6. CASE FinishDisconnect
    BY <1>6, RemoveRecursiveOK DEF FinishDisconnect, removeCoinbaseSpends
  <1>7. CASE FlushStateToDisk
    BY <1>7 DEF FlushStateToDisk
  <1>8. QED  BY <1>1, <1>2, <1>3, <1>4, <1>5, <1>6, <1>7 DEF PoolStep
--------------------------------------------------------------------------------
(* The orphan maps *)

\* The first two parts of OrphanIndexExact for any value m of the two maps.
MapsOK(m) ==
    /\ IsFiniteSet(DOMAIN m.map)
    /\ DOMAIN m.prev = UNION {Prevs(t) : t \in DOMAIN m.map}
    /\ \A h \in DOMAIN m.prev : m.prev[h] = {t \in DOMAIN m.map : h \in Prevs(t)}

Maps == [map |-> orphans, prev |-> byPrev]

\* EraseOrphanTx: one clause for the parent of each orphan that goes, also when it has
\* several parents or shares them with orphans that stay.
LEMMA EraseOK ==
    ASSUME NEW m, MapsOK(m), NEW S
    PROVE  /\ MapsOK(EraseOrphanTx(m, S))
           /\ DOMAIN EraseOrphanTx(m, S).map = DOMAIN m.map \ S
           /\ \A t \in DOMAIN m.map \ S : EraseOrphanTx(m, S).map[t] = m.map[t]
  <1> DEFINE r == EraseOrphanTx(m, S)
             Left(h) == m.prev[h] \ (S \cap DOMAIN m.map)
  <1>1. r.map = Restrict(m.map, DOMAIN m.map \ S)
    BY DEF EraseOrphanTx
  <1>2. r.prev = [h \in {q \in DOMAIN m.prev : Left(q) # {}} |-> Left(h)]
    BY DEF EraseOrphanTx
  <1>3. \A h \in DOMAIN m.prev : Left(h) = {t \in DOMAIN m.map \ S : h \in Prevs(t)}
    BY DEF MapsOK
  <1> HIDE DEF r, Left
  <1>4. DOMAIN r.map = DOMAIN m.map \ S /\ \A t \in DOMAIN m.map \ S : r.map[t] = m.map[t]
    BY <1>1 DEF Restrict
  <1>5. IsFiniteSet(DOMAIN r.map)
    BY <1>4, FS_Subset DEF MapsOK
  <1>6. ASSUME NEW h \in DOMAIN r.prev PROVE r.prev[h] = {t \in DOMAIN r.map : h \in Prevs(t)}
    BY <1>2, <1>3, <1>4, <1>6
  <1>7. ASSUME NEW h \in DOMAIN r.prev PROVE \E t \in DOMAIN r.map : h \in Prevs(t)
    BY <1>2, <1>3, <1>4, <1>7
  <1>8. ASSUME NEW t \in DOMAIN r.map, NEW h \in Prevs(t) PROVE h \in DOMAIN r.prev
    <2>1. h \in DOMAIN m.prev
      BY <1>4, <1>8 DEF MapsOK
    <2>2. t \in Left(h)
      BY <1>3, <1>4, <1>8, <2>1
    <2>3. QED  BY <1>2, <2>1, <2>2
  <1>9. DOMAIN r.prev = UNION {Prevs(t) : t \in DOMAIN r.map}
    BY <1>7, <1>8
  <1>10. QED  BY <1>4, <1>5, <1>6, <1>9 DEF MapsOK, r

\* What the handler finds under a parent.
LEMMA DependentsFacts ==
    ASSUME MapsOK(Maps), NEW h
    PROVE  Dependents(h) = {t \in DOMAIN orphans : h \in Prevs(t)}
  <1>1. /\ DOMAIN byPrev = UNION {Prevs(t) : t \in DOMAIN orphans}
        /\ \A q \in DOMAIN byPrev : byPrev[q] = {t \in DOMAIN orphans : q \in Prevs(t)}
    BY DEF MapsOK, Maps
  <1>2. CASE h \in DOMAIN byPrev
    BY <1>1, <1>2 DEF Dependents
  <1>3. CASE h \notin DOMAIN byPrev
    <2>1. \A t \in DOMAIN orphans : h \notin Prevs(t)
      BY <1>1, <1>3
    <2>2. QED  BY <1>3, <2>1 DEF Dependents
  <1>4. QED  BY <1>2, <1>3

\* AddOrphanTx lists the new orphan under each of its parents.
LEMMA AddOK ==
    ASSUME MapsOK(Maps), NEW t, NEW p
    PROVE  /\ MapsOK(AddOrphanTx(t, p))
           /\ DOMAIN AddOrphanTx(t, p).map = DOMAIN orphans \cup {t}
           /\ \A u \in DOMAIN orphans \cup {t} :
                 AddOrphanTx(t, p).map[u] = IF u = t THEN p ELSE orphans[u]
  <1> DEFINE r == AddOrphanTx(t, p)
  <1>1. r.map = [o \in DOMAIN orphans \cup {t} |-> IF o = t THEN p ELSE orphans[o]]
    BY DEF AddOrphanTx
  <1>2. r.prev = [h \in DOMAIN byPrev \cup Prevs(t) |->
                     Dependents(h) \cup (IF h \in Prevs(t) THEN {t} ELSE {})]
    BY DEF AddOrphanTx
  <1>3. /\ IsFiniteSet(DOMAIN orphans)
        /\ DOMAIN byPrev = UNION {Prevs(u) : u \in DOMAIN orphans}
        /\ \A h \in DOMAIN byPrev : byPrev[h] = {u \in DOMAIN orphans : h \in Prevs(u)}
    BY DEF MapsOK, Maps
  <1>4. \A h : Dependents(h) = {u \in DOMAIN orphans : h \in Prevs(u)}
    BY DependentsFacts
  <1> HIDE DEF r
  <1>5. DOMAIN r.map = DOMAIN orphans \cup {t}
    BY <1>1
  <1>6. IsFiniteSet(DOMAIN r.map)
    BY SMT, <1>3, <1>5, FS_AddElement
  <1>7. DOMAIN r.prev = UNION {Prevs(u) : u \in DOMAIN r.map}
    BY SMT, <1>2, <1>3, <1>5
  <1>8. ASSUME NEW h \in DOMAIN r.prev PROVE r.prev[h] = {u \in DOMAIN r.map : h \in Prevs(u)}
    BY SMT, <1>2, <1>4, <1>5, <1>8
  <1>9. QED  BY <1>1, <1>5, <1>6, <1>7, <1>8 DEF MapsOK, r
--------------------------------------------------------------------------------
(* The inductive invariant *)

Handlers ==
    [work : Seq(Txids), i : Nat, todo : SUBSET Txids, erase : SUBSET Txids, bad : SUBSET Peers]

\* Of the transactions the handler has turned to, every orphan that spends from one is
\* still to be tried or was tried, and the latter are erased in the end.
HandlerOK ==
    /\ relay \in Handlers
    /\ relay.i <= Len(relay.work)
    /\ relay.todo \subseteq DOMAIN orphans
    /\ \A k \in 1..relay.i : Dependents(relay.work[k]) \subseteq relay.todo \cup relay.erase

\* OrphansBounded, and the types it needs.
OrphansOK ==
    /\ MapsOK(Maps)
    /\ DOMAIN orphans \subseteq Txids
    /\ peers \subseteq Peers
    /\ Cardinality(DOMAIN orphans) <= MaxOrphans
    /\ \A t \in DOMAIN orphans : orphans[t] \in peers

IInv == PoolOK(pool) /\ OrphansOK /\ HandlerOK

\* The invariant is what the runs check, and more.
LEMMA InvImplies == IInv => IndexExact /\ OrphanIndexExact /\ OrphansBounded
  <1>1. IInv => IndexExact
    BY DEF IInv, PoolOK, IndexExact
  <1>2. IInv => OrphanIndexExact
    BY DEF IInv, OrphansOK, MapsOK, Maps, HandlerOK, OrphanIndexExact
  <1>3. IInv => OrphansBounded
    BY DEF IInv, OrphansOK, OrphansBounded
  <1>4. QED  BY <1>1, <1>2, <1>3

\* Between two messages.
LEMMA WaitingOK == ASSUME relay' = Waiting PROVE HandlerOK'
  <1>1. Waiting \in Handlers
    BY SMT DEF Waiting, Handlers
  <1>2. Waiting.i = 0 /\ Waiting.todo = {} /\ Len(Waiting.work) = 0
    BY DEF Waiting
  <1>3. 1..0 = {}
    BY SMT
  <1>4. QED  BY SMT, <1>1, <1>2, <1>3 DEF HandlerOK

\* The node starts with empty maps.
LEMMA InitInv == RelayInit => IInv
  <1> SUFFICES ASSUME RelayInit PROVE IInv
    OBVIOUS
  <1>1. PoolOK(pool)
    BY EmptyOK DEF RelayInit, PoolInit
  <1>2. DOMAIN orphans = {} /\ DOMAIN byPrev = {} /\ peers = {}
    BY DEF RelayInit
  <1>3. MapsOK(Maps)
    BY <1>2, FS_EmptySet DEF MapsOK, Maps
  <1>4. OrphansOK
    BY SMT, <1>2, <1>3, FS_EmptySet, OrphansAssumption DEF OrphansOK
  <1>5. HandlerOK
    <2>1. relay = [work |-> <<>>, i |-> 0, todo |-> {}, erase |-> {}, bad |-> {}]
      BY DEF RelayInit, Waiting
    <2>2. 1..0 = {}
      BY SMT
    <2>3. QED  BY SMT, <2>1, <2>2 DEF HandlerOK, Handlers
  <1>6. QED  BY <1>1, <1>4, <1>5 DEF IInv

\* Orphans leave: the bound and the peers of the others stay.
LEMMA ErasedOK ==
    ASSUME OrphansOK, NEW S, SetOrphans(EraseOrphanTx(Maps, S)), peers' \subseteq peers,
           \A t \in DOMAIN orphans \ S : orphans[t] \in peers'
    PROVE  OrphansOK' /\ DOMAIN orphans' = DOMAIN orphans \ S
  <1> DEFINE r == EraseOrphanTx(Maps, S)
  <1>1. Maps.map = orphans /\ MapsOK(Maps)
    BY DEF Maps, OrphansOK
  <1>2. /\ MapsOK(r)
        /\ DOMAIN r.map = DOMAIN orphans \ S
        /\ \A t \in DOMAIN orphans \ S : r.map[t] = orphans[t]
    BY SMT, <1>1, EraseOK
  <1>3. orphans' = r.map /\ byPrev' = r.prev
    BY DEF SetOrphans
  <1> HIDE DEF r
  <1>4. MapsOK(Maps)'
    BY <1>2, <1>3 DEF MapsOK, Maps
  <1>5. Cardinality(DOMAIN orphans') <= MaxOrphans
    <2>1. IsFiniteSet(DOMAIN orphans) /\ Cardinality(DOMAIN orphans) <= MaxOrphans
      BY <1>1 DEF MapsOK, OrphansOK
    <2>2. DOMAIN orphans' \subseteq DOMAIN orphans
      BY <1>2, <1>3
    <2>3. Cardinality(DOMAIN orphans') <= Cardinality(DOMAIN orphans)
          /\ Cardinality(DOMAIN orphans') \in Nat /\ Cardinality(DOMAIN orphans) \in Nat
      BY <2>1, <2>2, FS_Subset, FS_CardinalityType
    <2>4. QED  BY SMT, <2>1, <2>3, OrphansAssumption
  <1>6. QED  BY <1>2, <1>3, <1>4, <1>5 DEF OrphansOK

\* StoreOrphan: one orphan comes, and LimitOrphanTxSize brings the number back in bounds.
LEMMA StoredOK ==
    ASSUME OrphansOK, NEW p \in peers, NEW t \in Txids, StoreOrphan(p, t)
    PROVE  OrphansOK'
  <1> DEFINE m == AddOrphanTx(t, p)
  <1>1. PICK S \in LimitOrphanTxSize(m) : SetOrphans(EraseOrphanTx(m, S))
    BY DEF StoreOrphan
  <1>2. /\ MapsOK(m)
        /\ DOMAIN m.map = DOMAIN orphans \cup {t}
        /\ \A u \in DOMAIN orphans \cup {t} : m.map[u] = IF u = t THEN p ELSE orphans[u]
    BY AddOK DEF OrphansOK
  <1> HIDE DEF m
  <1> DEFINE r == EraseOrphanTx(m, S)
  <1>3. /\ MapsOK(r)
        /\ DOMAIN r.map = DOMAIN m.map \ S
        /\ \A u \in DOMAIN m.map \ S : r.map[u] = m.map[u]
    BY <1>2, EraseOK
  <1>4. orphans' = r.map /\ byPrev' = r.prev /\ peers' = peers
    BY <1>1 DEF SetOrphans, StoreOrphan
  <1> HIDE DEF r
  <1>5. MapsOK(Maps)'
    BY <1>3, <1>4 DEF MapsOK, Maps
  <1>6. Cardinality(DOMAIN orphans') <= MaxOrphans
    <2> DEFINE n == Cardinality(DOMAIN m.map)
    <2>1. IsFiniteSet(DOMAIN m.map) /\ n \in Nat
      BY <1>2, FS_CardinalityType DEF MapsOK
    <2>2. S \subseteq DOMAIN m.map
          /\ Cardinality(S) = IF n > MaxOrphans THEN n - MaxOrphans ELSE 0
      BY <1>1 DEF LimitOrphanTxSize
    <2>3. IsFiniteSet(S) /\ DOMAIN m.map \cap S = S
      BY <2>1, <2>2, FS_Subset
    <2>4. Cardinality(DOMAIN m.map \ S) = n - Cardinality(S)
      <3>1. Cardinality(DOMAIN m.map \ S) = n - Cardinality(DOMAIN m.map \cap S)
        BY <2>1, FS_Difference
      <3>2. QED  BY <2>3, <3>1
    <2> HIDE DEF n
    <2>5. n - Cardinality(S) <= MaxOrphans
      BY SMT, <2>1, <2>2, OrphansAssumption
    <2>6. QED  BY <1>3, <1>4, <2>4, <2>5
  <1>7. ASSUME NEW u \in DOMAIN orphans' PROVE u \in Txids /\ orphans'[u] \in peers'
    <2>1. u \in DOMAIN orphans \cup {t} /\ orphans'[u] = m.map[u]
      BY <1>2, <1>3, <1>4, <1>7
    <2>2. QED  BY <1>2, <1>4, <2>1 DEF OrphansOK
  <1>8. QED  BY <1>4, <1>5, <1>6, <1>7 DEF OrphansOK

\* A step that leaves the orphans and the peers alone.
LEMMA SameOrphans ==
    ASSUME UNCHANGED <<peers, orphans, byPrev>>
    PROVE  /\ OrphansOK => OrphansOK'
           /\ \A h : Dependents(h)' = Dependents(h)
           /\ (HandlerOK /\ relay' = relay) => HandlerOK'
  <1>1. OrphansOK => OrphansOK'
    BY DEF OrphansOK, MapsOK, Maps
  <1>2. \A h : Dependents(h)' = Dependents(h)
    BY DEF Dependents
  <1>3. (HandlerOK /\ relay' = relay) => HandlerOK'
    BY DEF HandlerOK, Dependents
  <1>4. QED  BY <1>1, <1>2, <1>3

--------------------------------------------------------------------------------
(* The handler *)

\* The transaction of the message is the first of vWorkQueue.
LEMMA AcceptTxOK ==
    ASSUME IInv, NEW p \in Peers, NEW t \in Txids, NEW full \in BOOLEAN, AcceptTx(p, t, full)
    PROVE  IInv'
  <1>1. PoolOK(pool)'
    BY AcceptedOK DEF IInv, AcceptTx, Admits
  <1>2. UNCHANGED <<peers, orphans, byPrev>>
    BY DEF AcceptTx
  <1>3. OrphansOK' /\ \A h : Dependents(h)' = Dependents(h)
    BY <1>2, SameOrphans DEF IInv
  <1>4. Dependents(t) \subseteq DOMAIN orphans /\ DOMAIN orphans \subseteq Txids
    BY DependentsFacts DEF IInv, OrphansOK
  <1>5. relay' = [work |-> <<t>>, i |-> 1, todo |-> Dependents(t), erase |-> {t}, bad |-> {}]
    BY DEF AcceptTx, Waiting
  <1>6. \A k \in 1..1 : k = 1
    BY SMT
  <1>7. HandlerOK'
    <2>1. <<t>> \in Seq(Txids) /\ Len(<<t>>) = 1 /\ <<t>>[1] = t
      BY SMT
    <2>2. relay' \in Handlers
      BY <1>4, <1>5, <2>1 DEF Handlers
    <2>3. relay'.i = 1 /\ relay'.work = <<t>> /\ relay'.todo = Dependents(t)
      BY <1>5
    <2>4. \A k \in 1..1 : Dependents(relay.work[k])' \subseteq relay'.todo \cup relay'.erase
      BY <1>2, <1>6, <2>1, <2>3 DEF Dependents
    <2>5. QED  BY SMT, <1>2, <1>4, <2>1, <2>2, <2>3, <2>4 DEF HandlerOK
  <1>8. QED  BY <1>1, <1>3, <1>7 DEF IInv

\* A turn of the inner loop: the orphan moves from those to be tried to those to be
\* erased, whatever AcceptToMemoryPool says of it.
LEMMA ProcessOrphanOK ==
    ASSUME IInv, NEW t \in Txids, NEW full \in BOOLEAN, ProcessOrphan(t, full)
    PROVE  IInv'
  <1> DEFINE tried == [relay EXCEPT !.todo = @ \ {t}, !.erase = @ \cup {t}]
             skip == orphans[t] \in relay.bad
  <1>1. t \in relay.todo /\ UNCHANGED <<peers, orphans, byPrev>>
    BY DEF ProcessOrphan
  <1>2. \/ /\ Admits(t, full)
           /\ pool' = addUnchecked(pool, t)
           /\ relay' = [tried EXCEPT !.work = Append(@, t)]
        \/ /\ pool' = pool
           /\ \/ relay' = [tried EXCEPT !.bad = @ \cup {orphans[t]}]
              \/ relay' = tried
    BY DEF ProcessOrphan
  <1>3. PoolOK(pool)'
    BY <1>2, AcceptedOK DEF IInv, Admits
  <1>4. OrphansOK'
    BY <1>1, SameOrphans DEF IInv
  <1>5. HandlerOK'
    <2>1. relay \in Handlers
      BY DEF IInv, HandlerOK
    <2>2. orphans[t] \in Peers
      BY <1>1 DEF IInv, HandlerOK, OrphansOK
    <2>3. relay' \in Handlers
      <3>1. PICK w \in {relay.work, Append(relay.work, t)}, b \in {relay.bad, relay.bad \cup {orphans[t]}} :
               relay' = [work |-> w, i |-> relay.i, todo |-> relay.todo \ {t},
                         erase |-> relay.erase \cup {t}, bad |-> b]
        BY <1>2, <2>1 DEF Handlers
      <3>2. relay.work \in Seq(Txids) /\ relay.i \in Nat /\ relay.todo \subseteq Txids
            /\ relay.erase \subseteq Txids /\ relay.bad \subseteq Peers
        BY <2>1 DEF Handlers
      <3>3. w \in Seq(Txids) /\ b \subseteq Peers
        BY SMT, <2>2, <3>2
      <3>4. QED  BY <3>1, <3>2, <3>3 DEF Handlers
    <2>4. /\ relay'.i = relay.i
          /\ relay'.todo = relay.todo \ {t}
          /\ relay'.erase = relay.erase \cup {t}
          /\ relay'.work = relay.work \/ relay'.work = Append(relay.work, t)
      BY <1>2, <2>1 DEF Handlers
    <2>5. relay.i <= Len(relay.work) /\ Len(relay.work) \in Nat /\ relay.i \in Nat
      BY SMT, <2>1 DEF IInv, HandlerOK, Handlers
    <2>6. relay'.i <= Len(relay'.work) /\ \A k \in 1..relay.i : relay'.work[k] = relay.work[k]
      BY SMT, <2>1, <2>4, <2>5 DEF Handlers
    <2>7. relay'.todo \subseteq DOMAIN orphans'
      BY <1>1, <2>4 DEF IInv, HandlerOK
    <2>8. ASSUME NEW k \in 1..relay'.i
          PROVE  Dependents(relay.work[k])' \subseteq relay'.todo \cup relay'.erase
      <3>1. k \in 1..relay.i /\ relay'.work[k] = relay.work[k]
        BY <2>4, <2>6
      <3>2. Dependents(relay.work[k]) \subseteq relay.todo \cup relay.erase
        BY <3>1 DEF IInv, HandlerOK
      <3>3. Dependents(relay.work[k])' = Dependents(relay.work[k])
        BY <1>1, <3>1 DEF Dependents
      <3>4. QED  BY <2>4, <3>2, <3>3
    <2>9. QED  BY <2>3, <2>6, <2>7, <2>8 DEF HandlerOK
  <1>6. QED  BY <1>3, <1>4, <1>5 DEF IInv

\* The handler turns to the next transaction it accepted.
LEMMA NextInQueueOK == ASSUME IInv, NextInQueue PROVE IInv'
  <1>1. relay.todo = {} /\ relay.i < Len(relay.work) /\ pool' = pool
        /\ UNCHANGED <<peers, orphans, byPrev>>
    BY DEF NextInQueue, poolVars
  <1> DEFINE next == relay.work[relay.i + 1]
  <1>2. relay' = [relay EXCEPT !.i = @ + 1, !.todo = Dependents(next)]
    BY DEF NextInQueue
  <1>3. relay \in Handlers
    BY DEF IInv, HandlerOK
  <1>4. Dependents(next) \subseteq DOMAIN orphans /\ DOMAIN orphans \subseteq Txids
    BY DependentsFacts DEF IInv, OrphansOK
  <1> HIDE DEF next
  <1>5. PoolOK(pool)' /\ OrphansOK'
    BY <1>1, SameOrphans DEF IInv
  <1>6. relay' \in Handlers
    <2>1. relay' = [work |-> relay.work, i |-> relay.i + 1, todo |-> Dependents(next),
                    erase |-> relay.erase, bad |-> relay.bad]
      BY <1>2, <1>3 DEF Handlers
    <2>2. relay.work \in Seq(Txids) /\ relay.i + 1 \in Nat
          /\ relay.erase \subseteq Txids /\ relay.bad \subseteq Peers
      BY SMT, <1>3 DEF Handlers
    <2>3. QED  BY <1>4, <2>1, <2>2 DEF Handlers
  <1>7. relay'.i = relay.i + 1 /\ relay'.todo = Dependents(next)
        /\ relay'.work = relay.work /\ relay'.erase = relay.erase
    BY <1>2, <1>3 DEF Handlers
  <1>8. relay'.i <= Len(relay'.work)
    BY SMT, <1>1, <1>3, <1>7 DEF Handlers
  <1>9. ASSUME NEW k \in 1..relay'.i
        PROVE  Dependents(relay.work[k])' \subseteq relay'.todo \cup relay'.erase
    <2>1. Dependents(relay.work[k])' = Dependents(relay.work[k])
      BY <1>1, <1>7 DEF Dependents
    <2>2. CASE k = relay.i + 1
      BY <1>7, <2>1, <2>2 DEF next
    <2>3. CASE k # relay.i + 1
      <3>1. k \in 1..relay.i
        BY SMT, <1>3, <1>7, <2>3 DEF Handlers
      <3>2. Dependents(relay.work[k]) \subseteq relay.todo \cup relay.erase
        BY <3>1 DEF IInv, HandlerOK
      <3>3. QED  BY <1>1, <1>7, <2>1, <3>2
    <2>4. QED  BY <2>2, <2>3
  <1>10. HandlerOK'
    BY <1>1, <1>4, <1>6, <1>7, <1>8, <1>9 DEF HandlerOK
  <1>11. QED  BY <1>5, <1>10 DEF IInv

\* The handler ends: what it tried is gone, and nothing is left that spends from what it
\* accepted.
LEMMA FinishTxOK ==
    ASSUME IInv, FinishTx
    PROVE  /\ IInv'
           /\ \A t \in DOMAIN orphans' : Prevs(t) \cap Range(relay.work) = {}
  <1>1. SetOrphans(EraseOrphanTx(Maps, relay.erase)) /\ relay' = Waiting
        /\ pool' = pool /\ peers' = peers
    BY DEF FinishTx, Maps, poolVars
  <1>2. relay.todo = {} /\ relay.i = Len(relay.work) /\ relay.work \in Seq(Txids)
    BY DEF FinishTx, IInv, HandlerOK, Handlers
  <1>3. OrphansOK' /\ DOMAIN orphans' = DOMAIN orphans \ relay.erase
    <2>1. \A t \in DOMAIN orphans : orphans[t] \in peers'
      BY <1>1 DEF IInv, OrphansOK
    <2>2. QED  BY <1>1, <2>1, ErasedOK DEF IInv
  <1>4. ASSUME NEW t \in DOMAIN orphans' PROVE Prevs(t) \cap Range(relay.work) = {}
    <2>1. SUFFICES ASSUME NEW k \in 1..Len(relay.work), relay.work[k] \in Prevs(t) PROVE FALSE
      BY SMT, <1>2 DEF Range
    <2>2. t \in Dependents(relay.work[k])
      BY <1>3, <1>4, <2>1, DependentsFacts DEF IInv, OrphansOK
    <2>3. Dependents(relay.work[k]) \subseteq relay.erase
      BY <1>2, <2>1 DEF IInv, HandlerOK
    <2>4. QED  BY <1>3, <1>4, <2>2, <2>3
  <1>5. PoolOK(pool)' /\ HandlerOK'
    BY <1>1, WaitingOK DEF IInv
  <1>6. QED  BY <1>3, <1>4, <1>5 DEF IInv

--------------------------------------------------------------------------------
(* Every step *)

\* One clause for each action.
LEMMA StepInv == ASSUME IInv, [RelayNext]_allVars PROVE IInv'
  <1>1. CASE UNCHANGED allVars
    <2>1. pool' = pool /\ relay' = relay /\ UNCHANGED <<peers, orphans, byPrev>>
      BY <1>1 DEF allVars, poolVars, relayVars
    <2>2. QED  BY <2>1, SameOrphans DEF IInv
  <1>2. CASE ChainAndWallet
    <2>1. PoolStep /\ relay' = relay /\ UNCHANGED <<peers, orphans, byPrev>>
      BY <1>2 DEF ChainAndWallet, relayVars
    <2>2. QED  BY <2>1, PoolStepOK, SameOrphans DEF IInv
  <1>3. ASSUME NEW p \in Peers, InitializeNode(p) PROVE IInv'
    <2>1. pool' = pool /\ relay' = relay /\ orphans' = orphans /\ byPrev' = byPrev
          /\ peers' = peers \cup {p}
      BY <1>3 DEF InitializeNode, poolVars
    <2>2. OrphansOK'
      BY <2>1 DEF IInv, OrphansOK, MapsOK, Maps
    <2>3. HandlerOK'
      BY <2>1 DEF IInv, HandlerOK, Dependents
    <2>4. QED  BY <2>1, <2>2, <2>3 DEF IInv
  <1>4. ASSUME NEW p \in Peers, FinalizeNode(p) PROVE IInv'
    <2>1. pool' = pool /\ relay' = Waiting /\ peers' = peers \ {p}
          /\ SetOrphans(EraseOrphanTx(Maps, EraseOrphansFor(p)))
      BY <1>4 DEF FinalizeNode, MainFree, Maps, poolVars
    <2>2. \A t \in DOMAIN orphans \ EraseOrphansFor(p) : orphans[t] \in peers'
      BY <2>1 DEF IInv, OrphansOK, EraseOrphansFor
    <2>3. OrphansOK'
      BY <2>1, <2>2, ErasedOK DEF IInv
    <2>4. QED  BY <2>1, <2>3, WaitingOK DEF IInv
  <1>5. ASSUME NEW p \in Peers, NEW t \in Txids, StoreOrphan(p, t) PROVE IInv'
    <2>1. p \in peers /\ pool' = pool /\ relay' = Waiting
      BY <1>5 DEF StoreOrphan, MainFree, poolVars
    <2>2. OrphansOK'
      BY <1>5, <2>1, StoredOK DEF IInv
    <2>3. QED  BY <2>1, <2>2, WaitingOK DEF IInv
  <1>6. ASSUME NEW p \in Peers, NEW t \in Txids, NEW full \in BOOLEAN, AcceptTx(p, t, full)
        PROVE  IInv'
    BY <1>6, AcceptTxOK
  <1>7. ASSUME NEW t \in Txids, NEW full \in BOOLEAN, ProcessOrphan(t, full) PROVE IInv'
    BY <1>7, ProcessOrphanOK
  <1>8. CASE NextInQueue
    BY <1>8, NextInQueueOK
  <1>9. CASE FinishTx
    BY <1>9, FinishTxOK
  <1>10. CASE Restart
    <2>1. pool' = EmptyPool /\ peers' = {} /\ relay' = Waiting
          /\ DOMAIN orphans' = {} /\ DOMAIN byPrev' = {}
      BY <1>10 DEF Restart, Crash, SetOrphans, Restrict
    <2>2. OrphansOK'
      BY SMT, <2>1, FS_EmptySet, OrphansAssumption DEF OrphansOK, MapsOK, Maps
    <2>3. QED  BY <2>1, <2>2, EmptyOK, WaitingOK DEF IInv
  <1>11. QED
    BY <1>1, <1>2, <1>3, <1>4, <1>5, <1>6, <1>7, <1>8, <1>9, <1>10
    DEF RelayNext, Messages, Handler

\* The invariant that the theorems below rest on.
THEOREM Invariance == RelaySpec => []IInv
  <1>1. QED  BY InitInv, StepInv, PTL DEF RelaySpec

\* mapNextTx and totalTxSize (txmempool.cpp) always agree with mapTx, whatever blocks
\* connect and disconnect and in the middle of them.
THEOREM PoolIndexSafe == RelaySpec => []IndexExact
  <1>1. QED  BY Invariance, InvImplies, PTL

\* mapOrphanTransactionsByPrev always agrees with mapOrphanTransactions, so that the
\* handler of "tx" finds each orphan it looks up.
THEOREM OrphanIndexSafe == RelaySpec => []OrphanIndexExact
  <1>1. QED  BY Invariance, InvImplies, PTL

\* LimitOrphanTxSize and EraseOrphansFor keep the orphans to -maxorphantx, all of peers
\* that are connected.
THEOREM OrphansLimited == RelaySpec => []OrphansBounded
  <1>1. QED  BY Invariance, InvImplies, PTL

\* When the handler of "tx" ends, it has tried every orphan that spends from a
\* transaction it accepted, along chains of orphans of every length and shape.
THEOREM AllProcessed == RelaySpec => OrphansProcessed
  <1>1. ASSUME IInv, [RelayNext]_allVars
        PROVE  [FinishTx => \A t \in DOMAIN orphans' : Prevs(t) \cap Range(relay.work) = {}]_allVars
    BY <1>1, FinishTxOK
  <1>2. QED  BY Invariance, <1>1, PTL DEF RelaySpec, OrphansProcessed
--------------------------------------------------------------------------------
(* Transactions and blocks *)

\* The outputs of t that can be spent.
Spendable(t) == DOMAIN Outs[t] \ Unspendable[t]

\* What the transactions of S spend.
Spent(S) == UNION {InsOf(t) : t \in S}

\* The transactions of the chain to b.
ChainTxs(b) == UNION {Range(Vtx[c]) : c \in Chain[b] \ {Genesis}}

\* An input is an outpoint.
LEMMA InputIs ==
    ASSUME NEW t \in Txids, NEW o \in InsOf(t)
    PROVE  /\ o[1] \in Txids /\ o = <<o[1], o[2]>>
           /\ \E k \in DOMAIN Ins[t] : Ins[t][k] = o
           /\ t \notin CoinBases
  <1>1. Ins[t] \in Seq(Txids \X (Nat \ {0})) /\ (t \in CoinBases => Ins[t] = <<>>)
    BY TransactionAssumption
  <1>2. PICK k \in DOMAIN Ins[t] : Ins[t][k] = o
    BY DEF InsOf, Range
  <1>3. o \in Txids \X (Nat \ {0})
    BY SMT, <1>1, <1>2
  <1>4. t \notin CoinBases
    BY SMT, <1>1, <1>2
  <1>5. QED  BY SMT, <1>2, <1>3, <1>4

\* The coins of a transaction when it is made.
LEMMA FromTxIs ==
    ASSUME NEW t, NEW h
    PROVE  /\ FromTx(t, h).vout = Spendable(t)
           /\ Spendable(t) # {} =>
                 FromTx(t, h) = [vout |-> Spendable(t), height |-> h, coinbase |-> t \in CoinBases]
           /\ FromTx(t, h) = Pruned => Spendable(t) = {}
  <1> DEFINE c == [vout |-> Spendable(t), height |-> h, coinbase |-> t \in CoinBases]
  <1>1. FromTx(t, h) = IF c.vout = {} THEN Pruned ELSE c
    BY DEF FromTx, Normal, IsPruned, Spendable
  <1>2. c.vout = Spendable(t) /\ Pruned.vout = {}
    BY DEF Pruned
  <1>3. QED  BY <1>1, <1>2

\* A set of natural numbers has a least element.
LEMMA LeastNat == ASSUME NEW S, S \subseteq Nat, S # {} PROVE \E i \in S : \A j \in S : i <= j
  <1>1. PICK i \in S : \A j \in S : ~(<<j, i>> \in OpToRel(<, Nat))
    BY NatLessThanWellFounded, WFMin
  <1>2. \A j \in S : ~(j < i)
    BY <1>1 DEF OpToRel
  <1>3. QED  BY SMT, <1>2

\* A block is one higher than its parent and one more in its chain.
LEMMA HeightFacts ==
    ASSUME NEW b \in Blocks
    PROVE  /\ b \in Chain[b] /\ Chain[b] \subseteq Blocks /\ Height(b) \in Nat
           /\ b # Genesis => /\ Parent[b] \in Blocks /\ Height(b) = Height(Parent[b]) + 1
                             /\ Chain[b] = {b} \cup Chain[Parent[b]] /\ b \notin Chain[Parent[b]]
  <1>1. \A c \in Blocks \ {Genesis} :
           Parent[c] \in Blocks /\ Chain[c] = Chain[Parent[c]] \cup {c} /\ c \notin Chain[Parent[c]]
    <2>1. \A c \in Blocks \ {Genesis} : Parent[c] \in Blocks
      BY BlockAssumption
    <2>2. QED  BY <2>1, TreeAssumption
  <1>2. \A c \in Blocks : c \in Chain[c] /\ Chain[c] \subseteq Blocks /\ IsFiniteSet(Chain[c])
    <2>1. \A c \in Blocks : c \in Chain[c]
      BY SMT, <1>1, TreeAssumption
    <2>2. QED  BY <2>1, TreeAssumption
  <1>3. \A c \in Blocks : Cardinality(Chain[c]) \in Nat /\ Cardinality(Chain[c]) # 0
    BY <1>2, FS_CardinalityType, FS_EmptySet
  <1>4. Height(b) \in Nat
    BY SMT, <1>3 DEF Height
  <1>5. ASSUME b # Genesis PROVE Height(b) = Height(Parent[b]) + 1
    <2>1. Cardinality(Chain[b]) = Cardinality(Chain[Parent[b]]) + 1
      BY <1>1, <1>2, <1>5, FS_AddElement
    <2>2. QED  BY SMT, <1>1, <1>3, <1>5, <2>1 DEF Height
  <1>6. QED  BY SMT, <1>1, <1>2, <1>4, <1>5

\* What holds of Genesis, and of a block when it holds of its parent, holds of every block.
LEMMA ChainInduction ==
    ASSUME NEW S \in SUBSET Blocks, Genesis \in S,
           \A b \in Blocks \ {Genesis} : Parent[b] \in S => b \in S
    PROVE  \A b \in Blocks : b \in S
  <1> DEFINE H == {Height(b) : b \in Blocks \ S}
  <1>1. SUFFICES ASSUME Blocks \ S # {} PROVE FALSE
    OBVIOUS
  <1>2. H \subseteq Nat /\ H # {}
    BY SMT, <1>1, HeightFacts
  <1>3. PICK h \in H : \A g \in H : h <= g
    BY <1>2, LeastNat
  <1>4. PICK b \in Blocks \ S : h = Height(b)
    BY <1>3
  <1>5. Parent[b] \in Blocks \ S /\ Height(b) = Height(Parent[b]) + 1
    BY <1>4, HeightFacts
  <1>6. Height(b) <= Height(Parent[b]) /\ Height(Parent[b]) \in Nat
    BY SMT, <1>3, <1>4, <1>5, HeightFacts
  <1>7. QED  BY SMT, <1>5, <1>6

\* The transactions of a block: the first alone is a coinbase, and only it has no inputs.
LEMMA BlockTx ==
    ASSUME NEW b \in Blocks \ {Genesis}, NEW k \in DOMAIN Vtx[b]
    PROVE  /\ Vtx[b][k] \in Txids
           /\ DOMAIN Vtx[b] = 1..Len(Vtx[b]) /\ Len(Vtx[b]) \in Nat
           /\ CheckTransaction(Vtx[b][k]) /\ IsFinalTx(Vtx[b][k], Height(b))
           /\ IsPruned(CoinsAt[Parent[b]][Vtx[b][k]])
           /\ Vtx[b][k] \notin BadScript
           /\ Vtx[b][k] \in CoinBases <=> k = 1
  <1>1. Vtx[b] \in Seq(Txids)
    BY BlockAssumption
  <1>2. ConnectBlock(b)
    BY ConnectAssumption
  <1>3. QED  BY SMT, <1>1, <1>2 DEF ConnectBlock

\* ConnectBlock has checked the inputs of the others.
LEMMA BlockChecked ==
    ASSUME NEW b \in Blocks \ {Genesis}, NEW k \in DOMAIN Vtx[b], k # 1
    PROVE  /\ CheckInputs(ViewOfBlock(b, k), Vtx[b][k], Height(b), Maturity)
           /\ HaveInputs(ViewOfBlock(b, k), Vtx[b][k])
  <1>1. ConnectBlock(b)
    BY ConnectAssumption
  <1>2. CheckInputs(ViewOfBlock(b, k), Vtx[b][k], Height(b), Maturity)
    BY <1>1 DEF ConnectBlock
  <1>3. QED  BY <1>2 DEF CheckInputs

\* A transaction that passes CheckTransaction and is no coinbase spends something.
LEMMA HasInput ==
    ASSUME NEW t \in Txids, CheckTransaction(t), t \notin CoinBases
    PROVE  InsOf(t) # {}
  <1>1. Ins[t] \in Seq(Txids \X (Nat \ {0})) /\ Ins[t] # <<>>
    BY TransactionAssumption DEF CheckTransaction
  <1>2. 1 \in DOMAIN Ins[t]
    BY SMT, <1>1
  <1>3. QED  BY <1>2 DEF InsOf, Range

\* What a transaction of a block spends was made before it in the block or is in the coin
\* set of the parent, and no transaction before it in the block spends it.
LEMMA BlockInput ==
    ASSUME NEW b \in Blocks \ {Genesis}, NEW k \in DOMAIN Vtx[b], NEW o \in InsOf(Vtx[b][k])
    PROVE  /\ o[1] \in Txids /\ o = <<o[1], o[2]>> /\ k # 1
           /\ \A j \in 1..(k - 1) : o \notin InsOf(Vtx[b][j])
           /\ \/ o[2] \in Spendable(o[1]) /\ \E j \in 1..(k - 1) : Vtx[b][j] = o[1]
              \/ /\ o[2] \in CoinsAt[Parent[b]][o[1]].vout
                 /\ ~ \E j \in 1..(k - 1) : Vtx[b][j] = o[1]
  <1> DEFINE t == Vtx[b][k]
             made == \E j \in 1..(k - 1) : Vtx[b][j] = o[1]
             c == IF made THEN FromTx(o[1], Height(b)) ELSE CoinsAt[Parent[b]][o[1]]
             left == {n \in c.vout : \A j \in 1..(k - 1) : <<o[1], n>> \notin InsOf(Vtx[b][j])}
  <1>1. t \in Txids /\ (t \in CoinBases <=> k = 1)
    BY BlockTx
  <1>2. o[1] \in Txids /\ o = <<o[1], o[2]>> /\ t \notin CoinBases
    BY <1>1, InputIs
  <1>3. PICK m \in DOMAIN Ins[t] : Ins[t][m] = o
    BY <1>1, InputIs
  <1>4. HaveInputs(ViewOfBlock(b, k), t)
    BY <1>1, <1>2, BlockChecked
  <1>5. o[2] \in ViewOfBlock(b, k)[o[1]].vout
    BY <1>3, <1>4 DEF HaveInputs, IsAvailable
  <1>6. ViewOfBlock(b, k)[o[1]] = [vout |-> left, height |-> c.height, coinbase |-> c.coinbase]
    BY <1>2 DEF ViewOfBlock
  <1>7. o[2] \in left
    BY SMT, <1>5, <1>6
  <1>8. o[2] \in c.vout /\ \A j \in 1..(k - 1) : o \notin InsOf(Vtx[b][j])
    BY <1>2, <1>7
  <1>9. QED  BY <1>1, <1>2, <1>8, FromTxIs

--------------------------------------------------------------------------------
(* The chain of blocks that connect *)

\* The chain to b has the chains of its blocks, each the highest of its own.
Nested(b) ==
    \A d \in Chain[b] : Chain[d] \subseteq Chain[b] /\ \A a \in Chain[d] : Height(a) <= Height(d)

\* A transaction whose outputs can be spent is made once.
MadeOnce(b) ==
    \A c, d \in Chain[b] \ {Genesis} :
        \A t \in Range(Vtx[c]) \cap Range(Vtx[d]) : Spendable(t) # {} => c = d

\* What a block spends was made in its chain.
MadeBefore(b) ==
    \A d \in Chain[b] \ {Genesis} : \A o \in Spent(Range(Vtx[d])) :
        o[1] \in ChainTxs(d) /\ o[2] \in Spendable(o[1])

\* No two transactions spend the same output.
SpentOnce(b) == \A s, t \in ChainTxs(b) : s # t => InsOf(s) \cap InsOf(t) = {}

Orderly(b) == Nested(b) /\ MadeOnce(b) /\ MadeBefore(b) /\ SpentOnce(b)

\* The chain of a block is that of its parent and the block.
LEMMA ChainTxsIs ==
    /\ ChainTxs(Genesis) = {}
    /\ \A b \in Blocks \ {Genesis} : ChainTxs(b) = ChainTxs(Parent[b]) \cup Range(Vtx[b])
    /\ \A b \in Blocks : ChainTxs(b) \subseteq Txids
  <1>1. ChainTxs(Genesis) = {}
    BY TreeAssumption DEF ChainTxs
  <1>2. \A b \in Blocks \ {Genesis} : Chain[b] = {b} \cup Chain[Parent[b]]
    BY HeightFacts
  <1>3. \A b \in Blocks \ {Genesis} : ChainTxs(b) = ChainTxs(Parent[b]) \cup Range(Vtx[b])
    BY SMT, <1>2 DEF ChainTxs
  <1>4. \A b \in Blocks : Range(Vtx[b]) \subseteq Txids
    BY SMT, BlockAssumption DEF Range
  <1>5. \A b \in Blocks : ChainTxs(b) \subseteq Txids
    BY SMT, <1>4, HeightFacts DEF ChainTxs
  <1>6. QED  BY <1>1, <1>3, <1>5

\* What the chain to b spends was made in it.
LEMMA SpentMade ==
    ASSUME NEW b \in Blocks, Orderly(b), NEW o \in Spent(ChainTxs(b))
    PROVE  o[1] \in ChainTxs(b) /\ o[2] \in Spendable(o[1]) /\ o = <<o[1], o[2]>>
  <1>1. PICK t \in ChainTxs(b) : o \in InsOf(t)
    BY DEF Spent
  <1>2. PICK d \in Chain[b] \ {Genesis} : t \in Range(Vtx[d])
    BY DEF ChainTxs
  <1>3. o \in Spent(Range(Vtx[d]))
    BY <1>1, <1>2 DEF Spent
  <1>4. o[1] \in ChainTxs(d) /\ o[2] \in Spendable(o[1]) /\ Chain[d] \subseteq Chain[b]
    BY <1>2, <1>3 DEF Orderly, Nested, MadeBefore
  <1>5. o[1] \in ChainTxs(b)
    BY <1>4 DEF ChainTxs
  <1>6. o = <<o[1], o[2]>>
    BY <1>1, ChainTxsIs, InputIs
  <1>7. QED  BY <1>4, <1>5, <1>6

\* Then the coin set has exactly the outputs that the chain made and does not spend, each
\* with the height of the only block that made it.
LEMMA CoinsIs ==
    ASSUME NEW b \in Blocks, Orderly(b), NEW t \in Txids
    PROVE  /\ CoinsAt[b][t].vout =
                 {n \in Spendable(t) : t \in ChainTxs(b) /\ <<t, n>> \notin Spent(ChainTxs(b))}
           /\ \A c \in Chain[b] \ {Genesis} :
                 t \in Range(Vtx[c]) /\ ~IsPruned(CoinsAt[b][t]) =>
                    /\ CoinsAt[b][t].height = Height(c)
                    /\ CoinsAt[b][t].coinbase = (t \in CoinBases)
  <1>1. CoinsAt[b] = CoinsOf(b)
    BY DEF CoinsAt
  <1>2. Creators(b, t) = {c \in Chain[b] \ {Genesis} : t \in Range(Vtx[c])}
    BY DEF Creators, Range
  <1>3. Creators(b, t) = {} <=> t \notin ChainTxs(b)
    BY <1>2 DEF ChainTxs
  <1>4. CASE Creators(b, t) = {}
    <2>1. CoinsAt[b][t] = Pruned
      BY <1>1, <1>4 DEF CoinsOf
    <2>2. Pruned.vout = {}
      BY DEF Pruned
    <2>3. QED  BY <1>3, <1>4, <2>1, <2>2 DEF IsPruned
  <1>5. CASE Creators(b, t) # {}
    <2> DEFINE c == Creator(b, t)
               new == FromTx(t, Height(c))
               left == {n \in new.vout : ~SpentSince(b, c, t, n)}
    <2>1. CoinsAt[b][t] = Normal([new EXCEPT !.vout = left])
      BY <1>1, <1>5 DEF CoinsOf
    <2>2. new.vout = Spendable(t)
      BY FromTxIs
    <2>3. CASE Spendable(t) = {}
      <3>1. new = Pruned
        BY <2>3 DEF FromTx, Normal, IsPruned, Spendable
      <3>2. left = {}
        BY <2>2, <2>3
      <3> HIDE DEF new, left
      <3>3. CoinsAt[b][t] = Pruned /\ Pruned.vout = {}
        BY <2>1, <3>1, <3>2 DEF Normal, IsPruned, Pruned
      <3>4. QED  BY <2>3, <3>3 DEF IsPruned
    <2>4. CASE Spendable(t) # {}
      <3>1. PICK d \in Chain[b] \ {Genesis} : t \in Range(Vtx[d])
        BY <1>2, <1>5
      <3>2. Creators(b, t) = {d}
        BY <1>2, <2>4, <3>1 DEF Orderly, MadeOnce
      <3>3. d \in Blocks /\ Height(d) \in Nat
        BY <3>1, HeightFacts
      <3>4. c = d
        BY SMT, <3>2, <3>3 DEF Creator
      <3>5. ASSUME NEW n \in Spendable(t)
            PROVE  SpentSince(b, c, t, n) <=> <<t, n>> \in Spent(ChainTxs(b))
        <4>1. SpentSince(b, c, t, n) <=>
                 \E e \in Chain[b] \ {Genesis} : Height(e) >= Height(d) /\ <<t, n>> \in Spent(Range(Vtx[e]))
          <5>1. ASSUME NEW e
                PROVE  (\E k \in DOMAIN Vtx[e] : \E m \in DOMAIN Ins[Vtx[e][k]] : Ins[Vtx[e][k]][m] = <<t, n>>)
                          <=> <<t, n>> \in Spent(Range(Vtx[e]))
            BY SMT DEF Spent, InsOf, Range
          <5>2. QED  BY <3>4, <5>1 DEF SpentSince
        <4>2. \A e \in Chain[b] \ {Genesis} : <<t, n>> \in Spent(Range(Vtx[e])) => Height(e) >= Height(d)
          <5> TAKE e \in Chain[b] \ {Genesis}
          <5> HAVE <<t, n>> \in Spent(Range(Vtx[e]))
          <5>1. t \in ChainTxs(e)
            BY DEF Orderly, MadeBefore
          <5>2. PICK a \in Chain[e] \ {Genesis} : t \in Range(Vtx[a])
            BY <5>1 DEF ChainTxs
          <5>3. a = d
            <6>1. a \in Chain[b]
              BY <5>2 DEF Orderly, Nested
            <6>2. QED  BY <2>4, <3>1, <5>2, <6>1 DEF Orderly, MadeOnce
          <5>4. Height(a) <= Height(e)
            BY <5>2 DEF Orderly, Nested
          <5>5. e \in Blocks /\ Height(e) \in Nat
            BY HeightFacts
          <5>6. QED  BY <3>3, <5>3, <5>4, <5>5
        <4>3. <<t, n>> \in Spent(ChainTxs(b)) <=>
                 \E e \in Chain[b] \ {Genesis} : <<t, n>> \in Spent(Range(Vtx[e]))
          BY SMT DEF Spent, ChainTxs
        <4>4. QED  BY <4>1, <4>2, <4>3
      <3>6. left = {n \in Spendable(t) : <<t, n>> \notin Spent(ChainTxs(b))}
        BY <2>2, <3>5
      <3>7. new = [vout |-> Spendable(t), height |-> Height(d), coinbase |-> t \in CoinBases]
        BY <2>4, <3>4, FromTxIs
      <3> HIDE DEF new, left, c
      <3>8. CoinsAt[b][t] = IF left = {} THEN Pruned
                            ELSE [vout |-> left, height |-> Height(d), coinbase |-> t \in CoinBases]
        BY <2>1, <3>7 DEF Normal, IsPruned
      <3>9. CoinsAt[b][t].vout = left
        BY SMT, <3>8 DEF Pruned
      <3>10. t \in ChainTxs(b)
        BY <1>3, <1>5
      <3>11. ASSUME NEW e \in Chain[b] \ {Genesis}, t \in Range(Vtx[e]) PROVE e = d
        BY <2>4, <3>1, <3>11 DEF Orderly, MadeOnce
      <3>12. QED  BY SMT, <3>6, <3>8, <3>9, <3>10, <3>11 DEF IsPruned
    <2>5. QED  BY <2>3, <2>4
  <1>6. QED  BY <1>4, <1>5

\* An input of a block on an orderly chain: made in the chain and not spent before.
LEMMA NewInput ==
    ASSUME NEW b \in Blocks \ {Genesis}, Orderly(Parent[b]),
           NEW k \in DOMAIN Vtx[b], NEW o \in InsOf(Vtx[b][k])
    PROVE  /\ o[2] \in Spendable(o[1])
           /\ \/ \E j \in 1..(k - 1) : Vtx[b][j] = o[1]
              \/ o[1] \in ChainTxs(Parent[b]) /\ o \notin Spent(ChainTxs(Parent[b]))
  <1>1. Parent[b] \in Blocks
    BY HeightFacts
  <1>2. CASE o[2] \in Spendable(o[1]) /\ \E j \in 1..(k - 1) : Vtx[b][j] = o[1]
    BY <1>2
  <1>3. CASE o[2] \in CoinsAt[Parent[b]][o[1]].vout
    <2>1. o[1] \in Txids /\ o = <<o[1], o[2]>>
      BY BlockInput
    <2>2. CoinsAt[Parent[b]][o[1]].vout =
             {n \in Spendable(o[1]) : /\ o[1] \in ChainTxs(Parent[b])
                                      /\ <<o[1], n>> \notin Spent(ChainTxs(Parent[b]))}
      BY <1>1, <2>1, CoinsIs
    <2>3. QED  BY <1>3, <2>1, <2>2
  <1>4. QED  BY <1>2, <1>3, BlockInput

\* A block does not make again what its chain has made: its coinbase is new, and another
\* transaction would spend again what it spent the first time.
LEMMA NotMadeAgain ==
    ASSUME NEW b \in Blocks \ {Genesis}, Orderly(Parent[b]), NEW t \in Range(Vtx[b]),
           Spendable(t) # {}
    PROVE  t \notin ChainTxs(Parent[b])
  <1> DEFINE Again == {k \in DOMAIN Vtx[b] : /\ Spendable(Vtx[b][k]) # {}
                                             /\ Vtx[b][k] \in ChainTxs(Parent[b])}
  <1>1. SUFFICES ASSUME Again # {} PROVE FALSE
    BY DEF Range
  <1>2. Again \subseteq Nat
    BY SMT, BlockTx
  <1>3. PICK k \in Again : \A j \in Again : k <= j
    BY <1>1, <1>2, LeastNat
  <1>4. k \in DOMAIN Vtx[b] /\ Spendable(Vtx[b][k]) # {} /\ Vtx[b][k] \in ChainTxs(Parent[b])
    OBVIOUS
  <1>5. PICK c \in Chain[Parent[b]] \ {Genesis} : Vtx[b][k] \in Range(Vtx[c])
    BY <1>4 DEF ChainTxs
  <1>6. Parent[b] \in Blocks /\ c \in Blocks \ {Genesis}
    BY HeightFacts
  <1> DEFINE s == Vtx[b][k]
  <1>7. s \in Txids /\ CheckTransaction(s) /\ (s \in CoinBases <=> k = 1)
    BY <1>4, BlockTx
  <1>8. CASE k = 1
    <2>1. PICK j \in DOMAIN Vtx[c] : Vtx[c][j] = s
      BY <1>5 DEF Range
    <2>2. j = 1
      BY <1>6, <1>7, <1>8, <2>1, BlockTx
    <2>3. FromTx(s, Height(b)) = Pruned
      BY <1>5, <1>8, <2>1, <2>2, ConnectAssumption
    <2>4. QED  BY <1>4, <2>3, FromTxIs
  <1>9. CASE k # 1
    <2>1. PICK o : o \in InsOf(s)
      BY <1>7, <1>9, HasInput
    <2>2. o \in Spent(ChainTxs(Parent[b]))
      BY <1>4, <2>1 DEF Spent
    <2>3. PICK j \in 1..(k - 1) : Vtx[b][j] = o[1]
      BY <1>4, <2>1, <2>2, NewInput
    <2>4. o[1] \in ChainTxs(Parent[b]) /\ o[2] \in Spendable(o[1])
      BY <1>6, <2>2, SpentMade
    <2>5. j \in DOMAIN Vtx[b] /\ j < k
      BY SMT, <1>2, <1>4, <2>3, BlockTx
    <2>6. j \in Again
      BY <2>3, <2>4, <2>5
    <2>7. k <= j /\ k \in Nat /\ j \in Nat
      BY <1>2, <1>3, <2>6
    <2>8. QED  BY SMT, <2>5, <2>7
  <1>10. QED  BY <1>8, <1>9

\* Two transactions of a block, or one of it and one before it, do not spend the same.
LEMMA NotSpentAgain ==
    ASSUME NEW b \in Blocks \ {Genesis}, Orderly(Parent[b])
    PROVE  /\ \A k \in DOMAIN Vtx[b], s \in ChainTxs(Parent[b]) : InsOf(Vtx[b][k]) \cap InsOf(s) = {}
           /\ \A j, k \in DOMAIN Vtx[b] : j # k => InsOf(Vtx[b][j]) \cap InsOf(Vtx[b][k]) = {}
  <1>1. ASSUME NEW k \in DOMAIN Vtx[b], NEW s \in ChainTxs(Parent[b]),
               NEW o \in InsOf(Vtx[b][k]) \cap InsOf(s)
        PROVE  FALSE
    <2>1. o \in Spent(ChainTxs(Parent[b]))
      BY <1>1 DEF Spent
    <2>2. o[1] \in ChainTxs(Parent[b])
      BY <2>1, HeightFacts, SpentMade
    <2>3. PICK j \in 1..(k - 1) : Vtx[b][j] = o[1]
      BY <1>1, <2>1, NewInput
    <2>4. j \in DOMAIN Vtx[b] /\ o[2] \in Spendable(o[1])
      BY SMT, <1>1, <2>3, BlockTx, NewInput
    <2>5. o[1] \in Range(Vtx[b])
      BY <2>3, <2>4 DEF Range
    <2>6. QED  BY <2>2, <2>4, <2>5, NotMadeAgain
  <1>2. \A j, k \in DOMAIN Vtx[b] : j < k => InsOf(Vtx[b][j]) \cap InsOf(Vtx[b][k]) = {}
    <2> TAKE j, k \in DOMAIN Vtx[b]
    <2> HAVE j < k
    <2>1. j \in 1..(k - 1)
      BY SMT, BlockTx
    <2>2. QED  BY <2>1, BlockInput
  <1>3. \A j, k \in DOMAIN Vtx[b] : j # k => j < k \/ k < j
    BY SMT, BlockTx
  <1>4. QED  BY <1>1, <1>2, <1>3

\* Every chain is orderly.
LEMMA AllOrderly == \A b \in Blocks : Orderly(b)
  <1> DEFINE S == {b \in Blocks : Orderly(b)}
  <1>1. Genesis \in S
    <2>1. Chain[Genesis] = {Genesis} /\ Genesis \in Blocks /\ Height(Genesis) \in Nat
      BY TreeAssumption, BlockAssumption, HeightFacts
    <2>2. ChainTxs(Genesis) = {}
      BY ChainTxsIs
    <2>3. QED  BY SMT, <2>1, <2>2 DEF Orderly, Nested, MadeOnce, MadeBefore, SpentOnce
  <1>2. ASSUME NEW b \in Blocks \ {Genesis}, Parent[b] \in S PROVE b \in S
    <2> DEFINE a == Parent[b]
    <2>1. Orderly(a) /\ a \in Blocks /\ Height(a) \in Nat /\ Height(b) = Height(a) + 1
          /\ Chain[b] = {b} \cup Chain[a] /\ b \notin Chain[a] /\ a \in Chain[a]
      BY <1>2, HeightFacts
    <2>2. ChainTxs(b) = ChainTxs(a) \cup Range(Vtx[b])
      BY ChainTxsIs
    <2> HIDE DEF a
    <2>3. Nested(b)
      <3>1. \A d \in Chain[a] : d \in Blocks /\ Height(d) \in Nat
        BY <2>1, HeightFacts
      <3>2. \A d \in Chain[a] : Height(d) <= Height(b)
        BY SMT, <2>1, <3>1 DEF Orderly, Nested
      <3>3. QED  BY SMT, <2>1, <3>2 DEF Orderly, Nested
    <2>4. MadeOnce(b)
      <3>1. \A d \in Chain[a] \ {Genesis} : \A t \in Range(Vtx[d]) \cap Range(Vtx[b]) : Spendable(t) = {}
        BY SMT, <2>1, NotMadeAgain DEF ChainTxs, a
      <3>2. QED  BY <2>1, <3>1 DEF Orderly, MadeOnce
    <2>5. MadeBefore(b)
      <3>1. ASSUME NEW o \in Spent(Range(Vtx[b])) PROVE o[1] \in ChainTxs(b) /\ o[2] \in Spendable(o[1])
        <4>1. PICK k \in DOMAIN Vtx[b] : o \in InsOf(Vtx[b][k])
          BY <3>1 DEF Spent, Range
        <4>2. o[2] \in Spendable(o[1])
              /\ (o[1] \in ChainTxs(a) \/ \E j \in 1..(k - 1) : Vtx[b][j] = o[1])
          BY <2>1, <4>1, NewInput DEF a
        <4>3. 1..(k - 1) \subseteq DOMAIN Vtx[b]
          BY SMT, BlockTx
        <4>4. QED  BY <2>2, <4>2, <4>3 DEF Range
      <3>2. QED  BY <2>1, <3>1 DEF Orderly, MadeBefore
    <2>6. SpentOnce(b)
      <3>1. /\ \A t \in Range(Vtx[b]), s \in ChainTxs(a) : InsOf(t) \cap InsOf(s) = {}
            /\ \A s, t \in Range(Vtx[b]) : s # t => InsOf(s) \cap InsOf(t) = {}
        BY <2>1, NotSpentAgain DEF Range, a
      <3>2. QED  BY <2>1, <2>2, <3>1 DEF Orderly, SpentOnce
    <2>7. QED  BY <2>3, <2>4, <2>5, <2>6 DEF Orderly
  <1>3. QED  BY <1>1, <1>2, ChainInduction

--------------------------------------------------------------------------------
(* What leaves the pool *)

Closed(p, S, D) == /\ S \cap p.tx \subseteq D
                   /\ \A d \in D : Spenders(p, d) \cap p.tx \subseteq D

\* remove with fRecursive takes a closed set, and no more than any closed set has.
LEMMA DescendantsClosed ==
    ASSUME NEW p, NEW S
    PROVE  /\ Descendants(p, S) \subseteq p.tx
           /\ Closed(p, S, Descendants(p, S))
           /\ \A E \in SUBSET p.tx : Closed(p, S, E) => Descendants(p, S) \subseteq E
  <1>1. Descendants(p, S) = {t \in p.tx : \A E \in SUBSET p.tx : Closed(p, S, E) => t \in E}
    BY DEF Descendants, Closed
  <1>2. ASSUME NEW t \in S \cap p.tx PROVE t \in Descendants(p, S)
    BY <1>1, <1>2 DEF Closed
  <1>3. ASSUME NEW d \in Descendants(p, S), NEW t \in Spenders(p, d) \cap p.tx
        PROVE  t \in Descendants(p, S)
    <2>1. SUFFICES ASSUME NEW E \in SUBSET p.tx, Closed(p, S, E) PROVE t \in E
      BY <1>1, <1>3
    <2>2. d \in E
      BY <1>1, <1>3, <2>1
    <2>3. QED  BY <1>3, <2>1, <2>2 DEF Closed
  <1>4. QED  BY <1>1, <1>2, <1>3 DEF Closed

\* Each transaction it takes is one it was called for or spends from one it takes.
LEMMA DescendantsCause ==
    ASSUME NEW p, NEW S, NEW t \in Descendants(p, S), t \notin S
    PROVE  \E u \in Descendants(p, S) : t \in Spenders(p, u)
  <1> DEFINE D == Descendants(p, S)
  <1>1. SUFFICES ASSUME \A u \in D : t \notin Spenders(p, u) PROVE FALSE
    OBVIOUS
  <1>2. D \subseteq p.tx /\ Closed(p, S, D)
    BY DescendantsClosed
  <1>3. Closed(p, S, D \ {t})
    BY <1>1, <1>2 DEF Closed
  <1>4. D \subseteq D \ {t}
    BY <1>2, <1>3, DescendantsClosed
  <1>5. QED  BY <1>4

\* The spenders that mapNextTx names.
LEMMA SpendersAre ==
    ASSUME NEW p, PoolOK(p), NEW u
    PROVE  Spenders(p, u) = {t \in p.tx : \E o \in InsOf(t) : o[1] = u /\ o[2] \in DOMAIN Outs[u]}
  <1>1. \A o \in DOMAIN p.next : \E t \in p.tx : o \in InsOf(t) /\ p.next[o] = t
    BY DEF PoolOK
  <1>2. \A t \in p.tx : \A o \in InsOf(t) : o \in DOMAIN p.next /\ p.next[o] = t
    BY DEF PoolOK
  <1>3. \A t : t \in Spenders(p, u) <=>
                 \E o \in DOMAIN p.next : o[1] = u /\ o[2] \in DOMAIN Outs[u] /\ t = p.next[o]
    BY DEF Spenders
  <1>4. QED  BY SMT, <1>1, <1>2, <1>3

\* A turn of removeForBlock leaves nothing that spends what the transaction spends.
LEMMA ConfirmedClears ==
    ASSUME NEW p, PoolOK(p), NEW x
    PROVE  /\ Confirmed(p, x).tx \subseteq p.tx \ {x}
           /\ \A t \in Confirmed(p, x).tx : InsOf(t) \cap InsOf(x) = {}
  <1> DEFINE q == remove(p, x)
             D == Descendants(q, Conflicts(q, x))
  <1>1. PoolOK(q) /\ q.tx = p.tx \ {x}
    <2>1. q.tx = p.tx \ ({x} \cap p.tx)
      BY DEF remove, Without
    <2>2. PoolOK(q)
      BY WithoutOK DEF remove
    <2>3. QED  BY <2>1, <2>2
  <1> HIDE DEF q
  <1>2. Confirmed(p, x).tx = q.tx \ D
    BY DEF Confirmed, removeConflicts, removeRecursive, Without, q
  <1>3. ASSUME NEW t \in q.tx, NEW o \in InsOf(t) \cap InsOf(x) PROVE t \in D
    <2>1. o \in DOMAIN q.next /\ q.next[o] = t /\ t # x
      BY <1>1, <1>3 DEF PoolOK
    <2>2. t \in Conflicts(q, x)
      BY <1>3, <2>1 DEF Conflicts
    <2>3. QED  BY <1>3, <2>2, DescendantsClosed DEF Closed
  <1>4. QED  BY <1>1, <1>2, <1>3

--------------------------------------------------------------------------------
(* The pool and the chain *)

Jobs == [kind : {"idle", "connect", "disconnect"}, block : Blocks, i : Nat]

\* The job in progress is at the tip, and the chain moves between two messages only.
JobOK ==
    /\ best \in Blocks /\ disk \in Blocks /\ job \in Jobs
    /\ job.kind = "idle" => job = Idle
    /\ job.kind = "connect" => job.block = best /\ best # Genesis /\ job.i \in DOMAIN Vtx[best]
    /\ job.kind = "disconnect" => /\ job.block # Genesis /\ best = Parent[job.block]
                                  /\ job.i \in 1..(Len(Vtx[job.block]) + 1)

Quiet == relay # Waiting => job = Idle

\* Transactions number i to j of block b.
Txs(b, i, j) == {Vtx[b][k] : k \in i..j}

\* The transactions of the chain as far as the pool knows: removeForBlock has yet to turn
\* to the rest of a block that connects, and those of a block that is disconnected come back one by one.
Settled ==
    IF job.kind = "connect" THEN ChainTxs(Parent[best]) \cup Txs(best, 1, job.i - 1)
    ELSE IF job.kind = "disconnect" THEN ChainTxs(best) \cup Txs(job.block, job.i, Len(Vtx[job.block]))
    ELSE ChainTxs(best)

Loose == {t \in Txids \ CoinBases : CheckTransaction(t)}

\* No transaction of the pool spends what one of S spends.
Apart(S) == \A t \in pool.tx, s \in S : InsOf(t) \cap InsOf(s) = {}

ChainInv == JobOK /\ Quiet /\ pool.tx \subseteq Loose /\ Apart(Settled)

\* A block has a first transaction.
LEMMA VtxFacts ==
    ASSUME NEW b \in Blocks \ {Genesis}
    PROVE  /\ Vtx[b] \in Seq(Txids) /\ Len(Vtx[b]) \in Nat /\ DOMAIN Vtx[b] = 1..Len(Vtx[b])
           /\ 1 \in DOMAIN Vtx[b] /\ Txs(b, 1, Len(Vtx[b])) = Range(Vtx[b])
  <1>1. Vtx[b] \in Seq(Txids) /\ Vtx[b] # <<>>
    BY BlockAssumption, ConnectAssumption
  <1>2. Len(Vtx[b]) \in Nat /\ DOMAIN Vtx[b] = 1..Len(Vtx[b]) /\ 1 \in DOMAIN Vtx[b]
    BY SMT, <1>1
  <1>3. QED  BY <1>1, <1>2 DEF Txs, Range

\* Each step of the chain and of the wallet leaves a job that makes sense.
LEMMA PoolStepJob ==
    ASSUME JobOK, PoolStep
    PROVE  JobOK'
  <1>1. Idle \in Jobs /\ Idle.kind = "idle"
    BY BlockAssumption DEF Idle, Jobs
  <1>2. ASSUME job' = Idle, best' \in Blocks, disk' \in Blocks PROVE JobOK'
    BY <1>1, <1>2 DEF JobOK
  <1>3. ASSUME NEW t \in Txids, AcceptToMemoryPool(t) PROVE JobOK'
    BY <1>3 DEF AcceptToMemoryPool, JobOK
  <1>4. ASSUME NEW b \in Blocks, ConnectTip(b) PROVE JobOK'
    <2>1. /\ b # Genesis /\ best' = b /\ disk' \in Blocks
          /\ job' = [kind |-> "connect", block |-> b, i |-> 1]
      BY <1>4 DEF ConnectTip, JobOK
    <2>2. job' \in Jobs /\ 1 \in DOMAIN Vtx[b]
      BY <2>1, VtxFacts DEF Jobs
    <2>3. QED  BY <2>1, <2>2 DEF JobOK
  <1>5. CASE removeForBlock
    <2>1. /\ job.kind = "connect" /\ best' = best /\ disk' = disk
          /\ job' = IF job.i < Len(Vtx[job.block]) THEN [job EXCEPT !.i = @ + 1] ELSE Idle
      BY <1>5 DEF removeForBlock
    <2>2. job \in Jobs /\ job.block = best /\ best \in Blocks \ {Genesis} /\ disk \in Blocks
          /\ job.i \in DOMAIN Vtx[best]
      BY <2>1 DEF JobOK
    <2>3. CASE job.i < Len(Vtx[job.block])
      <3>1. job' = [kind |-> "connect", block |-> best, i |-> job.i + 1]
        BY <2>1, <2>2, <2>3 DEF Jobs
      <3>2. job.i + 1 \in DOMAIN Vtx[best] /\ job.i + 1 \in Nat
        BY SMT, <2>2, <2>3, VtxFacts
      <3>3. job' \in Jobs
        BY <2>2, <3>1, <3>2 DEF Jobs
      <3>4. QED  BY SMT, <2>1, <2>2, <3>1, <3>2, <3>3 DEF JobOK
    <2>4. CASE ~(job.i < Len(Vtx[job.block]))
      BY <1>2, <2>1, <2>2, <2>4
    <2>5. QED  BY <2>3, <2>4
  <1>6. CASE DisconnectTip
    <2>1. /\ best # Genesis /\ best' = Parent[best] /\ disk' \in {disk, Parent[best]}
          /\ job' = [kind |-> "disconnect", block |-> best, i |-> 1]
      BY <1>6 DEF DisconnectTip
    <2>2. best \in Blocks /\ disk \in Blocks /\ Parent[best] \in Blocks
      BY <2>1, HeightFacts DEF JobOK
    <2>3. job' \in Jobs /\ 1 \in 1..(Len(Vtx[best]) + 1)
      BY SMT, <2>1, <2>2, VtxFacts DEF Jobs
    <2>4. QED  BY <2>1, <2>2, <2>3 DEF JobOK
  <1>7. CASE Resurrect
    <2>1. /\ job.kind = "disconnect" /\ job.i <= Len(Vtx[job.block]) /\ best' = best /\ disk' = disk
          /\ job' = [job EXCEPT !.i = @ + 1]
      BY <1>7 DEF Resurrect
    <2>2. job \in Jobs /\ job.block \in Blocks \ {Genesis} /\ best = Parent[job.block]
          /\ job.i \in 1..(Len(Vtx[job.block]) + 1) /\ best \in Blocks /\ disk \in Blocks
      BY <2>1 DEF JobOK, Jobs
    <2>3. job' = [kind |-> "disconnect", block |-> job.block, i |-> job.i + 1]
      BY <2>1, <2>2 DEF Jobs
    <2>4. job.i + 1 \in 1..(Len(Vtx[job.block]) + 1) /\ job.i + 1 \in Nat
      BY SMT, <2>1, <2>2, VtxFacts
    <2>5. job' \in Jobs
      BY <2>2, <2>3, <2>4 DEF Jobs
    <2>6. QED  BY <2>1, <2>2, <2>3, <2>4, <2>5 DEF JobOK
  <1>8. CASE FinishDisconnect
    BY <1>2, <1>8 DEF FinishDisconnect, JobOK
  <1>9. CASE FlushStateToDisk
    BY <1>2, <1>9 DEF FlushStateToDisk, JobOK
  <1>10. QED  BY <1>3, <1>4, <1>5, <1>6, <1>7, <1>8, <1>9 DEF PoolStep

\* A transaction of the pool is none of the chain.
LEMMA NotSettled == ASSUME ChainInv PROVE pool.tx \cap Settled = {}
  <1>1. ASSUME NEW t \in pool.tx, t \in Settled PROVE FALSE
    <2>1. InsOf(t) \cap InsOf(t) = {}
      BY <1>1 DEF ChainInv, Apart
    <2>2. t \in Txids /\ CheckTransaction(t) /\ t \notin CoinBases
      BY <1>1 DEF ChainInv, Loose
    <2>3. QED  BY <2>1, <2>2, HasInput
  <1>2. QED  BY <1>1

\* What a transaction spends that AcceptToMemoryPool lets in: an output of the pool or of
\* the chain that the chain does not spend.
LEMMA AcceptedInput ==
    ASSUME ChainInv, job.kind # "connect", NEW t \in Txids, Accepts(t), NEW o \in InsOf(t)
    PROVE  /\ o[2] \in Spendable(o[1]) /\ o[1] \in Txids
           /\ o[1] \in pool.tx \cup ChainTxs(best)
           /\ o \notin Spent(ChainTxs(best))
  <1>1. o[1] \in Txids /\ o = <<o[1], o[2]>>
    BY InputIs
  <1>2. PICK k \in DOMAIN Ins[t] : Ins[t][k] = o
    BY InputIs
  <1>3. HaveInputs(ViewMemPool, t)
    BY DEF Accepts, CheckInputs
  <1>4. o[2] \in ViewMemPool[o[1]].vout
    BY <1>2, <1>3 DEF HaveInputs, IsAvailable
  <1>5. ViewMemPool[o[1]] = IF o[1] \in pool.tx THEN FromTx(o[1], MEMPOOL_HEIGHT) ELSE CoinsAt[best][o[1]]
    BY <1>1 DEF ViewMemPool
  <1>6. best \in Blocks /\ Orderly(best)
    BY AllOrderly DEF ChainInv, JobOK
  <1>7. CASE o[1] \in pool.tx
    <2>1. o[2] \in Spendable(o[1])
      BY <1>4, <1>5, <1>7, FromTxIs
    <2>2. o[1] \notin ChainTxs(best)
      BY <1>7, NotSettled DEF Settled
    <2>3. o \notin Spent(ChainTxs(best))
      BY <1>6, <2>2, SpentMade
    <2>4. QED  BY <1>1, <1>7, <2>1, <2>3
  <1>8. CASE o[1] \notin pool.tx
    <2>1. o[2] \in CoinsAt[best][o[1]].vout
      BY <1>4, <1>5, <1>8
    <2>2. CoinsAt[best][o[1]].vout =
             {n \in Spendable(o[1]) : /\ o[1] \in ChainTxs(best)
                                      /\ <<o[1], n>> \notin Spent(ChainTxs(best))}
      BY <1>1, <1>6, CoinsIs
    <2>3. QED  BY <1>1, <2>1, <2>2
  <1>9. QED  BY <1>7, <1>8

\* So the pool stays apart from the chain.
LEMMA AcceptedApart ==
    ASSUME ChainInv, job.kind # "connect", NEW t \in Txids, Accepts(t), pool' = addUnchecked(pool, t)
    PROVE  /\ pool'.tx = pool.tx \cup {t}
           /\ pool'.tx \subseteq Loose
           /\ \A u \in pool'.tx, s \in ChainTxs(best) : InsOf(u) \cap InsOf(s) = {}
  <1>1. pool'.tx = pool.tx \cup {t}
    BY DEF addUnchecked
  <1>2. t \in Loose
    BY DEF Accepts, Offered, Loose
  <1>3. \A s \in ChainTxs(best) : InsOf(t) \cap InsOf(s) = {}
    <2>1. \A o \in InsOf(t) : o \notin Spent(ChainTxs(best))
      BY AcceptedInput
    <2>2. QED  BY <2>1 DEF Spent
  <1>4. \A u \in pool.tx, s \in ChainTxs(best) : InsOf(u) \cap InsOf(s) = {}
    BY DEF ChainInv, Apart, Settled
  <1>5. QED  BY <1>1, <1>2, <1>3, <1>4 DEF ChainInv

\* remove with fRecursive.
LEMMA RemovedTx ==
    ASSUME NEW p, NEW S
    PROVE  removeRecursive(p, S).tx = p.tx \ Descendants(p, S)
  BY DEF removeRecursive, Without

\* When a block connects, the pool does not know of its transactions yet.
LEMMA ConnectSettled ==
    ASSUME NEW b \in Blocks, ConnectTip(b)
    PROVE  /\ b # Genesis /\ Parent[b] = best /\ best' = b /\ pool' = pool
           /\ job.kind = "idle" /\ job'.kind = "connect"
           /\ Settled = ChainTxs(best) /\ Settled' = Settled
  <1>1. b # Genesis /\ job = Idle /\ Parent[b] = best /\ best' = b /\ pool' = pool
        /\ job' = [kind |-> "connect", block |-> b, i |-> 1]
    BY DEF ConnectTip
  <1>2. job.kind = "idle" /\ job'.kind = "connect" /\ job'.i = 1
    BY <1>1 DEF Idle
  <1>3. Txs(b, 1, 1 - 1) = {}
    BY SMT DEF Txs
  <1>4. QED  BY SMT, <1>1, <1>2, <1>3 DEF Settled, ChainTxs, Txs

\* removeForBlock makes one transaction of the block known to the pool.
LEMMA ConfirmSettled ==
    ASSUME JobOK, removeForBlock
    PROVE  /\ best' = best /\ best \in Blocks \ {Genesis} /\ job.i \in DOMAIN Vtx[best]
           /\ job.kind = "connect" /\ job'.kind \in {"connect", "idle"}
           /\ pool' = Confirmed(pool, Vtx[best][job.i])
           /\ Settled' = Settled \cup {Vtx[best][job.i]}
  <1>1. job.kind = "connect" /\ best' = best /\ job.block = best /\ best \in Blocks \ {Genesis}
        /\ job.i \in DOMAIN Vtx[best] /\ job \in Jobs
    BY DEF removeForBlock, JobOK
  <1>2. pool' = Confirmed(pool, Vtx[best][job.i])
    BY <1>1 DEF removeForBlock
  <1>3. Settled = ChainTxs(Parent[best]) \cup Txs(best, 1, job.i - 1)
    BY <1>1 DEF Settled
  <1>4. Txs(best, 1, job.i) = Txs(best, 1, job.i - 1) \cup {Vtx[best][job.i]}
    <2>1. job.i \in Nat /\ job.i >= 1
      BY SMT, <1>1, VtxFacts
    <2>2. 1..job.i = (1..(job.i - 1)) \cup {job.i}
      BY SMT, <2>1
    <2>3. QED  BY <2>2 DEF Txs
  <1>5. Settled' = ChainTxs(Parent[best]) \cup Txs(best, 1, job.i) /\ job'.kind \in {"connect", "idle"}
    <2>1. CASE job.i < Len(Vtx[job.block])
      <3>1. job' = [kind |-> "connect", block |-> best, i |-> job.i + 1]
        BY <1>1, <2>1 DEF removeForBlock, Jobs
      <3>2. job'.kind = "connect" /\ job'.i - 1 = job.i
        BY SMT, <1>1, <3>1 DEF Jobs
      <3>3. QED  BY <1>1, <3>2 DEF Settled, ChainTxs, Txs
    <2>2. CASE ~(job.i < Len(Vtx[job.block]))
      <3>1. job.i = Len(Vtx[best])
        BY SMT, <1>1, <2>2, VtxFacts
      <3>2. Txs(best, 1, job.i) = Range(Vtx[best])
        BY <1>1, <3>1, VtxFacts
      <3>3. job'.kind = "idle"
        BY <2>2 DEF removeForBlock, Idle
      <3>4. Settled' = ChainTxs(best)
        BY <1>1, <3>3 DEF Settled, ChainTxs
      <3>5. QED  BY <1>1, <3>2, <3>3, <3>4, ChainTxsIs
    <2>3. QED  BY <2>1, <2>2
  <1>6. QED  BY <1>1, <1>2, <1>3, <1>4, <1>5

\* When the tip is disconnected its transactions are still to come back.
LEMMA DisconnectSettled ==
    ASSUME JobOK, DisconnectTip
    PROVE  /\ best \in Blocks \ {Genesis} /\ best' = Parent[best] /\ pool' = pool
           /\ job.kind = "idle" /\ job' = [kind |-> "disconnect", block |-> best, i |-> 1]
           /\ Settled' = Settled
  <1>1. job = Idle /\ best # Genesis /\ best' = Parent[best] /\ pool' = pool
        /\ job' = [kind |-> "disconnect", block |-> best, i |-> 1]
    BY DEF DisconnectTip
  <1>2. job.kind = "idle" /\ job'.kind = "disconnect" /\ job'.i = 1 /\ job'.block = best
    BY <1>1 DEF Idle
  <1>3. best \in Blocks \ {Genesis}
    BY <1>1 DEF JobOK
  <1>4. Settled' = ChainTxs(Parent[best]) \cup Txs(best, 1, Len(Vtx[best]))
    BY <1>1, <1>2 DEF Settled, ChainTxs, Txs
  <1>5. Settled = ChainTxs(best)
    BY <1>2 DEF Settled
  <1>6. Settled' = Settled
    BY <1>3, <1>4, <1>5, ChainTxsIs, VtxFacts
  <1>7. QED  BY <1>1, <1>2, <1>3, <1>6

\* A turn of the loop of DisconnectTip takes one of them from the chain.
LEMMA ResurrectSettled ==
    ASSUME JobOK, Resurrect
    PROVE  /\ job.kind = "disconnect" /\ job.block \in Blocks \ {Genesis} /\ best = Parent[job.block]
           /\ job.i \in DOMAIN Vtx[job.block] /\ DOMAIN Vtx[job.block] = 1..Len(Vtx[job.block])
           /\ Len(Vtx[job.block]) \in Nat
           /\ best' = best /\ job' = [kind |-> "disconnect", block |-> job.block, i |-> job.i + 1]
           /\ Settled' = ChainTxs(best) \cup Txs(job.block, job.i + 1, Len(Vtx[job.block]))
           /\ Settled = Settled' \cup {Vtx[job.block][job.i]}
  <1> DEFINE b == job.block
             t == Vtx[b][job.i]
  <1>1. job.kind = "disconnect" /\ job.i <= Len(Vtx[b]) /\ best' = best /\ job \in Jobs
        /\ b \in Blocks \ {Genesis} /\ best = Parent[b] /\ job.i \in 1..(Len(Vtx[b]) + 1)
        /\ job' = [job EXCEPT !.i = @ + 1]
    BY DEF Resurrect, JobOK, Jobs
  <1>2. job.i \in DOMAIN Vtx[b] /\ job.i \in Nat /\ Len(Vtx[b]) \in Nat /\ DOMAIN Vtx[b] = 1..Len(Vtx[b])
    BY SMT, <1>1, VtxFacts
  <1>3. job' = [kind |-> "disconnect", block |-> b, i |-> job.i + 1]
    BY <1>1 DEF Jobs
  <1>4. Settled = ChainTxs(best) \cup Txs(b, job.i, Len(Vtx[b]))
    BY <1>1 DEF Settled
  <1> HIDE DEF b, t
  <1>5. Settled' = ChainTxs(best) \cup Txs(b, job.i + 1, Len(Vtx[b]))
    <2>1. job'.kind = "disconnect" /\ job'.block = b /\ job'.i = job.i + 1
      BY <1>3
    <2>2. QED  BY <1>1, <2>1 DEF Settled, ChainTxs, Txs
  <1>6. Txs(b, job.i, Len(Vtx[b])) = Txs(b, job.i + 1, Len(Vtx[b])) \cup {t}
    <2>1. job.i..Len(Vtx[b]) = ((job.i + 1)..Len(Vtx[b])) \cup {job.i}
      BY SMT, <1>2
    <2>2. QED  BY <2>1 DEF Txs, t
  <1>7. QED  BY <1>1, <1>2, <1>3, <1>4, <1>5, <1>6 DEF b, t

\* At the end of DisconnectTip all of them have left it.
LEMMA FinishSettled ==
    ASSUME JobOK, FinishDisconnect
    PROVE  /\ job.kind = "disconnect" /\ job.block \in Blocks \ {Genesis} /\ best = Parent[job.block]
           /\ job.i = Len(Vtx[job.block]) + 1
           /\ best' = best /\ job'.kind = "idle" /\ pool' = removeRecursive(pool, Immature(pool))
           /\ Settled = ChainTxs(best) /\ Settled' = Settled
  <1>1. job.kind = "disconnect" /\ job' = Idle /\ best' = best
        /\ pool' = removeRecursive(pool, Immature(pool)) /\ job.i > Len(Vtx[job.block])
    BY DEF FinishDisconnect, removeCoinbaseSpends
  <1>2. job.block \in Blocks \ {Genesis} /\ best = Parent[job.block]
        /\ job.i \in 1..(Len(Vtx[job.block]) + 1)
    BY <1>1 DEF JobOK, Jobs
  <1>3. job.i = Len(Vtx[job.block]) + 1 /\ Txs(job.block, job.i, Len(Vtx[job.block])) = {}
    BY SMT, <1>1, <1>2, VtxFacts DEF Txs
  <1>4. job'.kind = "idle"
    BY <1>1 DEF Idle
  <1>5. Settled = ChainTxs(best) /\ Settled' = ChainTxs(best)
    BY <1>1, <1>3, <1>4 DEF Settled, ChainTxs
  <1>6. QED  BY <1>1, <1>2, <1>3, <1>4, <1>5

\* Each step of the chain and of the wallet keeps the pool apart from the chain.
LEMMA PoolStepApart ==
    ASSUME PoolOK(pool), ChainInv, PoolStep
    PROVE  pool'.tx \subseteq Loose /\ Apart(Settled)'
  <1>1. JobOK /\ pool.tx \subseteq Loose /\ Apart(Settled)
    BY DEF ChainInv
  <1>2. ASSUME pool'.tx \subseteq pool.tx, Settled' \subseteq Settled
        PROVE  pool'.tx \subseteq Loose /\ Apart(Settled)'
    BY <1>1, <1>2 DEF Apart
  <1>3. ASSUME NEW t \in Txids, AcceptToMemoryPool(t) PROVE pool'.tx \subseteq Loose /\ Apart(Settled)'
    <2>1. job = Idle /\ job' = job /\ best' = best /\ Accepts(t) /\ pool' = addUnchecked(pool, t)
      BY <1>3 DEF AcceptToMemoryPool
    <2>2. job.kind = "idle"
      BY <2>1 DEF Idle
    <2>3. Settled' = ChainTxs(best)
      BY <2>1, <2>2 DEF Settled, ChainTxs
    <2>4. QED  BY <2>1, <2>2, <2>3, AcceptedApart DEF Apart
  <1>4. ASSUME NEW b \in Blocks, ConnectTip(b) PROVE pool'.tx \subseteq Loose /\ Apart(Settled)'
    BY <1>2, <1>4, ConnectSettled
  <1>5. CASE removeForBlock
    <2> DEFINE x == Vtx[best][job.i]
    <2>1. pool' = Confirmed(pool, x) /\ Settled' = Settled \cup {x}
      BY <1>1, <1>5, ConfirmSettled
    <2> HIDE DEF x
    <2>2. pool'.tx \subseteq pool.tx /\ \A t \in pool'.tx : InsOf(t) \cap InsOf(x) = {}
      BY <2>1, ConfirmedClears
    <2>3. QED  BY <1>1, <2>1, <2>2 DEF Apart
  <1>6. CASE DisconnectTip
    BY <1>1, <1>2, <1>6, DisconnectSettled
  <1>7. CASE Resurrect
    <2> DEFINE b == job.block
               t == Vtx[b][job.i]
    <2>1. /\ job.kind = "disconnect" /\ b \in Blocks \ {Genesis} /\ best = Parent[b]
          /\ job.i \in DOMAIN Vtx[b] /\ DOMAIN Vtx[b] = 1..Len(Vtx[b]) /\ Len(Vtx[b]) \in Nat
          /\ Settled' = ChainTxs(best) \cup Txs(b, job.i + 1, Len(Vtx[b])) /\ Settled' \subseteq Settled
      BY <1>1, <1>7, ResurrectSettled
    <2>2. (pool' = addUnchecked(pool, t) /\ Accepts(t)) \/ pool' = removeRecursive(pool, {t})
      BY <1>7 DEF Resurrect
    <2> HIDE DEF b, t
    <2>3. CASE pool' = removeRecursive(pool, {t})
      <3>1. pool'.tx \subseteq pool.tx
        BY <2>3, RemovedTx
      <3>2. QED  BY <1>2, <2>1, <3>1
    <2>4. CASE pool' = addUnchecked(pool, t) /\ Accepts(t)
      <3>1. t \in Txids
        BY <2>1, BlockTx DEF t
      <3>2. /\ pool'.tx = pool.tx \cup {t} /\ pool'.tx \subseteq Loose
            /\ \A u \in pool'.tx, s \in ChainTxs(best) : InsOf(u) \cap InsOf(s) = {}
        BY <2>1, <2>4, <3>1, AcceptedApart
      <3>3. Orderly(Parent[b])
        BY <2>1, HeightFacts, AllOrderly
      <3>4. \A s \in Txs(b, job.i + 1, Len(Vtx[b])) : InsOf(t) \cap InsOf(s) = {}
        <4>1. \A k \in (job.i + 1)..Len(Vtx[b]) : k \in DOMAIN Vtx[b] /\ k # job.i
          BY SMT, <2>1
        <4>2. QED  BY <2>1, <3>3, <4>1, NotSpentAgain DEF Txs, t
      <3>5. \A u \in pool.tx, s \in Settled' : InsOf(u) \cap InsOf(s) = {}
        BY <1>1, <2>1 DEF Apart
      <3>6. QED  BY <2>1, <3>2, <3>4, <3>5 DEF Apart
    <2>5. QED  BY <2>2, <2>3, <2>4
  <1>8. CASE FinishDisconnect
    <2>1. pool'.tx \subseteq pool.tx
      BY SMT, <1>1, <1>8, FinishSettled, RemovedTx
    <2>2. QED  BY <1>1, <1>2, <1>8, <2>1, FinishSettled
  <1>9. CASE FlushStateToDisk
    <2>1. pool' = pool /\ job' = job /\ best' = best
      BY <1>9 DEF FlushStateToDisk
    <2>2. Settled' = Settled
      BY <2>1 DEF Settled, ChainTxs, Txs
    <2>3. QED  BY <1>2, <2>1, <2>2
  <1>10. QED  BY <1>3, <1>4, <1>5, <1>6, <1>7, <1>8, <1>9 DEF PoolStep

\* A message that a peer sent, while no job is in progress.
LEMMA IdleStep ==
    ASSUME ChainInv, job = Idle, UNCHANGED <<best, disk, job>>,
           pool' = pool \/ \E t \in Txids : Accepts(t) /\ pool' = addUnchecked(pool, t)
    PROVE  ChainInv'
  <1>1. JobOK' /\ Quiet'
    BY DEF ChainInv, JobOK, Quiet
  <1>2. job.kind = "idle"
    BY DEF Idle
  <1>3. Settled' = Settled /\ Settled = ChainTxs(best)
    BY <1>2 DEF Settled, ChainTxs, Txs
  <1>4. pool'.tx \subseteq Loose /\ Apart(Settled)'
    <2>1. CASE pool' = pool
      BY <1>3, <2>1 DEF ChainInv, Apart
    <2>2. ASSUME NEW t \in Txids, Accepts(t), pool' = addUnchecked(pool, t)
          PROVE  pool'.tx \subseteq Loose /\ Apart(Settled)'
      BY <1>2, <1>3, <2>2, AcceptedApart DEF Apart
    <2>3. QED  BY <2>1, <2>2
  <1>5. QED  BY <1>1, <1>4 DEF ChainInv

\* The node starts with an empty pool.
LEMMA EmptyApart ==
    ASSUME best' \in Blocks, disk' \in Blocks, job' = Idle, pool' = EmptyPool
    PROVE  ChainInv'
  <1>1. Idle \in Jobs /\ Idle.kind = "idle" /\ EmptyPool.tx = {}
    BY BlockAssumption DEF Idle, Jobs, EmptyPool
  <1>2. JobOK' /\ Quiet'
    BY <1>1 DEF JobOK, Quiet
  <1>3. QED  BY <1>1, <1>2 DEF ChainInv, Apart

\* So it is when the node starts for the first time.
LEMMA InitChain == RelayInit => ChainInv
  <1> SUFFICES ASSUME RelayInit PROVE ChainInv
    OBVIOUS
  <1>1. best = Genesis /\ disk = Genesis /\ job = Idle /\ pool = EmptyPool
    BY DEF RelayInit, PoolInit
  <1>2. Idle \in Jobs /\ Idle.kind = "idle" /\ EmptyPool.tx = {}
    BY BlockAssumption DEF Idle, Jobs, EmptyPool
  <1>3. JobOK /\ Quiet
    BY <1>1, <1>2, BlockAssumption DEF JobOK, Quiet
  <1>4. QED  BY <1>1, <1>2, <1>3 DEF ChainInv, Apart

\* One clause for each action.
LEMMA StepChain == ASSUME IInv, ChainInv, [RelayNext]_allVars PROVE ChainInv'
  <1>1. ASSUME UNCHANGED poolVars, relay' = relay \/ relay' = Waiting PROVE ChainInv'
    <2>1. UNCHANGED <<best, disk, pool, job>>
      BY <1>1 DEF poolVars
    <2>2. JobOK' /\ Quiet'
      BY <1>1, <2>1 DEF ChainInv, JobOK, Quiet
    <2>3. Settled' = Settled
      BY <2>1 DEF Settled, ChainTxs, Txs
    <2>4. QED  BY <2>1, <2>2, <2>3 DEF ChainInv, Apart
  <1>2. CASE UNCHANGED allVars
    BY <1>1, <1>2 DEF allVars, relayVars
  <1>3. CASE ChainAndWallet
    <2>1. PoolStep /\ relay' = Waiting /\ PoolOK(pool)
      BY <1>3 DEF ChainAndWallet, relayVars, IInv
    <2>2. JobOK'
      BY <2>1, PoolStepJob DEF ChainInv
    <2>3. QED  BY <2>1, <2>2, PoolStepApart DEF ChainInv, Quiet
  <1>4. ASSUME NEW p \in Peers, InitializeNode(p) \/ FinalizeNode(p) PROVE ChainInv'
    BY <1>1, <1>4 DEF InitializeNode, FinalizeNode
  <1>5. ASSUME NEW p \in Peers, NEW t \in Txids, StoreOrphan(p, t) PROVE ChainInv'
    BY <1>1, <1>5 DEF StoreOrphan
  <1>6. ASSUME NEW p \in Peers, NEW t \in Txids, NEW full \in BOOLEAN, AcceptTx(p, t, full)
        PROVE  ChainInv'
    BY <1>6, IdleStep DEF AcceptTx, MainFree, Admits
  <1>7. ASSUME NEW t \in Txids, NEW full \in BOOLEAN, ProcessOrphan(t, full) PROVE ChainInv'
    <2>1. relay # Waiting
      BY SMT, <1>7 DEF ProcessOrphan, Waiting
    <2>2. job = Idle
      BY <2>1 DEF ChainInv, Quiet
    <2>3. UNCHANGED <<best, disk, job>> /\ (pool' = pool \/ (Accepts(t) /\ pool' = addUnchecked(pool, t)))
      BY <1>7 DEF ProcessOrphan, Admits
    <2>4. QED  BY <2>2, <2>3, IdleStep
  <1>8. CASE NextInQueue
    <2>1. relay # Waiting
      BY SMT, <1>8 DEF NextInQueue, Waiting
    <2>2. job = Idle
      BY <2>1 DEF ChainInv, Quiet
    <2>3. QED  BY <1>8, <2>2, IdleStep DEF NextInQueue, poolVars
  <1>9. CASE FinishTx
    BY <1>1, <1>9 DEF FinishTx
  <1>10. CASE Restart
    BY <1>10, EmptyApart DEF Restart, Crash, ChainInv, JobOK
  <1>11. QED
    BY SMT, <1>2, <1>3, <1>4, <1>5, <1>6, <1>7, <1>8, <1>9, <1>10 DEF RelayNext, Messages, Handler

\* The pool is apart from the chain in every state.
THEOREM ChainInvariance == RelaySpec => [](IInv /\ ChainInv)
  <1>1. RelayInit => IInv /\ ChainInv
    BY InitInv, InitChain
  <1>2. IInv /\ ChainInv /\ [RelayNext]_allVars => (IInv /\ ChainInv)'
    BY StepInv, StepChain
  <1>3. QED  BY <1>1, <1>2, PTL DEF RelaySpec

\* CCoinsViewMemPool may answer from the pool first: the chain never has coins of a
\* transaction that is in the pool, whatever blocks connect and disconnect.
THEOREM PoolNeverConfirmed == RelaySpec => []NeverConfirmed
  <1>1. ASSUME ChainInv PROVE NeverConfirmed
    <2>1. SUFFICES ASSUME job = Idle, NEW t \in pool.tx PROVE IsPruned(CoinsAt[best][t])
      BY DEF NeverConfirmed
    <2>2. t \notin ChainTxs(best)
      BY <1>1, <2>1, NotSettled DEF Settled, Idle
    <2>3. best \in Blocks /\ Orderly(best) /\ t \in Txids
      BY <1>1, <2>1, AllOrderly DEF ChainInv, JobOK, Loose
    <2>4. CoinsAt[best][t].vout =
             {n \in Spendable(t) : t \in ChainTxs(best) /\ <<t, n>> \notin Spent(ChainTxs(best))}
      BY <2>3, CoinsIs
    <2>5. QED  BY <2>2, <2>4 DEF IsPruned
  <1>2. QED  BY ChainInvariance, <1>1, PTL

\* What removeForBlock drives out with the conflicts of a transaction of the block is not
\* in the chain: what spends from a transaction that is not confirmed is not either.
LEMMA EvictedUnconfirmed ==
    ASSUME NEW b \in Blocks, NEW x \in ChainTxs(b), NEW q, PoolOK(q), x \notin q.tx
    PROVE  Descendants(q, Conflicts(q, x)) \cap ChainTxs(b) = {}
  <1> DEFINE D == Descendants(q, Conflicts(q, x))
             E == D \ ChainTxs(b)
  <1>1. Orderly(b)
    BY AllOrderly
  <1>2. D \subseteq q.tx /\ Closed(q, Conflicts(q, x), D)
    BY DescendantsClosed
  <1>3. ASSUME NEW t \in Conflicts(q, x) \cap q.tx PROVE t \in E
    <2>1. t \in D /\ t # x
      BY <1>2, <1>3 DEF Closed
    <2>2. PICK o \in InsOf(x) \cap DOMAIN q.next : q.next[o] = t
      BY <1>3 DEF Conflicts
    <2>3. o \in InsOf(t)
      BY SMT, <2>2 DEF PoolOK
    <2>4. t \notin ChainTxs(b)
      BY <1>1, <2>1, <2>2, <2>3 DEF Orderly, SpentOnce
    <2>5. QED  BY <2>1, <2>4
  <1>4. ASSUME NEW d \in E, NEW t \in Spenders(q, d) \cap q.tx PROVE t \in E
    <2>1. t \in D
      BY <1>2, <1>4 DEF Closed
    <2>2. PICK o \in InsOf(t) : o[1] = d
      BY SMT, <1>4, SpendersAre
    <2>3. ASSUME t \in ChainTxs(b) PROVE FALSE
      <3>1. o \in Spent(ChainTxs(b))
        BY <2>2, <2>3 DEF Spent
      <3>2. QED  BY <1>1, <1>4, <2>2, <3>1, SpentMade
    <2>4. QED  BY <2>1, <2>3
  <1>5. Closed(q, Conflicts(q, x), E)
    BY <1>3, <1>4 DEF Closed
  <1>6. D \subseteq E
    BY <1>2, <1>5, DescendantsClosed
  <1>7. QED  BY <1>6

\* A turn of removeForBlock drives out only what the block confirms and what can not be
\* mined any more.
LEMMA DeadEvicted ==
    ASSUME IInv, ChainInv, removeForBlock, NEW t \in pool.tx \ pool'.tx
    PROVE  t \in Range(Vtx[job.block]) \/ ~HaveInputs(ViewMemPool', t)
  <1> DEFINE b == best
             x == Vtx[b][job.i]
             q == remove(pool, x)
             D == Descendants(q, Conflicts(q, x))
  <1>1. /\ job.kind = "connect" /\ job.block = b /\ b \in Blocks \ {Genesis} /\ best' = b
        /\ job.i \in DOMAIN Vtx[b] /\ pool' = Confirmed(pool, x)
    BY DEF removeForBlock, ChainInv, JobOK
  <1>2. x \in Range(Vtx[b]) /\ ChainTxs(b) = ChainTxs(Parent[b]) \cup Range(Vtx[b])
    BY <1>1, ChainTxsIs DEF Range
  <1>3. PoolOK(q) /\ q.tx = pool.tx \ {x} /\ PoolOK(pool)
    <2>1. q.tx = pool.tx \ ({x} \cap pool.tx)
      BY DEF remove, Without
    <2>2. PoolOK(q) /\ PoolOK(pool)
      BY WithoutOK DEF IInv, remove
    <2>3. QED  BY <2>1, <2>2
  <1>4. pool'.tx = q.tx \ D
    BY <1>1 DEF Confirmed, removeConflicts, removeRecursive, Without
  <1> HIDE DEF q, x, b
  <1>5. SUFFICES ASSUME t \in D PROVE ~HaveInputs(ViewMemPool', t)
    BY <1>1, <1>2, <1>3, <1>4
  <1>6. t \in Txids
    BY DEF ChainInv, Loose
  <1>7. Orderly(b)
    BY <1>1, AllOrderly
  <1>8. SUFFICES \E o \in InsOf(t) : o[1] \notin pool'.tx /\ o[2] \notin CoinsAt[b][o[1]].vout
    <2>1. PICK o \in InsOf(t) : o[1] \notin pool'.tx /\ o[2] \notin CoinsAt[b][o[1]].vout
      BY <1>8
    <2>2. o[1] \in Txids
      BY <1>6, InputIs
    <2>3. PICK k \in DOMAIN Ins[t] : Ins[t][k] = o
      BY <1>6, InputIs
    <2>4. ViewMemPool'[o[1]] = CoinsAt[b][o[1]]
      BY <1>1, <2>1, <2>2 DEF ViewMemPool
    <2>5. QED  BY <2>1, <2>3, <2>4 DEF HaveInputs, IsAvailable
  <1>9. \A u \in Txids : CoinsAt[b][u].vout =
           {n \in Spendable(u) : u \in ChainTxs(b) /\ <<u, n>> \notin Spent(ChainTxs(b))}
    BY <1>1, <1>7, CoinsIs
  <1>10. CASE t \in Conflicts(q, x)
    <2>1. PICK o \in InsOf(x) \cap DOMAIN q.next : q.next[o] = t
      BY <1>10 DEF Conflicts
    <2>2. o \in InsOf(t)
      BY SMT, <1>3, <2>1 DEF PoolOK
    <2>3. o \in Spent(ChainTxs(b)) /\ o[1] \in Txids /\ o = <<o[1], o[2]>>
      BY <1>2, <1>6, <2>1, <2>2, InputIs DEF Spent
    <2>4. o[2] \notin CoinsAt[b][o[1]].vout
      BY SMT, <1>9, <2>3
    <2>5. o[1] \in Settled
      <3>1. Orderly(Parent[b])
        BY <1>1, HeightFacts, AllOrderly
      <3>2. (\E j \in 1..(job.i - 1) : Vtx[b][j] = o[1]) \/ o[1] \in ChainTxs(Parent[b])
        BY <1>1, <2>1, <3>1, NewInput DEF x
      <3>3. Settled = ChainTxs(Parent[b]) \cup Txs(b, 1, job.i - 1)
        BY <1>1 DEF Settled, b
      <3>4. QED  BY <3>2, <3>3 DEF Txs
    <2>6. o[1] \notin pool'.tx
      BY <1>3, <1>4, <2>5, NotSettled
    <2>7. QED  BY <2>2, <2>4, <2>6
  <1>11. CASE t \notin Conflicts(q, x)
    <2>1. PICK u \in D : t \in Spenders(q, u)
      BY <1>5, <1>11, DescendantsCause
    <2>2. PICK o \in InsOf(t) : o[1] = u
      BY SMT, <1>3, <2>1, SpendersAre
    <2>3. D \cap ChainTxs(b) = {}
      BY <1>1, <1>2, <1>3, EvictedUnconfirmed
    <2>4. o[1] \notin pool'.tx /\ o[1] \notin ChainTxs(b) /\ o[1] \in Txids
      BY <1>4, <1>6, <2>1, <2>2, <2>3, InputIs
    <2>5. o[2] \notin CoinsAt[b][o[1]].vout
      BY <1>9, <2>4
    <2>6. QED  BY <2>2, <2>4, <2>5
  <1>12. QED  BY <1>10, <1>11

\* When a block connects, removeForBlock (txmempool.cpp) takes from the pool only what
\* the block confirms and what no block on top of it can confirm.
THEOREM EvictedAreDead == RelaySpec => OnlyDeadEvicted
  <1>1. ASSUME IInv, ChainInv, [RelayNext]_allVars
        PROVE  [removeForBlock =>
                  \A t \in pool.tx \ pool'.tx :
                     t \in Range(Vtx[job.block]) \/ ~HaveInputs(ViewMemPool', t)]_poolVars
    BY <1>1, DeadEvicted
  <1>2. QED  BY ChainInvariance, <1>1, PTL DEF RelaySpec, OnlyDeadEvicted

--------------------------------------------------------------------------------
(* What the pool spends *)

\* The height in which a spend of a coinbase must be mature: that of the next block, or of
\* the block being disconnected until removeCoinbaseSpends has run.
Reach == Height(best) + (IF job.kind = "disconnect" THEN 2 ELSE 1)

\* An input of the pool is an output of the pool or of the chain as the pool knows it.
Grounded == \A t \in pool.tx : \A o \in InsOf(t) : o[2] \in Spendable(o[1]) /\ o[1] \in pool.tx \cup Settled

\* Outpoint o is not of a coinbase, or of one of the chain that is mature at height h.
RipeAt(o, h) ==
    o[1] \in CoinBases =>
        \E c \in Chain[best] \ {Genesis} : o[1] \in Range(Vtx[c]) /\ h - Height(c) >= Maturity

Ripe == \A t \in pool.tx : \A o \in InsOf(t) : RipeAt(o, Reach)

\* The transactions of the block that is disconnected are in the pool as far as the loop is.
Returned == job.kind = "disconnect" => Txs(job.block, 1, job.i - 1) \ CoinBases \subseteq pool.tx

Funded == \A t \in pool.tx : MoneyRange(GetValueIn(t)) /\ GetValueIn(t) >= GetValueOut(t)

GroundInv == Grounded /\ Ripe /\ Returned /\ Funded

\* The coins of an output that the chain made and does not spend.
LEMMA CoinOf ==
    ASSUME NEW b \in Blocks, NEW t \in Txids, NEW n \in Spendable(t), <<t, n>> \notin Spent(ChainTxs(b)),
           NEW c \in Chain[b] \ {Genesis}, t \in Range(Vtx[c])
    PROVE  /\ n \in CoinsAt[b][t].vout
           /\ CoinsAt[b][t].height = Height(c)
           /\ CoinsAt[b][t].coinbase = (t \in CoinBases)
  <1>1. Orderly(b)
    BY AllOrderly
  <1>2. t \in ChainTxs(b)
    BY DEF ChainTxs
  <1>3. CoinsAt[b][t].vout =
           {m \in Spendable(t) : t \in ChainTxs(b) /\ <<t, m>> \notin Spent(ChainTxs(b))}
    BY <1>1, CoinsIs
  <1>4. n \in CoinsAt[b][t].vout
    BY <1>2, <1>3
  <1>5. ~IsPruned(CoinsAt[b][t])
    BY <1>4 DEF IsPruned
  <1>6. QED  BY <1>1, <1>4, <1>5, CoinsIs

\* A transaction that AcceptToMemoryPool lets in spends mature outputs, and enough.
LEMMA AcceptedRipe ==
    ASSUME ChainInv, job.kind # "connect", NEW t \in Txids, Accepts(t)
    PROVE  /\ \A o \in InsOf(t) : RipeAt(o, Height(best) + 1)
           /\ MoneyRange(GetValueIn(t)) /\ GetValueIn(t) >= GetValueOut(t)
  <1>1. /\ \A k \in DOMAIN Ins[t] :
              ViewMemPool[Ins[t][k][1]].coinbase =>
                 (Height(best) + 1) - ViewMemPool[Ins[t][k][1]].height >= Maturity
        /\ MoneyRange(GetValueIn(t)) /\ GetValueIn(t) >= GetValueOut(t)
    <2>1. CheckInputs(ViewMemPool, t, Height(best) + 1, Maturity)
      BY DEF Accepts
    <2>2. QED  BY <2>1 DEF CheckInputs
  <1>2. ASSUME NEW o \in InsOf(t), o[1] \in CoinBases
        PROVE  \E c \in Chain[best] \ {Genesis} :
                  o[1] \in Range(Vtx[c]) /\ (Height(best) + 1) - Height(c) >= Maturity
    <2>1. /\ o[2] \in Spendable(o[1]) /\ o[1] \in Txids /\ o[1] \in pool.tx \cup ChainTxs(best)
          /\ o \notin Spent(ChainTxs(best))
      BY <1>2, AcceptedInput
    <2>2. <<o[1], o[2]>> \notin Spent(ChainTxs(best))
      BY SMT, <1>2, <2>1, InputIs
    <2>3. o[1] \notin pool.tx /\ best \in Blocks
      BY <1>2 DEF ChainInv, Loose, JobOK
    <2>4. PICK c \in Chain[best] \ {Genesis} : o[1] \in Range(Vtx[c])
      BY <2>1, <2>3 DEF ChainTxs
    <2>5. CoinsAt[best][o[1]].height = Height(c) /\ CoinsAt[best][o[1]].coinbase
      BY <1>2, <2>1, <2>2, <2>3, <2>4, CoinOf
    <2>6. ViewMemPool[o[1]] = CoinsAt[best][o[1]]
      BY <2>1, <2>3 DEF ViewMemPool
    <2>7. PICK k \in DOMAIN Ins[t] : Ins[t][k] = o
      BY <1>2, InputIs
    <2>8. ViewMemPool[o[1]].coinbase => (Height(best) + 1) - ViewMemPool[o[1]].height >= Maturity
      BY <1>1, <2>7
    <2>9. QED  BY <2>4, <2>5, <2>6, <2>8
  <1>3. \A o \in InsOf(t) : RipeAt(o, Height(best) + 1)
    BY <1>2 DEF RipeAt
  <1>4. QED  BY <1>1, <1>3

\* What is left when remove has taken a transaction and all that spends from it does not
\* spend from what went.
LEMMA RemovedGrounded ==
    ASSUME NEW p, PoolOK(p), NEW S, NEW K,
           \A t \in p.tx : \A o \in InsOf(t) : o[2] \in Spendable(o[1]) /\ o[1] \in p.tx \cup K
    PROVE  \A t \in removeRecursive(p, S).tx : \A o \in InsOf(t) :
              o[2] \in Spendable(o[1]) /\ o[1] \in removeRecursive(p, S).tx \cup K
  <1> DEFINE D == Descendants(p, S)
  <1>1. removeRecursive(p, S).tx = p.tx \ D
    BY RemovedTx
  <1>2. ASSUME NEW t \in p.tx \ D, NEW o \in InsOf(t), o[1] \in D PROVE FALSE
    <2>1. o[2] \in DOMAIN Outs[o[1]]
      BY <1>2 DEF Spendable
    <2>2. t \in Spenders(p, o[1])
      BY SMT, <1>2, <2>1, SpendersAre
    <2>3. QED  BY SMT, <1>2, <2>2, DescendantsClosed DEF Closed
  <1>3. QED  BY <1>1, <1>2

\* What a transaction of a block spends is mature there: nothing spends from the coinbase
\* of its own block.
LEMMA BlockMature ==
    ASSUME NEW b \in Blocks \ {Genesis}, NEW k \in DOMAIN Vtx[b], NEW o \in InsOf(Vtx[b][k])
    PROVE  \/ /\ o[2] \in Spendable(o[1]) /\ o[1] \notin CoinBases
              /\ \E j \in 1..(k - 1) : Vtx[b][j] = o[1]
           \/ /\ o[2] \in CoinsAt[Parent[b]][o[1]].vout
              /\ CoinsAt[Parent[b]][o[1]].coinbase =>
                    Height(b) - CoinsAt[Parent[b]][o[1]].height >= Maturity
  <1> DEFINE t == Vtx[b][k]
             made == \E j \in 1..(k - 1) : Vtx[b][j] = o[1]
             c == IF made THEN FromTx(o[1], Height(b)) ELSE CoinsAt[Parent[b]][o[1]]
  <1>1. t \in Txids /\ o[1] \in Txids /\ k # 1
    BY BlockTx, BlockInput
  <1>2. PICK m \in DOMAIN Ins[t] : Ins[t][m] = o
    BY <1>1, InputIs
  <1>3. CheckInputs(ViewOfBlock(b, k), t, Height(b), Maturity)
    BY <1>1, BlockChecked
  <1>4. ViewOfBlock(b, k)[o[1]].coinbase => Height(b) - ViewOfBlock(b, k)[o[1]].height >= Maturity
    BY <1>2, <1>3 DEF CheckInputs
  <1>5. ViewOfBlock(b, k)[o[1]].height = c.height /\ ViewOfBlock(b, k)[o[1]].coinbase = c.coinbase
    BY <1>1 DEF ViewOfBlock
  <1> HIDE DEF t
  <1>6. CASE made
    <2>1. o[2] \in Spendable(o[1])
      BY <1>6, BlockInput
    <2>2. FromTx(o[1], Height(b)) =
             [vout |-> Spendable(o[1]), height |-> Height(b), coinbase |-> o[1] \in CoinBases]
      BY <2>1, FromTxIs
    <2>3. c.height = Height(b) /\ c.coinbase = (o[1] \in CoinBases)
      BY SMT, <1>6, <2>2
    <2> HIDE DEF made, c
    <2>4. Height(b) \in Nat /\ Maturity \in Nat \ {0, 1}
      BY HeightFacts, PoolAssumption
    <2>5. ~ ViewOfBlock(b, k)[o[1]].coinbase
      BY SMT, <1>4, <1>5, <2>3, <2>4
    <2>6. o[1] \notin CoinBases
      BY <1>5, <2>3, <2>5
    <2>7. QED  BY <1>6, <2>1, <2>6 DEF made
  <1>7. CASE ~made
    <2>1. o[2] \in CoinsAt[Parent[b]][o[1]].vout
      BY <1>7, BlockInput
    <2>2. c = CoinsAt[Parent[b]][o[1]]
      BY <1>7
    <2> HIDE DEF made, c
    <2>3. QED  BY <1>4, <1>5, <2>1, <2>2
  <1>8. QED  BY <1>6, <1>7

\* AcceptToMemoryPool lets in again what a block that is disconnected confirmed: nothing
\* in the pool spends what it spends, and what it spends is in the chain or came back before it.
LEMMA AcceptedAgain ==
    ASSUME Relayable, PoolOK(pool), ChainInv, Returned, job.kind = "disconnect",
           job.i \in DOMAIN Vtx[job.block], job.i # 1
    PROVE  Accepts(Vtx[job.block][job.i])
  <1> DEFINE b == job.block
             k == job.i
             t == Vtx[b][k]
  <1>1. b \in Blocks \ {Genesis} /\ best = Parent[b] /\ best \in Blocks
    BY DEF ChainInv, JobOK, Jobs
  <1>2. /\ t \in Txids /\ CheckTransaction(t) /\ IsFinalTx(t, Height(b)) /\ t \notin BadScript
        /\ IsPruned(CoinsAt[best][t]) /\ t \notin CoinBases
    BY <1>1, BlockTx
  <1>3. DOMAIN Vtx[b] = 1..Len(Vtx[b]) /\ Len(Vtx[b]) \in Nat /\ k \in Nat
    BY SMT, <1>1, VtxFacts
  <1>4. Height(b) = Height(best) + 1 /\ Height(best) \in Nat
    BY <1>1, HeightFacts
  <1>5. t \in Standard /\ t \in Wanted
    <2>1. t \in Range(Vtx[b])
      BY DEF Range
    <2>2. QED  BY <1>1, <1>2, <2>1 DEF Relayable
  <1>6. Settled = ChainTxs(best) \cup Txs(b, k, Len(Vtx[b]))
    BY DEF Settled
  <1>7. t \in Settled
    BY SMT, <1>3, <1>6 DEF Txs
  <1>8. t \notin pool.tx /\ InsOf(t) \cap DOMAIN pool.next = {}
    <2>1. t \notin pool.tx
      BY <1>7, NotSettled
    <2>2. \A u \in pool.tx : InsOf(u) \cap InsOf(t) = {}
      BY <1>7 DEF ChainInv, Apart
    <2>3. QED  BY SMT, <2>1, <2>2 DEF PoolOK
  <1>9. IsFinalTx(t, ActiveHeight + 1)
    <2>1. ActiveHeight = Height(b)
      BY DEF ActiveHeight
    <2>2. LockTime[t] \in Nat
      BY <1>2, PoolAssumption
    <2>3. QED  BY SMT, <1>2, <1>4, <2>1, <2>2 DEF IsFinalTx
  <1>10. IsPruned(ViewMemPool[t])
    BY <1>2, <1>8 DEF ViewMemPool
  <1> HIDE DEF t, b, k
  <1>11. ASSUME NEW o \in InsOf(t)
         PROVE  /\ o[2] \in ViewMemPool[o[1]].vout
                /\ ViewMemPool[o[1]].coinbase => (Height(best) + 1) - ViewMemPool[o[1]].height >= Maturity
    <2>1. o[1] \in Txids
      BY <1>2, InputIs
    <2>2. \/ /\ o[2] \in Spendable(o[1]) /\ o[1] \notin CoinBases
             /\ \E j \in 1..(k - 1) : Vtx[b][j] = o[1]
          \/ /\ o[2] \in CoinsAt[best][o[1]].vout
             /\ CoinsAt[best][o[1]].coinbase => Height(b) - CoinsAt[best][o[1]].height >= Maturity
      BY <1>1, <1>11, BlockMature DEF t, b, k
    <2>3. ViewMemPool[o[1]] = IF o[1] \in pool.tx THEN FromTx(o[1], MEMPOOL_HEIGHT) ELSE CoinsAt[best][o[1]]
      BY <2>1 DEF ViewMemPool
    <2>4. CASE o[1] \in pool.tx
      <3>1. o[2] \in Spendable(o[1]) /\ o[1] \notin CoinBases
        <4>1. o[1] \notin CoinBases
          BY <2>4 DEF ChainInv, Loose
        <4>2. Orderly(best)
          BY <1>1, AllOrderly
        <4>3. o[2] \in CoinsAt[best][o[1]].vout => o[2] \in Spendable(o[1])
          BY <1>1, <2>1, <4>2, CoinsIs
        <4>4. QED  BY <2>2, <4>1, <4>3
      <3>2. FromTx(o[1], MEMPOOL_HEIGHT) =
               [vout |-> Spendable(o[1]), height |-> MEMPOOL_HEIGHT, coinbase |-> o[1] \in CoinBases]
        BY <3>1, FromTxIs
      <3>3. ViewMemPool[o[1]].vout = Spendable(o[1]) /\ ViewMemPool[o[1]].coinbase = (o[1] \in CoinBases)
        BY SMT, <2>3, <2>4, <3>2
      <3>4. ~ ViewMemPool[o[1]].coinbase
        BY <3>1, <3>3
      <3>5. QED  BY <3>1, <3>3, <3>4
    <2>5. CASE o[1] \notin pool.tx
      <3>1. ~ (o[1] \notin CoinBases /\ \E j \in 1..(k - 1) : Vtx[b][j] = o[1])
        <4>1. Txs(b, 1, k - 1) \ CoinBases \subseteq pool.tx
          BY DEF Returned, b, k
        <4>2. QED  BY <2>5, <4>1 DEF Txs
      <3>2. QED  BY <1>4, <2>2, <2>3, <2>5, <3>1
    <2>6. QED  BY <2>4, <2>5
  <1>12. Offered(t)
    BY <1>2, <1>5, <1>8, <1>9, <1>10 DEF Offered
  <1>13. HaveParents(t)
    BY <1>11 DEF HaveParents, IsPruned
  <1>14. MoneyRange(GetValueIn(t)) /\ GetValueIn(t) >= GetValueOut(t)
    <2>1. CheckInputs(ViewOfBlock(b, k), t, Height(b), Maturity)
      BY <1>1, BlockChecked DEF t, b, k
    <2>2. QED  BY <2>1 DEF CheckInputs
  <1>15. CheckInputs(ViewMemPool, t, Height(best) + 1, Maturity)
    <2>1. \A m \in DOMAIN Ins[t] : Ins[t][m] \in InsOf(t)
      BY DEF InsOf, Range
    <2>2. HaveInputs(ViewMemPool, t)
      BY <1>11, <2>1 DEF HaveInputs, IsAvailable
    <2>3. QED  BY <1>11, <1>14, <2>1, <2>2 DEF CheckInputs
  <1>16. QED  BY <1>2, <1>5, <1>12, <1>13, <1>15 DEF Accepts, t, b, k

\* What stays mature: the chain is the same or grows, and the next block is no lower.
LEMMA RipeLater ==
    ASSUME NEW o, NEW h \in Int, NEW g \in Int, h <= g, best \in Blocks, best' \in Blocks,
           Chain[best] \subseteq Chain[best'], RipeAt(o, h)
    PROVE  RipeAt(o, g)'
  <1>1. SUFFICES ASSUME o[1] \in CoinBases
                 PROVE  \E c \in Chain[best'] \ {Genesis} : o[1] \in Range(Vtx[c]) /\ g - Height(c) >= Maturity
    BY DEF RipeAt
  <1>2. PICK c \in Chain[best] \ {Genesis} : o[1] \in Range(Vtx[c]) /\ h - Height(c) >= Maturity
    BY <1>1 DEF RipeAt
  <1>3. Height(c) \in Nat /\ Maturity \in Nat
    BY HeightFacts, PoolAssumption
  <1>4. g - Height(c) >= Maturity
    BY SMT, <1>2, <1>3
  <1>5. QED  BY <1>2, <1>4

\* A transaction comes in while no block is connected or disconnected.
LEMMA AcceptGround ==
    ASSUME ChainInv, GroundInv, job = Idle, best' = best, job' = job,
           NEW t \in Txids, Accepts(t), pool' = addUnchecked(pool, t)
    PROVE  GroundInv'
  <1>1. job.kind = "idle" /\ Settled' = Settled /\ Settled = ChainTxs(best)
    BY DEF Idle, Settled, ChainTxs
  <1>2. pool'.tx = pool.tx \cup {t}
    BY DEF addUnchecked
  <1>3. Grounded'
    <2>1. \A o \in InsOf(t) : o[2] \in Spendable(o[1]) /\ o[1] \in pool.tx \cup Settled
      BY <1>1, AcceptedInput
    <2>2. QED  BY <1>1, <1>2, <2>1 DEF GroundInv, Grounded
  <1>4. Reach = Height(best) + 1 /\ Reach' = Reach
    BY <1>1 DEF Reach
  <1>5. /\ \A o \in InsOf(t) : RipeAt(o, Reach)
        /\ MoneyRange(GetValueIn(t)) /\ GetValueIn(t) >= GetValueOut(t)
    BY <1>1, <1>4, AcceptedRipe
  <1>6. Ripe'
    BY <1>2, <1>4, <1>5 DEF GroundInv, Ripe, RipeAt
  <1>7. Returned'
    BY <1>1 DEF Returned
  <1>8. Funded'
    BY <1>2, <1>5 DEF GroundInv, Funded
  <1>9. QED  BY <1>3, <1>6, <1>7, <1>8 DEF GroundInv

\* A block connects: what the pool spends is one block older.
LEMMA ConnectGround ==
    ASSUME ChainInv, GroundInv, NEW b \in Blocks, ConnectTip(b)
    PROVE  GroundInv'
  <1>1. /\ b # Genesis /\ Parent[b] = best /\ best' = b /\ pool' = pool
        /\ job.kind = "idle" /\ job'.kind = "connect" /\ Settled' = Settled
    BY ConnectSettled
  <1>2. Grounded' /\ Returned' /\ Funded'
    BY <1>1 DEF GroundInv, Grounded, Returned, Funded
  <1>3. best \in Blocks /\ Chain[best] \subseteq Chain[best'] /\ Height(best') = Height(best) + 1
        /\ Height(best) \in Nat
    BY SMT, <1>1, HeightFacts DEF ChainInv, JobOK
  <1>4. Reach = Height(best) + 1 /\ Reach' = Height(best') + 1
    BY <1>1 DEF Reach
  <1>5. ASSUME NEW t \in pool.tx, NEW o \in InsOf(t) PROVE RipeAt(o, Reach)'
    <2>1. RipeAt(o, Height(best) + 1)
      BY <1>4 DEF GroundInv, Ripe
    <2>2. RipeAt(o, Height(best) + 1)'
      BY SMT, <1>1, <1>3, <2>1, RipeLater
    <2>3. QED  BY <1>4, <2>2 DEF RipeAt
  <1>6. QED  BY <1>1, <1>2, <1>5 DEF GroundInv, Ripe

\* removeForBlock takes a transaction that the chain now has, and the conflicts with what
\* spends from them.
LEMMA ConfirmGround ==
    ASSUME PoolOK(pool), ChainInv, GroundInv, removeForBlock
    PROVE  GroundInv'
  <1> DEFINE x == Vtx[best][job.i]
             q == remove(pool, x)
  <1>1. /\ best' = best /\ job.kind = "connect" /\ job'.kind \in {"connect", "idle"}
        /\ pool' = Confirmed(pool, x) /\ Settled' = Settled \cup {x}
    BY ConfirmSettled DEF ChainInv
  <1> HIDE DEF x
  <1>2. PoolOK(q) /\ q.tx = pool.tx \ {x}
    <2>1. PoolOK(q)
      BY WithoutOK DEF remove
    <2>2. QED  BY <2>1 DEF remove, Without
  <1>3. pool' = removeRecursive(q, Conflicts(q, x))
    BY <1>1 DEF Confirmed, removeConflicts
  <1> HIDE DEF q
  <1>4. Grounded'
    <2>1. \A t \in q.tx : \A o \in InsOf(t) : o[2] \in Spendable(o[1]) /\ o[1] \in q.tx \cup Settled'
      BY <1>1, <1>2 DEF GroundInv, Grounded
    <2>2. \A t \in pool'.tx : \A o \in InsOf(t) : o[2] \in Spendable(o[1]) /\ o[1] \in pool'.tx \cup Settled'
      BY <1>2, <1>3, <2>1, RemovedGrounded
    <2>3. QED  BY <2>2 DEF Grounded
  <1>5. pool'.tx \subseteq pool.tx
    BY <1>1, ConfirmedClears
  <1>6. Reach' = Reach
    BY <1>1 DEF Reach
  <1>7. Ripe' /\ Funded'
    BY <1>1, <1>5, <1>6 DEF GroundInv, Ripe, RipeAt, Funded
  <1>8. Returned'
    BY <1>1 DEF Returned
  <1>9. QED  BY <1>4, <1>7, <1>8 DEF GroundInv

\* The tip is disconnected: what the pool spends of coinbases is in the chain below it.
LEMMA DisconnectGround ==
    ASSUME ChainInv, GroundInv, DisconnectTip
    PROVE  GroundInv'
  <1>1. /\ best \in Blocks \ {Genesis} /\ best' = Parent[best] /\ pool' = pool
        /\ job.kind = "idle" /\ job' = [kind |-> "disconnect", block |-> best, i |-> 1]
        /\ Settled' = Settled
    BY DisconnectSettled DEF ChainInv
  <1>2. job'.kind = "disconnect" /\ job'.i - 1 = 0
    BY SMT, <1>1
  <1>3. Grounded' /\ Funded'
    BY <1>1 DEF GroundInv, Grounded, Funded
  <1>4. Returned'
    BY SMT, <1>2 DEF Returned, Txs
  <1>5. /\ Height(best) = Height(Parent[best]) + 1 /\ Height(best) \in Nat /\ Height(Parent[best]) \in Nat
        /\ Chain[best] = {best} \cup Chain[Parent[best]] /\ Maturity \in Nat \ {0, 1}
    BY <1>1, HeightFacts, PoolAssumption
  <1>6. Reach = Height(best) + 1 /\ Reach' = Height(best) + 1
    BY SMT, <1>1, <1>2, <1>5 DEF Reach
  <1>7. ASSUME NEW t \in pool.tx, NEW o \in InsOf(t), o[1] \in CoinBases
        PROVE  \E c \in Chain[Parent[best]] \ {Genesis} :
                  o[1] \in Range(Vtx[c]) /\ (Height(best) + 1) - Height(c) >= Maturity
    <2>1. PICK c \in Chain[best] \ {Genesis} :
             o[1] \in Range(Vtx[c]) /\ (Height(best) + 1) - Height(c) >= Maturity
      BY <1>6, <1>7 DEF GroundInv, Ripe, RipeAt
    <2>2. c # best
      BY SMT, <1>5, <2>1
    <2>3. QED  BY <1>5, <2>1, <2>2
  <1>8. Ripe'
    BY <1>1, <1>6, <1>7 DEF Ripe, RipeAt
  <1>9. QED  BY <1>3, <1>4, <1>8 DEF GroundInv

\* A turn of the loop of DisconnectTip: nothing in the pool spends from the coinbase of the
\* block, and the others come back.
LEMMA ResurrectGround ==
    ASSUME Relayable, PoolOK(pool), ChainInv, GroundInv, Resurrect
    PROVE  GroundInv'
  <1> DEFINE b == job.block
             i == job.i
             t == Vtx[b][i]
  <1>1. /\ job.kind = "disconnect" /\ b \in Blocks \ {Genesis} /\ best = Parent[b]
        /\ i \in DOMAIN Vtx[b] /\ DOMAIN Vtx[b] = 1..Len(Vtx[b]) /\ Len(Vtx[b]) \in Nat
        /\ best' = best /\ job' = [kind |-> "disconnect", block |-> b, i |-> i + 1]
        /\ ChainTxs(best) \subseteq Settled' /\ Settled = Settled' \cup {t}
    BY ResurrectSettled DEF ChainInv
  <1>2. pool' = IF Accepts(t) THEN addUnchecked(pool, t) ELSE removeRecursive(pool, {t})
    BY DEF Resurrect
  <1>3. Returned => Txs(b, 1, i - 1) \ CoinBases \subseteq pool.tx
    BY <1>1 DEF Returned
  <1>4. i # 1 => Accepts(t)
    BY <1>1, AcceptedAgain DEF GroundInv
  <1> HIDE DEF b, i, t
  <1>5. t \in Txids /\ (t \in CoinBases <=> i = 1) /\ i \in Nat /\ i >= 1
    BY SMT, <1>1, BlockTx DEF t
  <1>6. job'.kind = "disconnect" /\ job'.block = b /\ job'.i - 1 = i
    BY SMT, <1>1, <1>5
  <1>7. Txs(b, 1, i) = Txs(b, 1, i - 1) \cup {t}
    <2>1. 1..i = (1..(i - 1)) \cup {i}
      BY SMT, <1>5
    <2>2. QED  BY <2>1 DEF Txs, t
  <1>8. Reach = Height(best) + 2 /\ Reach' = Reach
    BY <1>1, <1>6 DEF Reach
  <1>9. Returned' <=> (Txs(b, 1, i - 1) \cup {t}) \ CoinBases \subseteq pool'.tx
    BY <1>6, <1>7 DEF Returned, Txs
  <1>10. CASE i = 1
    <2>1. t \in CoinBases /\ ~Accepts(t) /\ t \notin pool.tx
      <3>1. t \in CoinBases
        BY <1>5, <1>10
      <3>2. ~Accepts(t)
        BY <3>1 DEF Accepts, Offered
      <3>3. QED  BY <3>1, <3>2 DEF ChainInv, Loose
    <2>2. pool'.tx = pool.tx
      <3>1. Closed(pool, {t}, {})
        BY <2>1 DEF Closed
      <3>2. Descendants(pool, {t}) = {}
        BY <3>1, DescendantsClosed
      <3>3. pool' = removeRecursive(pool, {t})
        BY <1>2, <2>1
      <3>4. removeRecursive(pool, {t}).tx = pool.tx \ Descendants(pool, {t})
        BY RemovedTx
      <3>5. QED  BY <3>2, <3>3, <3>4
    <2>3. ASSUME NEW u \in pool.tx, NEW o \in InsOf(u), o[1] = t PROVE t \in Settled'
      <3>1. PICK c \in Chain[best] \ {Genesis} : o[1] \in Range(Vtx[c])
        BY <2>1, <2>3 DEF GroundInv, Ripe, RipeAt
      <3>2. QED  BY <1>1, <2>3, <3>1 DEF ChainTxs
    <2>4. Grounded'
      BY <1>1, <2>2, <2>3 DEF GroundInv, Grounded
    <2>5. Ripe' /\ Funded'
      BY <1>1, <1>8, <2>2 DEF GroundInv, Ripe, RipeAt, Funded
    <2>6. Returned'
      BY <1>3, <1>9, <2>1, <2>2 DEF GroundInv
    <2>7. QED  BY <2>4, <2>5, <2>6 DEF GroundInv
  <1>11. CASE i # 1
    <2>1. Accepts(t) /\ pool'.tx = pool.tx \cup {t}
      BY <1>2, <1>4, <1>11 DEF addUnchecked
    <2>2. /\ \A o \in InsOf(t) : o[2] \in Spendable(o[1]) /\ o[1] \in pool.tx \cup ChainTxs(best)
          /\ \A o \in InsOf(t) : RipeAt(o, Height(best) + 1)
          /\ MoneyRange(GetValueIn(t)) /\ GetValueIn(t) >= GetValueOut(t)
      BY <1>1, <1>5, <2>1, AcceptedInput, AcceptedRipe
    <2>3. Grounded'
      BY <1>1, <2>1, <2>2 DEF GroundInv, Grounded
    <2>4. \A o \in InsOf(t) : RipeAt(o, Reach)'
      <3>1. best \in Blocks /\ Height(best) \in Nat
        BY HeightFacts DEF ChainInv, JobOK
      <3>2. \A o \in InsOf(t) : RipeAt(o, Height(best) + 2)'
        BY SMT, <1>1, <2>2, <3>1, RipeLater
      <3>3. Reach' = Height(best') + 2
        BY <1>1, <1>8
      <3>4. QED  BY <3>2, <3>3 DEF RipeAt
    <2>5. Ripe'
      BY <1>1, <1>8, <2>1, <2>4 DEF GroundInv, Ripe, RipeAt
    <2>6. Returned'
      BY <1>3, <1>9, <2>1 DEF GroundInv
    <2>7. Funded'
      BY <2>1, <2>2 DEF GroundInv, Funded
    <2>8. QED  BY <2>3, <2>5, <2>6, <2>7 DEF GroundInv
  <1>12. QED  BY <1>10, <1>11

\* removeCoinbaseSpends takes the spends of coinbases that are immature again.
LEMMA FinishGround ==
    ASSUME PoolOK(pool), ChainInv, GroundInv, FinishDisconnect
    PROVE  GroundInv'
  <1>1. /\ best' = best /\ job'.kind = "idle" /\ pool' = removeRecursive(pool, Immature(pool))
        /\ Settled = ChainTxs(best) /\ Settled' = Settled
    BY FinishSettled DEF ChainInv
  <1>2. Grounded'
    <2>1. \A t \in pool.tx : \A o \in InsOf(t) : o[2] \in Spendable(o[1]) /\ o[1] \in pool.tx \cup Settled'
      BY <1>1 DEF GroundInv, Grounded
    <2>2. \A t \in pool'.tx : \A o \in InsOf(t) : o[2] \in Spendable(o[1]) /\ o[1] \in pool'.tx \cup Settled'
      BY <1>1, <2>1, RemovedGrounded
    <2>3. QED  BY <2>2 DEF Grounded
  <1>3. pool'.tx \subseteq pool.tx \ Immature(pool)
    <2>1. pool'.tx = pool.tx \ Descendants(pool, Immature(pool))
      BY <1>1, RemovedTx
    <2>2. Immature(pool) \cap pool.tx \subseteq Descendants(pool, Immature(pool))
      BY DescendantsClosed DEF Closed
    <2>3. QED  BY <2>1, <2>2
  <1>4. Returned' /\ Funded'
    BY <1>1, <1>3 DEF GroundInv, Returned, Funded
  <1>5. best \in Blocks /\ Height(best) \in Nat /\ Maturity \in Nat
    BY HeightFacts, PoolAssumption DEF ChainInv, JobOK
  <1>6. ASSUME NEW t \in pool'.tx, NEW o \in InsOf(t), o[1] \in CoinBases
        PROVE  \E c \in Chain[best] \ {Genesis} :
                  o[1] \in Range(Vtx[c]) /\ (Height(best) + 1) - Height(c) >= Maturity
    <2>1. t \in pool.tx /\ t \notin Immature(pool) /\ t \in Txids /\ o[1] \notin pool.tx
      BY <1>3, <1>6 DEF ChainInv, Loose
    <2>2. o[2] \in Spendable(o[1]) /\ o[1] \in ChainTxs(best)
      BY <1>1, <1>6, <2>1 DEF GroundInv, Grounded
    <2>3. o[1] \in Txids /\ <<o[1], o[2]>> \notin Spent(ChainTxs(best))
      <3>1. o \notin Spent(ChainTxs(best))
        BY SMT, <1>1, <1>6, <2>1 DEF ChainInv, Apart, Spent
      <3>2. QED  BY <1>6, <2>1, <3>1, InputIs
    <2>4. PICK c \in Chain[best] \ {Genesis} : o[1] \in Range(Vtx[c])
      BY <2>2 DEF ChainTxs
    <2>5. CoinsAt[best][o[1]].height = Height(c) /\ CoinsAt[best][o[1]].coinbase
      BY <1>5, <1>6, <2>2, <2>3, <2>4, CoinOf
    <2>6. ~(Height(best) + 1 - CoinsAt[best][o[1]].height < Maturity)
      BY <1>6, <2>1, <2>5 DEF Immature
    <2>7. Height(c) \in Nat
      BY <1>5, <2>4, HeightFacts
    <2>8. QED  BY SMT, <1>5, <2>4, <2>5, <2>6, <2>7
  <1>7. Reach' = Height(best) + 1
    BY <1>1 DEF Reach
  <1>8. Ripe'
    BY <1>1, <1>6, <1>7 DEF Ripe, RipeAt
  <1>9. QED  BY <1>2, <1>4, <1>8 DEF GroundInv

\* A step in which the chain, the pool and the job stay the same.
LEMMA StutterGround == ASSUME GroundInv, UNCHANGED <<best, pool, job>> PROVE GroundInv'
  <1>1. Settled' = Settled /\ Reach' = Reach
    BY DEF Settled, ChainTxs, Txs, Reach
  <1>2. Grounded' /\ Ripe'
    BY <1>1 DEF GroundInv, Grounded, Ripe, RipeAt
  <1>3. Returned' /\ Funded'
    BY DEF GroundInv, Returned, Funded, Txs
  <1>4. QED  BY <1>2, <1>3 DEF GroundInv

\* One clause for each action.
LEMMA StepGround == ASSUME Relayable, IInv, ChainInv, GroundInv, [RelayNext]_allVars PROVE GroundInv'
  <1>1. PoolOK(pool)
    BY DEF IInv
  <1>2. ASSUME UNCHANGED poolVars PROVE GroundInv'
    BY <1>2, StutterGround DEF poolVars
  <1>3. CASE UNCHANGED allVars
    BY SMT, <1>2, <1>3 DEF allVars
  <1>4. CASE ChainAndWallet
    <2>1. ASSUME NEW t \in Txids, AcceptToMemoryPool(t) PROVE GroundInv'
      BY <2>1, AcceptGround DEF AcceptToMemoryPool
    <2>2. CASE FlushStateToDisk
      BY <2>2, StutterGround DEF FlushStateToDisk
    <2>3. QED
      BY <1>1, <1>4, <2>1, <2>2, ConnectGround, ConfirmGround, DisconnectGround, ResurrectGround,
         FinishGround DEF ChainAndWallet, PoolStep
  <1>5. ASSUME NEW p \in Peers, InitializeNode(p) \/ FinalizeNode(p) PROVE GroundInv'
    BY <1>2, <1>5 DEF InitializeNode, FinalizeNode
  <1>6. ASSUME NEW p \in Peers, NEW t \in Txids, StoreOrphan(p, t) PROVE GroundInv'
    BY <1>2, <1>6 DEF StoreOrphan
  <1>7. ASSUME NEW p \in Peers, NEW t \in Txids, NEW full \in BOOLEAN, AcceptTx(p, t, full)
        PROVE  GroundInv'
    BY <1>7, AcceptGround DEF AcceptTx, MainFree, Admits
  <1>8. ASSUME NEW t \in Txids, NEW full \in BOOLEAN, ProcessOrphan(t, full) PROVE GroundInv'
    <2>1. relay # Waiting
      BY SMT, <1>8 DEF ProcessOrphan, Waiting
    <2>2. job = Idle
      BY <2>1 DEF ChainInv, Quiet
    <2>3. UNCHANGED <<best, disk, job>> /\ (pool' = pool \/ (Accepts(t) /\ pool' = addUnchecked(pool, t)))
      BY <1>8 DEF ProcessOrphan, Admits
    <2>4. QED  BY <2>2, <2>3, AcceptGround, StutterGround
  <1>9. CASE NextInQueue \/ FinishTx
    BY <1>2, <1>9 DEF NextInQueue, FinishTx
  <1>10. CASE Restart
    <2>1. job'.kind = "idle" /\ pool'.tx = {}
      BY <1>10 DEF Restart, Crash, EmptyPool, Idle
    <2>2. QED  BY <2>1 DEF GroundInv, Grounded, Ripe, Returned, Funded
  <1>11. QED
    BY <1>3, <1>4, <1>5, <1>6, <1>7, <1>8, <1>9, <1>10 DEF RelayNext, Messages, Handler

\* If the node lets in the transactions of blocks as loose ones, then in every state the
\* pool spends what is in the pool or in the chain, mature, and enough of it.
THEOREM GroundInvariance == ASSUME Relayable PROVE RelaySpec => [](IInv /\ ChainInv /\ GroundInv)
  <1>1. RelayInit => GroundInv
    <2>1. SUFFICES ASSUME RelayInit PROVE GroundInv
      OBVIOUS
    <2>2. job.kind = "idle" /\ pool.tx = {}
      BY <2>1 DEF RelayInit, PoolInit, EmptyPool, Idle
    <2>3. QED  BY <2>2 DEF GroundInv, Grounded, Ripe, Returned, Funded
  <1>2. IInv /\ ChainInv /\ GroundInv /\ [RelayNext]_allVars => GroundInv'
    BY StepGround
  <1>3. QED  BY <1>1, <1>2, ChainInvariance, PTL DEF RelaySpec

\* The end of DisconnectTip takes none of the transactions that it resurrected.
LEMMA ResurrectedStay ==
    ASSUME PoolOK(pool), ChainInv, GroundInv, FinishDisconnect
    PROVE  Range(Vtx[job.block]) \ CoinBases \subseteq pool'.tx
  <1> DEFINE b == job.block
             R == Range(Vtx[b]) \ CoinBases
             D == Descendants(pool, Immature(pool))
  <1>1. /\ job.kind = "disconnect" /\ b \in Blocks \ {Genesis} /\ best = Parent[b]
        /\ job.i = Len(Vtx[b]) + 1 /\ Settled = ChainTxs(best)
        /\ pool' = removeRecursive(pool, Immature(pool))
    BY FinishSettled DEF ChainInv
  <1>2. R \subseteq pool.tx
    <2>1. job.i - 1 = Len(Vtx[b]) /\ Txs(b, 1, Len(Vtx[b])) = Range(Vtx[b])
      BY SMT, <1>1, VtxFacts
    <2>2. Txs(b, 1, job.i - 1) \ CoinBases \subseteq pool.tx
      BY <1>1 DEF GroundInv, Returned
    <2>3. QED  BY <2>1, <2>2
  <1>3. Height(b) = Height(best) + 1 /\ best \in Blocks /\ Height(best) \in Nat /\ Orderly(best)
    BY <1>1, HeightFacts, AllOrderly
  <1> HIDE DEF b
  <1>4. ASSUME NEW t \in R, NEW o \in InsOf(t)
        PROVE  \/ o[1] \in R
               \/ /\ o[2] \in CoinsAt[best][o[1]].vout /\ o[1] \notin pool.tx
                  /\ CoinsAt[best][o[1]].coinbase => Height(b) - CoinsAt[best][o[1]].height >= Maturity
    <2>1. PICK k \in DOMAIN Vtx[b] : t = Vtx[b][k]
      BY DEF Range
    <2>2. t \in Txids /\ o[1] \in Txids /\ 1..(k - 1) \subseteq DOMAIN Vtx[b]
      BY SMT, <1>1, <1>4, <2>1, BlockTx, InputIs
    <2>3. \/ o[1] \notin CoinBases /\ \E j \in 1..(k - 1) : Vtx[b][j] = o[1]
          \/ /\ o[2] \in CoinsAt[best][o[1]].vout
             /\ CoinsAt[best][o[1]].coinbase => Height(b) - CoinsAt[best][o[1]].height >= Maturity
      BY <1>1, <1>4, <2>1, BlockMature
    <2>4. o[2] \in CoinsAt[best][o[1]].vout => o[1] \in ChainTxs(best)
      <3>1. CoinsAt[best][o[1]].vout =
               {n \in Spendable(o[1]) : /\ o[1] \in ChainTxs(best)
                                        /\ <<o[1], n>> \notin Spent(ChainTxs(best))}
        BY <1>3, <2>2, CoinsIs
      <3>2. QED  BY SMT, <3>1
    <2>5. o[1] \in ChainTxs(best) => o[1] \notin pool.tx
      BY <1>1, NotSettled
    <2>6. (\E j \in 1..(k - 1) : Vtx[b][j] = o[1]) => o[1] \in Range(Vtx[b])
      BY <2>2 DEF Range
    <2>7. QED  BY <2>3, <2>4, <2>5, <2>6
  <1>5. R \cap Immature(pool) = {}
    <2>1. ASSUME NEW t \in R, NEW o \in InsOf(t), o[1] \notin pool.tx
          PROVE  /\ ~NoEntry(o[1])
                 /\ ~(CoinsAt[best][o[1]].coinbase /\ Height(best) + 1 - CoinsAt[best][o[1]].height < Maturity)
      <3>1. /\ o[2] \in CoinsAt[best][o[1]].vout
            /\ CoinsAt[best][o[1]].coinbase => Height(b) - CoinsAt[best][o[1]].height >= Maturity
        BY <1>2, <1>4, <2>1
      <3>2. ~NoEntry(o[1])
        BY <3>1 DEF NoEntry, IsPruned
      <3>3. ~IsPruned(CoinsAt[best][o[1]])
        BY <3>1 DEF IsPruned
      <3>4. CoinsAt[best][o[1]].height \in Nat
        <4>1. t \in Txids /\ o[1] \in Txids
          BY <1>2, <2>1, InputIs DEF ChainInv, Loose
        <4>2. o[1] \in ChainTxs(best)
          <5>1. CoinsAt[best][o[1]].vout =
                   {n \in Spendable(o[1]) : /\ o[1] \in ChainTxs(best)
                                            /\ <<o[1], n>> \notin Spent(ChainTxs(best))}
            BY <1>3, <4>1, CoinsIs
          <5>2. QED  BY <3>1, <5>1
        <4>3. PICK c \in Chain[best] \ {Genesis} : o[1] \in Range(Vtx[c])
          BY <4>2 DEF ChainTxs
        <4>4. CoinsAt[best][o[1]].height = Height(c)
          BY SMT, <1>3, <3>3, <4>1, <4>3, CoinsIs
        <4>5. QED  BY SMT, <1>3, <4>3, <4>4, HeightFacts
      <3>5. QED  BY SMT, <1>3, <3>1, <3>2, <3>4, PoolAssumption
    <2>2. QED  BY <2>1 DEF Immature
  <1>6. Closed(pool, Immature(pool), pool.tx \ R)
    <2>1. Immature(pool) \cap pool.tx \subseteq pool.tx \ R
      BY <1>5
    <2>2. ASSUME NEW d \in pool.tx \ R, NEW u \in Spenders(pool, d) \cap pool.tx, u \in R PROVE FALSE
      <3>1. PICK o \in InsOf(u) : o[1] = d
        BY SMT, <2>2, SpendersAre
      <3>2. QED  BY <1>4, <2>2, <3>1
    <2>3. QED  BY <2>1, <2>2 DEF Closed
  <1>7. D \subseteq pool.tx \ R
    BY <1>6, DescendantsClosed
  <1>8. pool'.tx = pool.tx \ D
    BY <1>1, RemovedTx
  <1>9. QED  BY <1>2, <1>7, <1>8 DEF b

\* When a block is disconnected and the node lets in its transactions as loose ones, all of
\* them but the coinbase are in the pool at the end of DisconnectTip (main.cpp), those
\* that spend from one another included, and removeCoinbaseSpends takes none of them.
THEOREM ResurrectedKept == ASSUME Relayable PROVE RelaySpec => NothingLost
  <1>1. ASSUME IInv, ChainInv, GroundInv, [RelayNext]_allVars
        PROVE  [FinishDisconnect => Range(Vtx[job.block]) \ CoinBases \subseteq pool'.tx]_poolVars
    BY <1>1, ResurrectedStay DEF IInv
  <1>2. QED  BY GroundInvariance, <1>1, PTL DEF RelaySpec, NothingLost

\* What CTxMemPool::check and CreateNewBlock find of each input of the pool.
LEMMA PoolCoin ==
    ASSUME ChainInv, GroundInv, job = Idle, NEW t \in pool.tx, NEW o \in InsOf(t)
    PROVE  /\ o[2] \in ViewMemPool[o[1]].vout
           /\ ViewMemPool[o[1]].coinbase => (Height(best) + 1) - ViewMemPool[o[1]].height >= Maturity
  <1>1. job.kind = "idle" /\ best \in Blocks /\ t \in Txids /\ o[1] \in Txids
    BY InputIs DEF Idle, ChainInv, JobOK, Loose
  <1>2. Settled = ChainTxs(best) /\ Reach = Height(best) + 1
    BY <1>1 DEF Settled, Reach
  <1>3. o[2] \in Spendable(o[1]) /\ o[1] \in pool.tx \cup ChainTxs(best)
    BY <1>2 DEF GroundInv, Grounded
  <1>4. ViewMemPool[o[1]] = IF o[1] \in pool.tx THEN FromTx(o[1], MEMPOOL_HEIGHT) ELSE CoinsAt[best][o[1]]
    BY <1>1 DEF ViewMemPool
  <1>5. CASE o[1] \in pool.tx
    <2>1. FromTx(o[1], MEMPOOL_HEIGHT) =
             [vout |-> Spendable(o[1]), height |-> MEMPOOL_HEIGHT, coinbase |-> o[1] \in CoinBases]
      BY <1>3, FromTxIs
    <2>2. ViewMemPool[o[1]].vout = Spendable(o[1]) /\ ViewMemPool[o[1]].coinbase = (o[1] \in CoinBases)
      BY SMT, <1>4, <1>5, <2>1
    <2>3. o[1] \notin CoinBases
      BY <1>5 DEF ChainInv, Loose
    <2>4. ~ ViewMemPool[o[1]].coinbase
      BY <2>2, <2>3
    <2>5. QED  BY <1>3, <2>2, <2>4
  <1>6. CASE o[1] \notin pool.tx
    <2>1. <<o[1], o[2]>> \notin Spent(ChainTxs(best))
      <3>1. o \notin Spent(ChainTxs(best))
        BY SMT, <1>2 DEF ChainInv, Apart, Spent
      <3>2. QED  BY <1>1, <3>1, InputIs
    <2>2. \A c \in Chain[best] \ {Genesis} : o[1] \in Range(Vtx[c]) =>
             /\ o[2] \in CoinsAt[best][o[1]].vout
             /\ CoinsAt[best][o[1]].height = Height(c)
             /\ CoinsAt[best][o[1]].coinbase = (o[1] \in CoinBases)
      BY <1>1, <1>3, <2>1, CoinOf
    <2>3. PICK c \in Chain[best] \ {Genesis} : o[1] \in Range(Vtx[c])
      BY <1>3, <1>6 DEF ChainTxs
    <2>4. ViewMemPool[o[1]] = CoinsAt[best][o[1]]
      BY <1>4, <1>6
    <2>5. o[2] \in ViewMemPool[o[1]].vout
      BY <2>2, <2>3, <2>4
    <2>6. ASSUME ViewMemPool[o[1]].coinbase
          PROVE  (Height(best) + 1) - ViewMemPool[o[1]].height >= Maturity
      <3>1. o[1] \in CoinBases
        BY <2>2, <2>3, <2>4, <2>6
      <3>2. PICK d \in Chain[best] \ {Genesis} :
               o[1] \in Range(Vtx[d]) /\ (Height(best) + 1) - Height(d) >= Maturity
        BY <1>2, <3>1 DEF GroundInv, Ripe, RipeAt
      <3>3. QED  BY <2>2, <2>4, <3>2
    <2>7. QED  BY <2>5, <2>6
  <1>7. QED  BY <1>5, <1>6

\* So CheckInputs accepts each transaction of the pool.
LEMMA PoolChecked ==
    ASSUME ChainInv, GroundInv, job = Idle, NEW t \in pool.tx
    PROVE  HaveInputs(ViewMemPool, t) /\ CheckInputs(ViewMemPool, t, Height(best) + 1, Maturity)
  <1>1. \A m \in DOMAIN Ins[t] : Ins[t][m] \in InsOf(t)
    BY DEF InsOf, Range
  <1>2. HaveInputs(ViewMemPool, t)
    BY <1>1, PoolCoin DEF HaveInputs, IsAvailable
  <1>3. \A m \in DOMAIN Ins[t] :
           ViewMemPool[Ins[t][m][1]].coinbase =>
              (Height(best) + 1) - ViewMemPool[Ins[t][m][1]].height >= Maturity
    BY <1>1, PoolCoin
  <1>4. MoneyRange(GetValueIn(t)) /\ GetValueIn(t) >= GetValueOut(t)
    BY DEF GroundInv, Funded
  <1>5. QED  BY <1>2, <1>3, <1>4 DEF CheckInputs

\* What CTxMemPool::check (txmempool.cpp) asserts between two changes of the chain, if the
\* node lets in the transactions of blocks as loose ones: each input of the pool is an
\* unspent coin of the chain or an output of the pool, through every reorganisation.
THEOREM InputsAreAvailable == ASSUME Relayable PROVE RelaySpec => []InputsAvailable
  <1>1. ChainInv /\ GroundInv => InputsAvailable
    BY PoolChecked DEF InputsAvailable
  <1>2. QED  BY <1>1, GroundInvariance, PTL

\* And CheckInputs (main.cpp) accepts each transaction of the pool for the next block.
THEOREM PoolIsValid == ASSUME Relayable PROVE RelaySpec => []PoolValid
  <1>1. ChainInv /\ GroundInv => PoolValid
    BY PoolChecked DEF PoolValid
  <1>2. QED  BY <1>1, GroundInvariance, PTL
================================================================================
