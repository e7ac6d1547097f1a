-------------------------------- MODULE TxRelay --------------------------------
(***************************************************************************)
(* The "tx" message (ProcessMessage in main.cpp) and the orphans: transactions *)
(* that came before one they spend from.  The handler holds cs_main from its   *)
(* first call of AcceptToMemoryPool to its end; a step here is one turn of its *)
(* loops, and the chain moves between two messages only.                      *)
(***************************************************************************)
EXTENDS Mempool

CONSTANTS Peers,
          Free,          \* transactions below the relay fee, which the rate limiter may refuse
          Big,           \* those too big to be kept as an orphan
          MaxOrphans     \* -maxorphantx

ASSUME OrphansAssumption == MaxOrphans \in Nat

VARIABLES peers,     \* mapNodeState
          orphans,   \* mapOrphanTransactions: the peer that sent each
          byPrev,    \* mapOrphanTransactionsByPrev
          relay      \* the handler: vWorkQueue and its index i, the orphans of this turn that
                     \* are left, vEraseQueue and setMisbehaving

relayVars == <<peers, orphans, byPrev, relay>>
allVars == <<poolVars, relayVars>>

Waiting == [work |-> <<>>, i |-> 0, todo |-> {}, erase |-> {}, bad |-> {}]

RelayInit ==
    /\ PoolInit
    /\ peers = {}
    /\ orphans = [t \in {} |-> CHOOSE p \in Peers : TRUE]
    /\ byPrev = [t \in {} |-> {}]
    /\ relay = Waiting

-------------------------------------------------------------------------------
(* The orphan maps *)

Prevs(t) == {o[1] : o \in InsOf(t)}

\* mapOrphanTransactionsByPrev.find(h), the empty set for end().
Dependents(h) == IF h \in DOMAIN byPrev THEN byPrev[h] ELSE {}

AddOrphanTx(t, p) ==
    [map |-> [o \in DOMAIN orphans \cup {t} |-> IF o = t THEN p ELSE orphans[o]],
     prev |-> [h \in DOMAIN byPrev \cup Prevs(t) |->
                  Dependents(h) \cup (IF h \in Prevs(t) THEN {t} ELSE {})]]

\* fault: the index keeps the erased orphans.
EraseFromMap(m, S) == [map |-> Restrict(m.map, DOMAIN m.map \ S), prev |-> m.prev]

\* EraseOrphanTx for every transaction of S.
EraseOrphanTx(m, S) ==
    LET Left(h) == m.prev[h] \ (S \cap DOMAIN m.map)
    IN  [map |-> Restrict(m.map, DOMAIN m.map \ S),
         prev |-> [h \in {q \in DOMAIN m.prev : Left(q) # {}} |-> Left(h)]]

SetOrphans(m) == orphans' = m.map /\ byPrev' = m.prev

\* The sets of orphans that LimitOrphanTxSize may choose at random.
LimitOrphanTxSize(m) ==
    LET n == Cardinality(DOMAIN m.map)
    IN  {S \in SUBSET DOMAIN m.map :
            Cardinality(S) = IF n > MaxOrphans THEN n - MaxOrphans ELSE 0}

-------------------------------------------------------------------------------
(* Peers *)

\* A call that needs cs_main.
MainFree == job = Idle /\ relay = Waiting

InitializeNode(p) ==
    /\ MainFree
    /\ p \notin peers
    /\ peers' = peers \cup {p}
    /\ UNCHANGED <<poolVars, orphans, byPrev, relay>>

EraseOrphansFor(p) == {t \in DOMAIN orphans : orphans[t] = p}

FinalizeNode(p) ==
    /\ MainFree
    /\ p \in peers
    /\ peers' = peers \ {p}
    /\ SetOrphans(EraseOrphanTx([map |-> orphans, prev |-> byPrev], EraseOrphansFor(p)))
    /\ UNCHANGED <<poolVars, relay>>

-------------------------------------------------------------------------------
(* The handler *)

\* AcceptToMemoryPool with fLimitFree; full: the rate limiter has had enough.
Admits(t, full) == Accepts(t) /\ ~(full /\ t \in Free)

\* The checks before the scripts pass, and a script fails: nDoS is 100.
Punishes(t) ==
    /\ Offered(t) /\ HaveParents(t) /\ t \in Wanted
    /\ CheckInputs(ViewMemPool, t, Height(best) + 1, Maturity)
    /\ t \in BadScript

AcceptTx(p, t, full) ==
    /\ MainFree
    /\ p \in peers
    /\ Admits(t, full)
    /\ pool' = addUnchecked(pool, t)
    /\ relay' = [Waiting EXCEPT !.work = <<t>>, !.i = 1, !.todo = Dependents(t), !.erase = {t}]
    /\ UNCHANGED <<best, disk, job, peers, orphans, byPrev>>

StoreOrphan(p, t) ==
    /\ MainFree
    /\ p \in peers
    /\ fMissingInputs(t)
    /\ t \notin DOMAIN orphans \cup Big
    /\ LET m == AddOrphanTx(t, p)
       IN  \E S \in LimitOrphanTxSize(m) : SetOrphans(EraseOrphanTx(m, S))
    /\ UNCHANGED <<poolVars, peers, relay>>

\* The inner loop; whatever becomes of the orphan, it is erased at the end.
ProcessOrphan(t, full) ==
    /\ t \in relay.todo
    /\ LET tried == [relay EXCEPT !.todo = @ \ {t}, !.erase = @ \cup {t}]
           skip == orphans[t] \in relay.bad
       IN  \/ /\ ~skip /\ Admits(t, full)
              /\ pool' = addUnchecked(pool, t)
              /\ relay' = [tried EXCEPT !.work = Append(@, t)]
           \/ /\ skip \/ ~Admits(t, full)
              /\ pool' = pool
              /\ relay' = IF ~skip /\ Punishes(t)
                          THEN [tried EXCEPT !.bad = @ \cup {orphans[t]}] ELSE tried
    /\ UNCHANGED <<best, disk, job, peers, orphans, byPrev>>

NextInQueue ==
    /\ relay.todo = {} /\ relay.i < Len(relay.work)
    /\ relay' = [relay EXCEPT !.i = @ + 1, !.todo = Dependents(relay.work[relay.i + 1])]
    /\ UNCHANGED <<poolVars, peers, orphans, byPrev>>

\* fault: the orphans of orphans are not looked at.
FinishFirst ==
    /\ relay # Waiting
    /\ relay.todo = {}
    /\ SetOrphans(EraseOrphanTx([map |-> orphans, prev |-> byPrev], relay.erase))
    /\ relay' = Waiting
    /\ UNCHANGED <<poolVars, peers>>

FinishTx ==
    /\ relay # Waiting
    /\ relay.todo = {} /\ relay.i = Len(relay.work)
    /\ SetOrphans(EraseOrphanTx([map |-> orphans, prev |-> byPrev], relay.erase))
    /\ relay' = Waiting
    /\ UNCHANGED <<poolVars, peers>>

-------------------------------------------------------------------------------
Restart ==
    /\ Crash
    /\ peers' = {}
    /\ SetOrphans([map |-> Restrict(orphans, {}), prev |-> Restrict(byPrev, {})])
    /\ relay' = Waiting

Messages ==
    \E p \in Peers :
        \/ InitializeNode(p)
        \/ FinalizeNode(p)
        \/ \E t \in Txids : StoreOrphan(p, t) \/ (\E full \in BOOLEAN : AcceptTx(p, t, full))

Handler ==
    \/ \E t \in Txids, full \in BOOLEAN : ProcessOrphan(t, full)
    \/ NextInQueue
    \/ FinishTx

ChainAndWallet == relay = Waiting /\ PoolStep /\ UNCHANGED relayVars

RelayNext == ChainAndWallet \/ Messages \/ Handler \/ Restart

RelaySpec == RelayInit /\ [][RelayNext]_allVars

-------------------------------------------------------------------------------
(* Properties *)

RelayTypeOK ==
    /\ PoolTypeOK
    /\ peers \subseteq Peers
    /\ DOMAIN orphans \subseteq Txids /\ Range(orphans) \subseteq Peers
    /\ DOMAIN byPrev \subseteq Txids
    /\ relay.work \in Seq(Txids) /\ relay.i \in 0..Len(relay.work)
    /\ relay.todo \cup relay.erase \subseteq Txids /\ relay.bad \subseteq Peers

\* mapOrphanTransactionsByPrev lists, for each parent, exactly the orphans that spend from
\* it, and has no empty set: the handler never looks up an orphan that is gone (operator[]
\* would make an empty one), and none is missed when its parent comes.
OrphanIndexExact ==
    /\ DOMAIN byPrev = UNION {Prevs(t) : t \in DOMAIN orphans}
    /\ \A h \in DOMAIN byPrev : byPrev[h] = {t \in DOMAIN orphans : h \in Prevs(t)}
    /\ relay.todo \subseteq DOMAIN orphans

\* "do not allow mapOrphanTransactions to grow unbounded": never more than -maxorphantx
\* orphans, each of a peer that is still connected (FinalizeNode erases the others).
OrphansBounded ==
    /\ Cardinality(DOMAIN orphans) <= MaxOrphans
    /\ \A t \in DOMAIN orphans : orphans[t] \in peers

\* "Recursively process any orphan transactions that depended on this one": when the
\* handler ends, no orphan is left that spends from a transaction it accepted, directly or
\* as an orphan of an orphan.
OrphansProcessed ==
    [][FinishTx => \A t \in DOMAIN orphans' : Prevs(t) \cap Range(relay.work) = {}]_allVars
===============================================================================
