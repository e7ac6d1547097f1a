--------------------------------- MODULE Miner ---------------------------------
(***************************************************************************)
(* CreateNewBlock (miner.cpp): the choice of the transactions of the pool for  *)
(* a new block, in an order in which each comes after those it spends from.    *)
(* It holds cs_main and mempool.cs from beginning to end and changes neither   *)
(* the pool nor the chain, so it is an operator on their state: the set of the *)
(* results it may have.  Priorities, fees and sizes are abstracted to a choice: *)
(* the heap may give up any of its elements first, and the limits of size,     *)
(* signature operations and fee may turn away any transaction.  The coinbase,  *)
(* which is made last and pays what GetBlockValue allows, is left out.         *)
(***************************************************************************)
EXTENDS Mempool

CONSTANT MaxSkipped   \* bound: transactions that the limits turn away from one block

nHeight == Height(best) + 1

HaveCoins(t) == ~IsPruned(CoinsAt[best][t])

\* An input that is neither in the chain nor in the pool.
MissingInput(t) == \E o \in InsOf(t) : ~HaveCoins(o[1]) /\ o[1] \notin pool.tx

Considered == {t \in pool.tx : IsFinalTx(t, nHeight) /\ ~MissingInput(t)}

\* fault: only the input for which the COrphan is made is entered.
FirstDependency(t) ==
    LET waiting == {k \in DOMAIN Ins[t] : ~HaveCoins(Ins[t][k][1])}
    IN  {Ins[t][k][1] : k \in {k \in waiting : \A j \in waiting : k <= j}}

\* The transactions of the pool that t has to wait for.
setDependsOn(t) == {o[1] : o \in {q \in InsOf(t) : ~HaveCoins(q[1])}}

\* The state of the second loop: vecPriority, the setDependsOn of each transaction, the
\* coins after the block so far, the block, and what the limits turned away.
Start ==
    [heap |-> {t \in Considered : setDependsOn(t) = {}},
     depends |-> [t \in Considered |-> setDependsOn(t)],
     view |-> CoinsAt[best],
     vtx |-> <<>>,
     skipped |-> {}]

UpdateCoins(view, t) ==
    [u \in Txids |->
        IF u = t THEN FromTx(t, nHeight)
        ELSE Normal([view[u] EXCEPT !.vout = {n \in @ : <<u, n>> \notin InsOf(t)}])]

\* The last dependency of these is t.
Released(s, t) == {u \in DOMAIN s.depends : s.depends[u] = {t}}

\* t comes off the heap and goes into the block if it is valid there.
Take(s, t) ==
    IF CheckInputs(s.view, t, nHeight, Maturity) /\ t \notin BadScript
    THEN [s EXCEPT !.heap = (@ \ {t}) \cup Released(s, t),
                   !.depends = [u \in DOMAIN @ |-> @[u] \ {t}],
                   !.view = UpdateCoins(@, t),
                   !.vtx = Append(@, t)]
    ELSE [s EXCEPT !.heap = @ \ {t}]

\* t comes off the heap and a limit turns it away.
Skip(s, t) == [s EXCEPT !.heap = @ \ {t}, !.skipped = @ \cup {t}]

RECURSIVE Collect(_)
Collect(s) ==
    IF s.heap = {} THEN {s}
    ELSE UNION {Collect(Take(s, t)) : t \in s.heap}
         \cup IF Cardinality(s.skipped) < MaxSkipped
              THEN UNION {Collect(Skip(s, t)) : t \in s.heap} ELSE {}

CreateNewBlock == Collect(Start)

\* The transactions of a block that ConnectBlock accepts from number k on, for a view.
RECURSIVE Connects(_, _, _)
Connects(view, vtx, k) ==
    k <= Len(vtx) =>
        /\ CheckInputs(view, vtx[k], nHeight, Maturity) /\ vtx[k] \notin BadScript
        /\ Connects(UpdateCoins(view, vtx[k]), vtx, k + 1)

\* TestBlockValidity: the checks of the transactions, their lock times, BIP30, and the
\* inputs of each after the ones before it.
TestBlockValidity(vtx) ==
    /\ \A k \in DOMAIN vtx : /\ CheckTransaction(vtx[k])
                             /\ IsFinalTx(vtx[k], nHeight)
                             /\ IsPruned(CoinsAt[best][vtx[k]])
    /\ Connects(CoinsAt[best], vtx, 1)

-------------------------------------------------------------------------------
(* Properties *)

\* Whenever CreateNewBlock can run, no transaction of the pool lacks an input ("This
\* should never happen"), TestBlockValidity passes, so that it does not throw, and what
\* the block leaves out is what the limits turned away or is not final, and what spends
\* from those: no transaction is lost between vecPriority, mapDependers and setDependsOn.
MinesPool ==
    job = Idle =>
        /\ \A t \in pool.tx : ~MissingInput(t)
        /\ \A b \in CreateNewBlock :
              /\ TestBlockValidity(b.vtx)
              /\ pool.tx \ Range(b.vtx) =
                    Descendants(pool, b.skipped \cup {t \in pool.tx : ~IsFinalTx(t, nHeight)})
===============================================================================
