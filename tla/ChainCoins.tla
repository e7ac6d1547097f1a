------------------------------ MODULE ChainCoins ------------------------------
(***************************************************************************)
(* A tree of blocks with transactions, and the coin set of each of its chains *)
(* stated directly: what was created and not spent, without a history of      *)
(* views.  BlockCoins is checked against it, and Mempool builds on it.        *)
(***************************************************************************)
EXTENDS Transactions

CONSTANTS Blocks, Genesis,
          Parent,   \* Parent[b] for every block but Genesis
          Vtx       \* Vtx[b]: the transactions of b; Vtx[b][1] is the coinbase

ASSUME BlockAssumption ==
    /\ Genesis \in Blocks
    /\ Parent \in [Blocks \ {Genesis} -> Blocks]
    /\ \A b \in Blocks : Vtx[b] \in Seq(Txids)

\* Blocks from Genesis to b.
Chain[b \in Blocks] == IF b = Genesis THEN {b} ELSE {b} \cup Chain[Parent[b]]

\* The blocks form a tree: the way from a block to its parent, and on, ends at Genesis.
ASSUME TreeAssumption ==
    /\ Chain \in [Blocks -> SUBSET Blocks]
    /\ Chain[Genesis] = {Genesis}
    /\ \A b \in Blocks \ {Genesis} : /\ Chain[b] = {b} \cup Chain[Parent[b]]
                                      /\ b \notin Chain[Parent[b]]
    /\ \A b \in Blocks : IsFiniteSet(Chain[b])

Height(b) == Cardinality(Chain[b]) - 1

\* The last block of the chain to b that has t, if any.
Creators(b, t) == {c \in Chain[b] \ {Genesis} : \E k \in DOMAIN Vtx[c] : Vtx[c][k] = t}
Creator(b, t) == CHOOSE c \in Creators(b, t) : \A d \in Creators(b, t) : Height(d) <= Height(c)

\* Outpoint <<t, n>> is an input of the chain to b from block c on.
SpentSince(b, c, t, n) ==
    \E d \in Chain[b] \ {Genesis} :
        /\ Height(d) >= Height(c)
        /\ \E k \in DOMAIN Vtx[d] : \E m \in DOMAIN Ins[Vtx[d][k]] : Ins[Vtx[d][k]][m] = <<t, n>>

CoinsOf(b) ==
    [t \in Txids |->
        IF Creators(b, t) = {} THEN Pruned
        ELSE LET c == Creator(b, t)
                 new == FromTx(t, Height(c))
             IN  Normal([new EXCEPT !.vout = {n \in @ : ~SpentSince(b, c, t, n)}])]

CoinsAt == [b \in Blocks |-> CoinsOf(b)]
===============================================================================
