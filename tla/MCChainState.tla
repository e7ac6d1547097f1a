----------------------------- MODULE MCChainState -----------------------------
(* Instances of ChainState: small block trees for TLC. *)
EXTENDS ChainState, TLC

CONSTANTS g, a1, a2, a3, b1, b2, b3, b4, t1, t2

\* Two branches from the genesis block.  The body of a3 is bad, b3 fails ConnectBlock, so
\* the node has to come back from b4, the chain with the most work.
MCBlocks == {g, a1, a2, a3, b1, b2, b3, b4}
MCParent ==
    (a1 :> g) @@ (a2 :> a1) @@ (a3 :> a2) @@ (b1 :> g) @@ (b2 :> b1) @@ (b3 :> b2) @@ (b4 :> b3)
MCAnc ==
    (g :> {g}) @@ (a1 :> {g, a1}) @@ (a2 :> {g, a1, a2}) @@ (a3 :> {g, a1, a2, a3})
        @@ (b1 :> {g, b1}) @@ (b2 :> {g, b1, b2}) @@ (b3 :> {g, b1, b2, b3})
        @@ (b4 :> {g, b1, b2, b3, b4})
MCWork == [b \in MCBlocks |-> Cardinality(MCAnc[b])]
MCAddr ==
    (g :> 1) @@ (a1 :> 2) @@ (a2 :> 3) @@ (b1 :> 4) @@ (b2 :> 5) @@ (b3 :> 6) @@ (b4 :> 7)
        @@ (a3 :> 8)
MCThreads == {t1, t2}
MCInvalid == {b3}
MCBadBody == {a3}
MCSymmetry == Permutations(MCThreads)

\* The RPC runs use the first blocks of the same two branches, all of them valid.
RpcBlocks == {g, a1, a2, b1}
RpcParent == [b \in RpcBlocks \ {g} |-> MCParent[b]]
RpcAnc == [b \in RpcBlocks |-> MCAnc[b]]
RpcWork == [b \in RpcBlocks |-> MCWork[b]]
RpcAddr == [b \in RpcBlocks |-> MCAddr[b]]
None == {}

\* The run that also checks liveness, without symmetry: the branch with the most work is b3,
\* which b2 makes invalid, the body of a2 is bad, and a1 has more work than b1.
LiveBlocks == {g, a1, a2, b1, b2, b3}
LiveParent == [b \in LiveBlocks \ {g} |-> MCParent[b]]
LiveAnc == [b \in LiveBlocks |-> MCAnc[b]]
LiveWork == (g :> 1) @@ (a1 :> 3) @@ (a2 :> 4) @@ (b1 :> 2) @@ (b2 :> 4) @@ (b3 :> 5)
LiveAddr == [b \in LiveBlocks |-> MCAddr[b]]
LiveInvalid == {b2}
LiveBadBody == {a2}
===============================================================================
