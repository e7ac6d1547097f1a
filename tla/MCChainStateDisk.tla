--------------------------- MODULE MCChainStateDisk ---------------------------
(* Instances of ChainStateDisk on the block trees of MCChainState. *)
EXTENDS MCChainState, ChainStateDisk

\* Two branches; the longer one ends in a block that fails ConnectBlock.
DiskBlocks == {g, a1, a2, b1, b2}
DiskParent == [b \in DiskBlocks \ {g} |-> MCParent[b]]
DiskAnc == [b \in DiskBlocks |-> MCAnc[b]]
DiskWork == [b \in DiskBlocks |-> MCWork[b]]
DiskAddr == [b \in DiskBlocks |-> MCAddr[b]]
DiskInvalid == {b2}

\* One fork is enough when the RPCs move the tip as well.
ForkBlocks == {g, a1, b1}
ForkParent == [b \in ForkBlocks \ {g} |-> MCParent[b]]
ForkAnc == [b \in ForkBlocks |-> MCAnc[b]]
ForkWork == [b \in ForkBlocks |-> MCWork[b]]
ForkAddr == [b \in ForkBlocks |-> MCAddr[b]]
DiskThreads == {t1}
===============================================================================
