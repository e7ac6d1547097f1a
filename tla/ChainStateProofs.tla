--------------------------- MODULE ChainStateProofs ---------------------------
(***************************************************************************)
(* Theorems about ChainState for every block tree, every set of threads and *)
(* every choice of bad blocks.  The first part is about a node that gets no  *)
(* invalidateblock or reconsiderblock (NetSpec); the second is about the     *)
(* order of the writes in FlushStateToDisk, with a crash at any place, and   *)
(* with and without the two commands (CrashSpec).                           *)
(***************************************************************************)
EXTENDS ChainStateDisk, TLAPS

-------------------------------------------------------------------------------
(* The inductive invariant *)

\* Who is where: the sections under cs_main exclude each other, and the thread in a step
\* goes for the best candidate, with no marked block on the way to it.
ThreadInv ==
    /\ \A t \in Threads : pc[t] \notin {"walk", "aborted"}
    /\ \A t, u \in Threads : t # u /\ pc[t] \in {"find", "step"} => pc[u] \notin {"find", "step"}
    /\ \A t \in Threads : pc[t] = "step" =>
         /\ IsBest(target[t])
         /\ Anc[target[t]] \cap failed = {}
         /\ oldTip[t] \in Blocks /\ Work[target[t]] >= Work[oldTip[t]]

\* The blocks that were connected at least once: closed under ancestors, never marked.
ConnInv ==
    /\ tip \in connected /\ Genesis \in connected
    /\ connected \subseteq chainTx
    /\ \A b \in connected : Anc[b] \subseteq connected
    /\ connected \cap (failed \cup Invalid \cup BadBody) = {}

\* The bookkeeping of complete and of waiting blocks.
LinkInv ==
    /\ \A b \in index \ {Genesis} : Parent[b] \in index
    /\ data \cap BadBody = {}
    /\ cands \subseteq chainTx
    /\ \A b \in failed : b \in chainTx \/ b \in BadBody
    /\ \A b \in data \ chainTx : <<Parent[b], b>> \in unlinked \/ Parent[b] \in BadBody
    /\ \A p \in unlinked : \E b \in data \ chainTx : p = <<Parent[b], b>>

\* All unmarked complete chains that are not worse than f are candidates.
Complete(f) ==
    \A b \in chainTx : Anc[b] \cap failed = {} /\ ~ Worse(b, f) => b \in cands

\* A candidate that is known to be valid, not worse than the tip, and above which no
\* complete chain was forgotten: what a failed reorganisation falls back to.
FloorInv == \E f \in cands \cap connected : ~ Worse(f, tip) /\ Complete(f)

\* A better candidate than the tip always has a thread that will still look for it.
PendingInv ==
    \/ \A c \in cands : ~ Worse(tip, c)
    \/ \E t \in Threads : \/ pc[t] \in {"activate", "find", "step"}
                          \/ pc[t] = "notify" /\ target[t] # tip

IInv ==
    /\ TypeOK
    /\ ChainTxExact
    /\ ThreadInv
    /\ ConnInv
    /\ LinkInv
    /\ FloorInv
    /\ PendingInv

-------------------------------------------------------------------------------
(* Lemmas about the tree and the order of the candidates *)

\* CBlockIndexWorkComparator is a strict total order on the blocks.
LEMMA WorseOrder ==
    ASSUME NEW s \in [Blocks -> Nat]
    PROVE  /\ \A a, b \in Blocks : WorseBy(s, a, b) => ~ WorseBy(s, b, a)
           /\ \A a, b \in Blocks : a # b => WorseBy(s, a, b) \/ WorseBy(s, b, a)
           /\ \A a, b, c \in Blocks : WorseBy(s, a, b) /\ WorseBy(s, b, c) => WorseBy(s, a, c)
           /\ \A a, b, c \in Blocks : ~ WorseBy(s, a, b) /\ ~ WorseBy(s, b, c) => ~ WorseBy(s, a, c)
  <1>1. \A a, b \in Blocks : WorseBy(s, a, b) => ~ WorseBy(s, b, a)
    BY WorkAssumption, AddrAssumption DEF WorseBy
  <1>2. \A a, b \in Blocks : a # b => WorseBy(s, a, b) \/ WorseBy(s, b, a)
    BY WorkAssumption, AddrAssumption DEF WorseBy
  <1>3. \A a, b, c \in Blocks : WorseBy(s, a, b) /\ WorseBy(s, b, c) => WorseBy(s, a, c)
    BY WorkAssumption, AddrAssumption DEF WorseBy
  <1>4. \A a, b, c \in Blocks : ~ WorseBy(s, a, b) /\ ~ WorseBy(s, b, c) => ~ WorseBy(s, a, c)
    BY Zenon, <1>1, <1>2, <1>3
  <1>5. QED  BY Zenon, <1>1, <1>2, <1>3, <1>4

\* A block is among its own ancestors, and its ancestors' ancestors are its own.
LEMMA AncFacts ==
    /\ \A b \in Blocks : b \in Anc[b] /\ Anc[b] \subseteq Blocks
    /\ \A b \in Blocks : \A a \in Anc[b] : Anc[a] \subseteq Anc[b]
    /\ \A a, b \in Blocks : a \in Anc[b] /\ b \in Anc[a] => a = b
    /\ \A b \in Blocks \ {Genesis} : Parent[b] \in Blocks /\ Parent[b] # b
  <1>1. \A b \in Blocks : b \in Anc[b] /\ Anc[b] \subseteq Blocks
    BY TreeAssumption, GenesisAssumption
  <1>2. \A b \in Blocks : \A a \in Anc[b] : Anc[a] \subseteq Anc[b]
    BY Zenon, TreeAssumption
  <1>3. \A a, b \in Blocks : a \in Anc[b] /\ b \in Anc[a] => a = b
    BY WorkAssumption
  <1>4. \A b \in Blocks \ {Genesis} : Parent[b] \in Blocks /\ Parent[b] # b
    BY Zenon, TreeAssumption, <1>1
  <1>5. QED  BY Zenon, <1>1, <1>2, <1>3, <1>4

\* All ancestors of a complete block are stored and complete themselves.
LEMMA CompleteAncestors ==
    ASSUME TypeOK, ChainTxExact, NEW b \in chainTx
    PROVE  Anc[b] \subseteq data \cap chainTx
  BY Zenon, AncFacts DEF TypeOK, ChainTxExact

\* FindMostWorkChain and the step see the tip through the best candidate.
LEMMA BestIsTop ==
    ASSUME TypeOK, NEW b \in cands, IsBest(b), NEW c \in cands
    PROVE  ~ Worse(b, c)
  BY Zenon, WorseOrder DEF TypeOK, IsBest, Worse

\* What a step that leaves the variables of a conjunct alone leaves of the invariant.
LEMMA Frame ==
    ASSUME IInv
    PROVE  /\ UNCHANGED <<index, data, chainTx>> => ChainTxExact'
           /\ UNCHANGED <<tip, connected, chainTx, failedValid, failedChild>> => ConnInv'
           /\ UNCHANGED <<index, data, chainTx, cands, unlinked, failedValid, failedChild>> => LinkInv'
           /\ UNCHANGED <<tip, connected, chainTx, cands, seq, failedValid, failedChild>> => FloorInv'
  <1>1. UNCHANGED <<index, data, chainTx>> => ChainTxExact'
    BY Zenon DEF IInv, ChainTxExact
  <1>2. UNCHANGED <<tip, connected, chainTx, failedValid, failedChild>> => ConnInv'
    BY Zenon DEF IInv, ConnInv, failed
  <1>3. UNCHANGED <<index, data, chainTx, cands, unlinked, failedValid, failedChild>> => LinkInv'
    BY Zenon DEF IInv, LinkInv, failed
  <1>4. UNCHANGED <<tip, connected, chainTx, cands, seq, failedValid, failedChild>> => FloorInv'
    BY Zenon DEF IInv, FloorInv, Complete, failed, Worse, WorseBy
  <1>5. QED  BY Zenon, <1>1, <1>2, <1>3, <1>4

\* The initial state satisfies the invariant.
LEMMA InitIInv == Init => IInv
  <1> SUFFICES ASSUME Init PROVE IInv
    OBVIOUS
  <1> USE GenesisAssumption, ThreadsAssumption
  <1>a. Anc[Genesis] = {Genesis}
    BY Zenon, TreeAssumption
  <1>b. ~ Worse(Genesis, Genesis)
    BY WorseOrder, WorkAssumption DEF Init, Worse, WorseBy
  <1>1. TypeOK
    BY Zenon DEF Init, TypeOK
  <1>2. ChainTxExact
    BY Zenon, <1>a DEF Init, ChainTxExact
  <1>3. ThreadInv
    BY Zenon DEF Init, ThreadInv
  <1>4. ConnInv
    BY Zenon, <1>a, FaultAssumption DEF Init, ConnInv, failed
  <1>5. LinkInv
    BY Zenon, FaultAssumption DEF Init, LinkInv, failed
  <1>6. FloorInv
    BY Zenon, <1>b DEF Init, FloorInv, Complete, failed
  <1>7. PendingInv
    BY Zenon, <1>b DEF Init, PendingInv
  <1>8. QED  BY Zenon, <1>1, <1>2, <1>3, <1>4, <1>5, <1>6, <1>7 DEF IInv

-------------------------------------------------------------------------------
(* Headers and blocks coming in *)

\* A new header: nothing that is claimed about stored blocks is touched.
LEMMA HeaderStep ==
    ASSUME IInv, NEW b \in Blocks, AcceptBlockHeader(b)
    PROVE  IInv'
  <1> USE DEF AcceptBlockHeader, AddToBlockIndex, threadVars, failed
  <1>a. b \notin index /\ b # Genesis /\ Parent[b] \in index
    BY Zenon DEF HeaderOK
  <1>b. \A c, d : Worse(c, d)' <=> Worse(c, d)
    BY Zenon DEF Worse, WorseBy
  <1>1. TypeOK'
    BY Zenon DEF IInv, TypeOK
  <1>2. ChainTxExact'
    BY Zenon, <1>a, AncFacts DEF IInv, TypeOK, ChainTxExact
  <1>3. ThreadInv'
    BY Zenon, <1>b DEF IInv, ThreadInv, IsBest
  <1>4. ConnInv'
    BY Zenon, Frame
  <1>5. LinkInv'
    BY Zenon, <1>a DEF IInv, LinkInv
  <1>6. FloorInv'
    BY Zenon, Frame
  <1>7. PendingInv'
    BY Zenon, <1>b DEF IInv, PendingInv
  <1>8. QED  BY Zenon, <1>1, <1>2, <1>3, <1>4, <1>5, <1>6, <1>7 DEF IInv

\* A block with a bad body is marked; it was never stored, so no complete chain has it.
LEMMA BadBlockStep ==
    ASSUME IInv, NEW b \in Blocks, AcceptBadBlock(b)
    PROVE  IInv'
  <1> USE DEF AcceptBadBlock, AddToBlockIndex, threadVars, failed
  <1>a. b \notin data /\ b \in BadBody /\ b \notin chainTx
    BY Zenon DEF IInv, TypeOK
  <1>b. \A c, d : Worse(c, d)' <=> Worse(c, d)
    BY Zenon DEF Worse, WorseBy
  <1>c. b \in index \/ Parent[b] \in index
    BY Zenon DEF HeaderOK
  <1>1. TypeOK'
    BY Zenon DEF IInv, TypeOK
  <1>2. ChainTxExact'
    BY Zenon, <1>a, AncFacts DEF IInv, TypeOK, ChainTxExact
  <1>3. ThreadInv'
    <2>1. \A t \in Threads : pc[t] # "step"
      BY Zenon DEF LockFree
    <2>2. QED  BY Zenon, <2>1 DEF IInv, ThreadInv
  <1>4. ConnInv'
    BY Zenon, <1>a DEF IInv, ConnInv
  <1>5. LinkInv'
    BY Zenon, <1>a, <1>c DEF IInv, LinkInv
  <1>6. FloorInv'
    BY Zenon, <1>b DEF IInv, FloorInv, Complete
  <1>7. PendingInv'
    BY Zenon, <1>b DEF IInv, PendingInv
  <1>8. QED  BY Zenon, <1>1, <1>2, <1>3, <1>4, <1>5, <1>6, <1>7 DEF IInv

\* A block that is already stored only starts another run of ActivateBestChain.
LEMMA KnownBlockStep ==
    ASSUME IInv, NEW t \in Threads, NEW b \in Blocks, AcceptKnownBlock(t, b)
    PROVE  IInv'
  <1> USE DEF AcceptKnownBlock, treeVars, failed
  <1>b. \A c, d : Worse(c, d)' <=> Worse(c, d)
    BY Zenon DEF Worse, WorseBy
  <1>c. \A u \in Threads : pc'[u] = IF u = t THEN "activate" ELSE pc[u]
    BY Zenon DEF IInv, TypeOK
  <1>1. TypeOK'
    BY Zenon DEF IInv, TypeOK
  <1>2. ChainTxExact'
    BY Zenon, Frame
  <1>3. ThreadInv'
    BY <1>c DEF IInv, ThreadInv, LockFree
  <1>4. ConnInv'
    BY Zenon, Frame
  <1>5. LinkInv'
    BY Zenon, Frame
  <1>6. FloorInv'
    BY Zenon, Frame
  <1>7. PendingInv'
    BY Zenon, <1>c DEF PendingInv
  <1>8. QED  BY Zenon, <1>1, <1>2, <1>3, <1>4, <1>5, <1>6, <1>7 DEF IInv

\* ReceivedBlockTransactions walks mapBlocksUnlinked: the blocks it links are exactly the
\* stored descendants of b whose ancestors have all arrived now.
LEMMA LinkedFacts ==
    ASSUME IInv, NEW b \in Blocks, b \notin data, b \notin BadBody, b # Genesis,
           Parent[b] \in chainTx
    PROVE  /\ b \in Linked(b) /\ Linked(b) \subseteq data \cup {b}
           /\ Linked(b) \cap chainTx = {}
           /\ \A d \in Linked(b) : Anc[d] \subseteq data \cup {b}
           /\ \A d \in Blocks : Anc[d] \subseteq data \cup {b} => d \in chainTx \cup Linked(b)
           /\ \A d \in data \ chainTx : <<Parent[d], d>> \in unlinked =>
                (Parent[d] \in Linked(b) <=> d \in Linked(b))
  <1> USE DEF IInv, TypeOK
  <1>1. b \in Linked(b) /\ Linked(b) \subseteq data \cup {b}
    BY Zenon, AncFacts DEF Linked
  <1>2. Linked(b) \cap chainTx = {}
    BY Zenon, CompleteAncestors DEF Linked
  <1>3. \A d \in Linked(b) : Anc[d] \subseteq data \cup {b}
    <2> SUFFICES ASSUME NEW d \in Linked(b), NEW x \in Anc[d] PROVE x \in data \cup {b}
      OBVIOUS
    <2>1. CASE x \in Anc[b]
      <3>1. Anc[b] = Anc[Parent[b]] \cup {b}
        BY Zenon, TreeAssumption
      <3>2. Anc[Parent[b]] \subseteq data
        BY Zenon, CompleteAncestors
      <3>3. QED  BY Zenon, <2>1, <3>1, <3>2
    <2>2. CASE x \notin Anc[b]
      <3>1. <<Parent[x], x>> \in unlinked
        BY Zenon, <2>2 DEF Linked
      <3>2. <<Parent[x], x>> \in index \X data
        BY Zenon, <3>1
      <3>3. QED  BY Zenon, <3>2
    <2>3. QED  BY Zenon, <2>1, <2>2
  <1>4. ASSUME NEW d \in Blocks, Anc[d] \subseteq data \cup {b}, d \notin chainTx
        PROVE  d \in Linked(b)
    <2>1. d \in data \cup {b}
      BY Zenon, <1>4, AncFacts
    <2>2. b \in Anc[d]
      <3>1. CASE d = b
        BY Zenon, <3>1, AncFacts
      <3>2. CASE d # b
        BY <3>2, <1>4, <2>1 DEF ChainTxExact
      <3>3. QED  BY Zenon, <3>1, <3>2
    <2>3. ASSUME NEW x \in Anc[d], x \notin Anc[b]
          PROVE  <<Parent[x], x>> \in unlinked
      <3>1. x \in data /\ x # Genesis /\ x \in Blocks
        BY Zenon, <2>3, <1>4, AncFacts, TreeAssumption
      <3>2. x \notin chainTx
        <4>1. b \in Anc[x]
          BY Zenon, <2>2, <2>3, LinearAssumption
        <4>2. QED  BY Zenon, <4>1, CompleteAncestors
      <3>3. Parent[x] \in Anc[d]
        BY <3>1, AncFacts, TreeAssumption
      <3>4. Parent[x] \notin BadBody
        BY Zenon, <3>3, <1>4 DEF LinkInv
      <3>5. QED  BY Zenon, <3>1, <3>2, <3>4 DEF LinkInv
    <2>4. QED  BY Zenon, <2>1, <2>2, <2>3 DEF Linked
  <1>5. ASSUME NEW d \in data \ chainTx, <<Parent[d], d>> \in unlinked
        PROVE  Parent[d] \in Linked(b) <=> d \in Linked(b)
    <2>0. d \in Blocks /\ d # Genesis /\ d # b /\ Parent[d] \in Blocks
      BY AncFacts DEF ConnInv
    <2>1. Anc[d] = Anc[Parent[d]] \cup {d}
      BY Zenon, <2>0, TreeAssumption
    <2>2. Parent[d] \in Linked(b) => d \in Linked(b)
      BY Zenon, <2>1, <1>5 DEF Linked
    <2>3. ASSUME d \in Linked(b) PROVE Parent[d] \in Linked(b)
      <3>1. b \in Anc[Parent[d]]
        BY Zenon, <2>3, <2>1, <2>0 DEF Linked
      <3>2. Parent[d] \in data \cup {b}
        BY Zenon, <2>3, <1>3, <2>1, AncFacts, <2>0
      <3>3. QED  BY Zenon, <3>1, <3>2, <2>1, <2>3 DEF Linked
    <2>4. QED  BY Zenon, <2>2, <2>3
  <1>6. QED  BY Zenon, <1>1, <1>2, <1>3, <1>4, <1>5

\* The order of the stored blocks does not change when b gets its sequence number.
LEMMA NewBlockStep ==
    ASSUME IInv, NEW t \in Threads, NEW b \in Blocks, AcceptBlock(t, b)
    PROVE  IInv'
  <1> USE DEF AcceptBlock, AddToBlockIndex, ReceivedBlockTransactions
  <1>a. b \notin data /\ b \notin BadBody /\ b # Genesis /\ b \notin chainTx
    BY Zenon DEF IInv, TypeOK, ConnInv
  <1>b. Parent[b] \in index /\ Parent[b] \in Blocks /\ Parent[b] # b
    BY Zenon, <1>a, AncFacts DEF HeaderOK, IInv, LinkInv
  <1>c. \A c, d \in data : Worse(c, d)' <=> Worse(c, d)
    BY Zenon, <1>a DEF IInv, TypeOK, Worse, WorseBy
  <1>d. \A u \in Threads : pc'[u] = IF u = t THEN "activate" ELSE pc[u]
    BY Zenon DEF IInv, TypeOK
  <1>e. failed' = failed
    BY Zenon DEF failed
  <1>f. \A u \in Threads : pc[u] \notin {"find", "step"}
    BY Zenon DEF LockFree
  <1>3. ThreadInv'
    BY <1>d, <1>f DEF IInv, ThreadInv
  <1>7. PendingInv'
    BY Zenon, <1>d DEF PendingInv
  <1>8. CASE Parent[b] \in chainTx
    <2>a. chainTx' = chainTx \cup Linked(b) /\ cands' = cands \cup Linked(b)
      BY Zenon, <1>8
    <2>b. unlinked' = {p \in unlinked : p[1] \notin Linked(b)}
      BY Zenon, <1>8
    <2>c. /\ b \in Linked(b) /\ Linked(b) \subseteq data \cup {b}
          /\ Linked(b) \cap chainTx = {}
          /\ \A d \in Linked(b) : Anc[d] \subseteq data \cup {b}
          /\ \A d \in Blocks : Anc[d] \subseteq data \cup {b} => d \in chainTx \cup Linked(b)
          /\ \A d \in data \ chainTx : <<Parent[d], d>> \in unlinked =>
               (Parent[d] \in Linked(b) <=> d \in Linked(b))
      BY Zenon, <1>8, <1>a, LinkedFacts
    <2>1. TypeOK'
      BY <2>a, <2>b, <2>c DEF IInv, TypeOK
    <2>2. ChainTxExact'
      BY <2>a, <2>c DEF IInv, TypeOK, ChainTxExact
    <2>4. ConnInv'
      BY Zenon, <2>a, <1>e DEF IInv, ConnInv
    <2>5. LinkInv'
      <3>1. \A c \in index' \ {Genesis} : Parent[c] \in index'
        BY Zenon, <1>b DEF IInv, LinkInv
      <3>2. data' \cap BadBody = {} /\ cands' \subseteq chainTx'
        BY <2>a, <1>a DEF IInv, LinkInv
      <3>3. \A c \in failed' : c \in chainTx' \/ c \in BadBody
        BY Zenon, <2>a, <1>e DEF IInv, LinkInv
      <3>4. ASSUME NEW d \in data' \ chainTx', Parent[d] \notin BadBody
            PROVE  <<Parent[d], d>> \in unlinked'
        <4>1. d \in data \ chainTx /\ d \notin Linked(b)
          BY <2>a, <2>c
        <4>2. <<Parent[d], d>> \in unlinked
          BY Zenon, <4>1, <3>4 DEF IInv, LinkInv
        <4>3. QED  BY Zenon, <4>1, <4>2, <2>b, <2>c
      <3>5. ASSUME NEW p \in unlinked'
            PROVE  \E d \in data' \ chainTx' : p = <<Parent[d], d>>
        <4>1. PICK d \in data \ chainTx : p = <<Parent[d], d>>
          BY Zenon, <2>b DEF IInv, LinkInv
        <4>2. d \notin Linked(b)
          BY Zenon, <4>1, <2>b, <2>c
        <4>3. QED  BY Zenon, <4>1, <4>2, <2>a
      <3>6. QED  BY Zenon, <3>1, <3>2, <3>3, <3>4, <3>5 DEF LinkInv
    <2>6. FloorInv'
      <3>1. PICK f \in cands \cap connected : ~ Worse(f, tip) /\ Complete(f)
        BY Zenon DEF IInv, FloorInv
      <3>2. f \in data /\ tip \in data
        BY Zenon DEF IInv, TypeOK, ConnInv
      <3>3. f \in cands' \cap connected' /\ ~ Worse(f, tip)'
        BY Zenon, <3>1, <3>2, <1>c, <2>a
      <3>4. Complete(f)'
        BY Zenon, <3>1, <3>2, <1>c, <1>e, <2>a DEF Complete, IInv, TypeOK
      <3>5. QED  BY Zenon, <3>3, <3>4 DEF FloorInv
    <2>7. QED  BY Zenon, <2>1, <2>2, <1>3, <2>4, <2>5, <2>6, <1>7 DEF IInv
  <1>9. CASE Parent[b] \notin chainTx
    <2>a. chainTx' = chainTx /\ cands' = cands
      BY Zenon, <1>9
    <2>b. unlinked' = IF Parent[b] \in failed THEN unlinked
                      ELSE unlinked \cup {<<Parent[b], b>>}
      BY Zenon, <1>9
    <2>1. TypeOK'
      BY <2>a, <2>b, <1>b DEF IInv, TypeOK
    <2>2. ChainTxExact'
      <3> SUFFICES ASSUME NEW d \in index', Anc[d] \subseteq data' PROVE d \in chainTx
        BY Zenon, <2>a, <1>a DEF ChainTxExact, IInv, TypeOK
      <3>1. d \in Blocks
        BY Zenon DEF IInv, TypeOK
      <3>2. b \notin Anc[d]
        <4> SUFFICES ASSUME b \in Anc[d] PROVE FALSE
          OBVIOUS
        <4>1. Anc[Parent[b]] \subseteq Anc[d] /\ b \notin Anc[Parent[b]]
          BY Zenon, <3>1, <1>a, TreeAssumption, AncFacts
        <4>2. Anc[Parent[b]] \subseteq data
          BY Zenon, <4>1
        <4>3. QED  BY Zenon, <4>2, <1>b, <1>9 DEF IInv, ChainTxExact
      <3>3. d # b /\ Anc[d] \subseteq data
        BY Zenon, <3>1, <3>2, AncFacts
      <3>4. QED  BY Zenon, <3>3 DEF IInv, ChainTxExact
    <2>4. ConnInv'
      BY Zenon, <2>a, <1>e DEF IInv, ConnInv
    <2>5. LinkInv'
      <3>1. \A c \in index' \ {Genesis} : Parent[c] \in index'
        BY Zenon, <1>b DEF IInv, LinkInv
      <3>2. data' \cap BadBody = {} /\ cands' \subseteq chainTx'
        BY Zenon, <2>a, <1>a DEF IInv, LinkInv
      <3>3. \A c \in failed' : c \in chainTx' \/ c \in BadBody
        BY Zenon, <2>a, <1>e DEF IInv, LinkInv
      <3>4. \A d \in data' \ chainTx' : <<Parent[d], d>> \in unlinked' \/ Parent[d] \in BadBody
        BY Zenon, <2>a, <2>b, <1>9 DEF IInv, LinkInv
      <3>5. ASSUME NEW p \in unlinked'
            PROVE  \E d \in data' \ chainTx' : p = <<Parent[d], d>>
        <4>1. CASE p \in unlinked
          BY Zenon, <4>1, <2>a DEF IInv, LinkInv
        <4>2. CASE p = <<Parent[b], b>>
          BY Zenon, <4>2, <2>a, <1>a
        <4>3. QED  BY Zenon, <4>1, <4>2, <2>b
      <3>6. QED  BY Zenon, <3>1, <3>2, <3>3, <3>4, <3>5 DEF LinkInv
    <2>6. FloorInv'
      <3>1. PICK f \in cands \cap connected : ~ Worse(f, tip) /\ Complete(f)
        BY Zenon DEF IInv, FloorInv
      <3>2. f \in data /\ tip \in data
        BY Zenon DEF IInv, TypeOK, ConnInv
      <3>3. f \in cands' \cap connected' /\ ~ Worse(f, tip)'
        BY Zenon, <3>1, <3>2, <1>c, <2>a
      <3>4. Complete(f)'
        BY Zenon, <3>1, <3>2, <1>c, <1>e, <2>a DEF Complete, IInv, TypeOK
      <3>5. QED  BY Zenon, <3>3, <3>4 DEF FloorInv
    <2>7. QED  BY Zenon, <2>1, <2>2, <1>3, <2>4, <2>5, <2>6, <1>7 DEF IInv
  <1>10. QED  BY Zenon, <1>8, <1>9

-------------------------------------------------------------------------------
(* FindMostWorkChain *)

\* No assert on the walk down from a candidate can fail.
LEMMA WalkIsSafe ==
    ASSUME IInv, NEW b \in cands
    PROVE  AssertsOnWalk(b) /\ Branch(b) \subseteq chainTx
  BY Zenon, CompleteAncestors DEF IInv, LinkInv, AssertsOnWalk, Branch

\* Dropping a branch marks only blocks above a marked block, none of which was connected.
LEMMA DropStep ==
    ASSUME IInv, NEW t \in Threads, DropFailedBranch(t)
    PROVE  IInv'
  <1>u. /\ pc' = [pc EXCEPT ![t] = "find"] /\ Finding(t)
        /\ UNCHANGED <<index, data, connected, failedValid, chainTx, seq, nextSeq, unlinked, tip>>
        /\ UNCHANGED <<bestHeader, dirty, target, oldTip>>
    BY Zenon DEF DropFailedBranch
  <1>1. PICK b \in cands, f \in failed :
           /\ FirstFailed(b, f)
           /\ UpdateBestInvalid(b)
           /\ failedChild' = failedChild \cup (Branch(b) \ Anc[f])
           /\ cands' = cands \ ((Branch(b) \ Anc[f]) \cup {f})
    BY Zenon DEF DropFailedBranch
  <1> DEFINE above == Branch(b) \ Anc[f]
  <1>a. /\ Branch(b) \subseteq chainTx /\ chainTx \subseteq data
        /\ data \subseteq index /\ index \subseteq Blocks /\ b \in Blocks
    BY Zenon, <1>u, WalkIsSafe DEF IInv, TypeOK
  <1>b. \A c, d : Worse(c, d)' <=> Worse(c, d)
    BY Zenon, <1>u DEF Worse, WorseBy
  <1>c. \A u \in Threads : pc'[u] = IF u = t THEN "find" ELSE pc[u]
    BY Zenon, <1>u DEF IInv, TypeOK
  <1>d. failed' = failed \cup above /\ f \in Branch(b)
    BY Zenon, <1>u, <1>1 DEF failed, FirstFailed
  <1>e. \A x \in above : f \in Anc[x]
    BY Zenon, <1>u, <1>a, <1>d, LinearAssumption DEF Branch
  <1>f. connected \cap (above \cup {f}) = {}
    BY Zenon, <1>u, <1>e DEF IInv, ConnInv
  <1>2. TypeOK'
    BY Zenon, <1>u, <1>1, <1>a DEF IInv, TypeOK, UpdateBestInvalid
  <1>3. ChainTxExact'
    BY Zenon, <1>u, Frame
  <1>4. ThreadInv'
    <2>1. \A u \in Threads : u # t => pc[u] \notin {"find", "step"}
      BY Zenon, <1>u DEF IInv, ThreadInv, Finding, LockFree
    <2>2. \A u \in Threads : pc'[u] \notin {"walk", "aborted", "step"}
      BY <1>u, <1>c, <2>1 DEF IInv, ThreadInv
    <2>3. \A u, v \in Threads :
             u # v /\ pc'[u] \in {"find", "step"} => pc'[v] \notin {"find", "step"}
      BY Zenon, <1>c, <2>1
    <2>4. QED  BY Zenon, <2>2, <2>3 DEF ThreadInv
  <1>5. ConnInv'
    BY Zenon, <1>u, <1>d, <1>f DEF IInv, ConnInv
  <1>6. LinkInv'
    BY Zenon, <1>u, <1>1, <1>a, <1>d DEF IInv, LinkInv
  <1>7. FloorInv'
    <2>1. PICK g \in cands \cap connected : ~ Worse(g, tip) /\ Complete(g)
      BY Zenon, <1>u DEF IInv, FloorInv
    <2>2. g \in cands' \cap connected' /\ ~ Worse(g, tip)'
      BY Zenon, <1>u, <1>1, <1>b, <1>f, <2>1
    <2>3. ASSUME NEW c \in chainTx', Anc[c] \cap failed' = {}, ~ Worse(c, g)'
          PROVE  c \in cands'
      <3>1. c \in cands
        BY Zenon, <1>u, <2>1, <2>3, <1>b, <1>d DEF Complete
      <3>2. c \in Anc[c]
        BY Zenon, <1>u, <3>1, <1>a, AncFacts DEF IInv, TypeOK
      <3>3. QED  BY Zenon, <1>u, <1>1, <1>d, <2>3, <3>1, <3>2
    <2>4. QED  BY Zenon, <1>u, <2>2, <2>3 DEF FloorInv, Complete
  <1>8. PendingInv'
    BY Zenon, <1>u, <1>c DEF PendingInv
  <1>9. QED  BY Zenon, <1>2, <1>3, <1>4, <1>5, <1>6, <1>7, <1>8 DEF IInv

\* FindMostWorkChain returns NULL or the tip only when the tip is the best candidate.
LEMMA NothingStep ==
    ASSUME IInv, NEW t \in Threads, NothingToDo(t)
    PROVE  IInv'
  <1>u. /\ Finding(t) /\ Leave(t) /\ (cands = {} \/ IsBest(tip))
        /\ UNCHANGED <<index, data, connected, failedValid, failedChild, chainTx, seq, nextSeq>>
        /\ UNCHANGED <<unlinked, bestHeader, cands, tip, bestInvalid, dirty>>
    BY Zenon DEF NothingToDo, treeVars
  <1> USE DEF failed
  <1>b. \A c, d : Worse(c, d)' <=> Worse(c, d)
    BY Zenon, <1>u DEF Worse, WorseBy
  <1>c. \A u \in Threads : u # t => pc'[u] = pc[u] /\ target'[u] = target[u] /\ oldTip'[u] = oldTip[u]
    BY Zenon, <1>u DEF IInv, TypeOK, Leave
  <1>d. pc'[t] = "idle"
    BY Zenon, <1>u DEF IInv, TypeOK, Leave
  <1>1. TypeOK'
    BY Zenon, <1>u DEF IInv, TypeOK, Leave
  <1>2. ChainTxExact'
    BY Zenon, <1>u, Frame
  <1>3. ThreadInv'
    BY Zenon, <1>u, <1>b, <1>c, <1>d DEF IInv, ThreadInv, IsBest
  <1>4. ConnInv'
    BY Zenon, <1>u, Frame
  <1>5. LinkInv'
    BY Zenon, <1>u, Frame
  <1>6. FloorInv'
    BY Zenon, <1>u, Frame
  <1>7. PendingInv'
    <2>1. IsBest(tip)
      BY Zenon, <1>u DEF IInv, FloorInv
    <2>2. \A c \in cands : ~ Worse(tip, c)
      BY Zenon, <1>u, <2>1, BestIsTop DEF IsBest, IInv
    <2>3. QED  BY Zenon, <1>u, <2>2, <1>b DEF PendingInv
  <1>8. QED  BY Zenon, <1>1, <1>2, <1>3, <1>4, <1>5, <1>6, <1>7 DEF IInv

\* The chain a step starts for has no marked block and at least the work of the tip.
LEMMA FoundStep ==
    ASSUME IInv, NEW t \in Threads, FoundMostWork(t)
    PROVE  IInv'
  <1>1. PICK b \in cands : /\ IsBest(b) /\ b # tip /\ Branch(b) \cap failed = {}
                           /\ target' = [target EXCEPT ![t] = b]
                           /\ pc' = [pc EXCEPT ![t] = "step"]
    BY Zenon, WalkIsSafe DEF FoundMostWork
  <1>u. /\ pc' = [pc EXCEPT ![t] = "step"] /\ oldTip' = [oldTip EXCEPT ![t] = tip] /\ Finding(t)
        /\ UNCHANGED <<index, data, connected, failedValid, failedChild, chainTx, seq, nextSeq>>
        /\ UNCHANGED <<unlinked, bestHeader, cands, tip, bestInvalid, dirty>>
    BY Zenon, <1>1 DEF FoundMostWork, treeVars
  <1> USE DEF failed
  <1>b. \A c, d : Worse(c, d)' <=> Worse(c, d)
    BY Zenon, <1>u DEF Worse, WorseBy
  <1>c. \A u \in Threads : u # t => pc'[u] = pc[u] /\ target'[u] = target[u] /\ oldTip'[u] = oldTip[u]
    BY Zenon, <1>u, <1>1 DEF IInv, TypeOK
  <1>d. pc'[t] = "step" /\ target'[t] = b /\ oldTip'[t] = tip
    BY Zenon, <1>u, <1>1 DEF IInv, TypeOK
  <1>e. Anc[b] \cap failed = {}
    BY Zenon, <1>u, <1>1 DEF IInv, ConnInv, Branch
  <1>f. Work[b] >= Work[tip]
    <2>1. PICK f \in cands : ~ Worse(f, tip)
      BY Zenon, <1>u DEF IInv, FloorInv
    <2>2. ~ Worse(b, f)
      BY Zenon, <1>u, <1>1, BestIsTop DEF IInv
    <2>3. ~ Worse(b, tip) /\ b \in Blocks /\ tip \in Blocks
      BY Zenon, <1>u, <2>1, <2>2, WorseOrder DEF IInv, TypeOK, Worse
    <2>4. QED  BY <1>u, <2>3, WorkAssumption DEF Worse, WorseBy
  <1>2. TypeOK'
    BY Zenon, <1>u, <1>1 DEF IInv, TypeOK
  <1>3. ChainTxExact'
    BY Zenon, <1>u, Frame
  <1>4. ThreadInv'
    <2>1. \A u \in Threads : u # t => pc[u] \notin {"find", "step"}
      BY Zenon, <1>u DEF IInv, ThreadInv, Finding, LockFree
    <2>2. IsBest(b)'
      BY Zenon, <1>u, <1>1, <1>b DEF IsBest
    <2>3. tip \in Blocks
      BY Zenon, <1>u DEF IInv, TypeOK
    <2>4. QED  BY Zenon, <1>u, <1>c, <1>d, <1>e, <1>f, <2>1, <2>2, <2>3 DEF IInv, ThreadInv
  <1>5. ConnInv'
    BY Zenon, <1>u, Frame
  <1>6. LinkInv'
    BY Zenon, <1>u, Frame
  <1>7. FloorInv'
    BY Zenon, <1>u, Frame
  <1>8. PendingInv'
    BY Zenon, <1>u, <1>d DEF PendingInv
  <1>9. QED  BY Zenon, <1>2, <1>3, <1>4, <1>5, <1>6, <1>7, <1>8 DEF IInv

-------------------------------------------------------------------------------
(* ActivateBestChainStep and the loop around it *)

\* Disconnecting a block leaves all candidates in place.
LEMMA DisconnectStep ==
    ASSUME IInv, NEW t \in Threads, DisconnectTip(t)
    PROVE  IInv'
  <1>u. /\ pc[t] = "step" /\ tip \notin Anc[target[t]] /\ tip' = Parent[tip]
        /\ pc' = [pc EXCEPT ![t] = IF Parent[tip] = target[t] THEN "notify" ELSE "step"]
        /\ UNCHANGED <<index, data, connected, failedValid, failedChild, chainTx, seq, nextSeq>>
        /\ UNCHANGED <<unlinked, bestHeader, cands, bestInvalid, dirty, target, oldTip>>
    BY Zenon DEF DisconnectTip, treeVars
  <1> USE DEF failed
  <1>a. tip \in Blocks /\ tip # Genesis /\ target[t] \in cands /\ target[t] \in Blocks
    BY Zenon, <1>u, TreeAssumption DEF IInv, TypeOK, ThreadInv, IsBest
  <1>b. \A c, d : Worse(c, d)' <=> Worse(c, d)
    BY Zenon, <1>u DEF Worse, WorseBy
  <1>c. \A u \in Threads : u # t => pc'[u] = pc[u]
    BY Zenon, <1>u DEF IInv, TypeOK
  <1>d. pc'[t] = (IF Parent[tip] = target[t] THEN "notify" ELSE "step")
    BY Zenon, <1>u DEF IInv, TypeOK
  <1>e. Parent[tip] \in connected
    BY <1>u, <1>a, AncFacts, TreeAssumption DEF IInv, ConnInv
  <1>1. TypeOK'
    BY Zenon, <1>u, <1>e DEF IInv, TypeOK
  <1>2. ChainTxExact'
    BY Zenon, <1>u, Frame
  <1>3. ThreadInv'
    BY <1>u, <1>b, <1>c, <1>d DEF IInv, ThreadInv, IsBest
  <1>4. ConnInv'
    BY Zenon, <1>u, <1>e DEF IInv, ConnInv
  <1>5. LinkInv'
    BY Zenon, <1>u, Frame
  <1>6. FloorInv'
    <2>1. PICK f \in cands \cap connected : ~ Worse(f, tip) /\ Complete(f)
      BY Zenon, <1>u DEF IInv, FloorInv
    <2>2. Work[Parent[tip]] < Work[tip] /\ f \in Blocks /\ Parent[tip] \in Blocks
      BY Zenon, <1>u, <1>a, WorkAssumption, AncFacts DEF IInv, TypeOK
    <2>3. ~ Worse(f, Parent[tip])
      BY <1>u, <2>1, <2>2, <1>a, WorkAssumption DEF Worse, WorseBy
    <2>4. QED  BY Zenon, <1>u, <2>1, <2>3, <1>b DEF FloorInv, Complete
  <1>7. PendingInv'
    <2>1. CASE Parent[tip] # target[t]
      BY Zenon, <1>u, <2>1, <1>d DEF PendingInv
    <2>2. CASE Parent[tip] = target[t]
      <3>1. \A c \in cands : ~ Worse(target[t], c)
        BY Zenon, <1>u, BestIsTop DEF IInv, ThreadInv, IsBest
      <3>2. QED  BY Zenon, <1>u, <2>2, <3>1, <1>b DEF PendingInv
    <2>3. QED  BY Zenon, <2>1, <2>2
  <1>8. QED  BY Zenon, <1>1, <1>2, <1>3, <1>4, <1>5, <1>6, <1>7 DEF IInv

\* The block ConnectTip is called with is complete, unmarked, and not better than the target.
LEMMA NextFacts ==
    ASSUME IInv, NEW t \in Threads, NEW b \in Blocks, NextBlock(t, b)
    PROVE  /\ target[t] \in cands /\ target[t] \in Blocks /\ target[t] # tip
           /\ b \in chainTx /\ Anc[b] \cap failed = {}
           /\ ~ Worse(target[t], b)
           /\ Anc[b] = Anc[tip] \cup {b} /\ b \notin Anc[tip]
           /\ b # target[t] => Worse(b, target[t])
  <1> USE DEF IInv
  <1>1. target[t] \in cands /\ target[t] \in Blocks /\ Anc[target[t]] \cap failed = {}
    BY Zenon DEF NextBlock, ThreadInv, IsBest, TypeOK
  <1>2. b \in Anc[target[t]] /\ b # Genesis /\ Parent[b] = tip
    BY Zenon DEF NextBlock
  <1>3. Anc[b] = Anc[tip] \cup {b} /\ b \notin Anc[tip]
    BY Zenon, <1>2, TreeAssumption
  <1>4. b \in chainTx /\ Anc[b] \cap failed = {}
    BY Zenon, <1>1, <1>2, CompleteAncestors, AncFacts DEF LinkInv
  <1>5. b # target[t] => Worse(b, target[t])
    BY Zenon, <1>1, <1>2, WorkAssumption DEF Worse, WorseBy
  <1>6. ~ Worse(target[t], b)
    BY <1>1, <1>5, WorseOrder DEF TypeOK, Worse
  <1>7. QED  BY Zenon, <1>1, <1>2, <1>3, <1>4, <1>5, <1>6

\* Connecting a block raises the floor to the better of the old floor and the block.
LEMMA ConnectStep ==
    ASSUME IInv, NEW t \in Threads, NEW b \in Blocks, ConnectTip(t, b)
    PROVE  IInv'
  <1>u. /\ NextBlock(t, b) /\ b \notin Invalid /\ tip' = b
        /\ connected' = connected \cup {b} /\ cands' = {c \in cands : ~ Worse(c, b)}
        /\ dirty' = IF b \in connected THEN dirty ELSE dirty \cup {b}
        /\ UNCHANGED <<index, data, failedValid, failedChild, chainTx, seq, nextSeq, unlinked>>
        /\ UNCHANGED <<bestHeader, bestInvalid, target, oldTip>>
    BY Zenon DEF ConnectTip, ConnectBlock, PruneBlockIndexCandidates
  <1> USE DEF failed
  <1>n. NextBlock(t, b) /\ pc[t] = "step"
    BY Zenon, <1>u DEF NextBlock
  <1>a. /\ target[t] \in cands /\ target[t] \in Blocks /\ target[t] # tip
        /\ b \in chainTx /\ Anc[b] \cap failed = {}
        /\ ~ Worse(target[t], b)
        /\ Anc[b] = Anc[tip] \cup {b}
        /\ b # target[t] => Worse(b, target[t])
    BY Zenon, <1>u, <1>n, NextFacts
  <1>b. \A c, d : Worse(c, d)' <=> Worse(c, d)
    BY Zenon, <1>u DEF Worse, WorseBy
  <1>t. target[t] \in cands'
    BY Zenon, <1>u, <1>a
  <1>p. pc' = [pc EXCEPT ![t] = IF Work[b] > Work[oldTip[t]] \/ b = target[t]
                                THEN "notify" ELSE "step"]
    BY Zenon, <1>t DEF ConnectTip
  <1>c. \A u \in Threads : u # t => pc'[u] = pc[u]
    BY Zenon, <1>u, <1>p DEF IInv, TypeOK
  <1>d. pc'[t] \in {"notify", "step"} /\ (b = target[t] => pc'[t] = "notify")
    BY Zenon, <1>u, <1>p DEF IInv, TypeOK
  <1>e. seq \in [Blocks -> Nat] /\ cands \subseteq Blocks /\ chainTx \subseteq Blocks
        /\ tip \in Blocks
    BY Zenon, <1>u DEF IInv, TypeOK
  <1>1. TypeOK'
    BY <1>u, <1>p, <1>a DEF IInv, TypeOK
  <1>2. ChainTxExact'
    BY Zenon, <1>u, Frame
  <1>3. ThreadInv'
    <2>1. IsBest(target[t])'
      BY Zenon, <1>u, <1>t, <1>b, <1>n DEF IInv, ThreadInv, IsBest
    <2>2. \A u \in Threads : u # t => pc[u] \notin {"find", "step"}
      BY Zenon, <1>u, <1>n DEF IInv, ThreadInv
    <2>3. QED  BY Zenon, <1>u, <2>1, <2>2, <1>c, <1>d, <1>n DEF IInv, ThreadInv
  <1>4. ConnInv'
    <2>1. b \notin failed \cup Invalid \cup BadBody
      BY Zenon, <1>u, <1>a, AncFacts DEF IInv, LinkInv, TypeOK
    <2>2. Anc[b] \subseteq connected'
      BY Zenon, <1>u, <1>a DEF IInv, ConnInv
    <2>3. QED  BY <1>u, <2>1, <2>2, <1>a DEF IInv, ConnInv
  <1>5. LinkInv'
    BY Zenon, <1>u DEF IInv, LinkInv
  <1>6. FloorInv'
    <2>1. PICK f \in cands \cap connected : ~ Worse(f, tip) /\ Complete(f)
      BY Zenon, <1>u DEF IInv, FloorInv
    <2>2. CASE Worse(f, b)
      <3>1. ~ Worse(b, f) /\ ~ Worse(b, b)
        BY Zenon, <1>u, <2>2, <1>e, WorseOrder DEF Worse
      <3>2. b \in cands' \cap connected'
        BY Zenon, <1>u, <3>1, <2>1, <1>a DEF Complete
      <3>3. ASSUME NEW c \in chainTx, Anc[c] \cap failed = {}, ~ Worse(c, b)
            PROVE  c \in cands'
        <4>1. ~ Worse(c, f)
          BY Zenon, <1>u, <3>3, <2>2, <1>e, WorseOrder DEF Worse
        <4>2. QED  BY Zenon, <1>u, <4>1, <3>3, <2>1 DEF Complete
      <3>4. QED  BY Zenon, <1>u, <3>1, <3>2, <3>3, <1>b DEF FloorInv, Complete
    <2>3. CASE ~ Worse(f, b)
      <3>1. ASSUME NEW c \in chainTx, Anc[c] \cap failed = {}, ~ Worse(c, f)
            PROVE  c \in cands'
        <4>1. ~ Worse(c, b)
          BY Zenon, <1>u, <3>1, <2>3, <1>e, WorseOrder DEF Worse
        <4>2. QED  BY Zenon, <1>u, <4>1, <3>1, <2>1 DEF Complete
      <3>2. QED  BY Zenon, <1>u, <2>1, <2>3, <3>1, <1>b DEF FloorInv, Complete
    <2>4. QED  BY Zenon, <2>2, <2>3
  <1>7. PendingInv'
    <2>1. CASE b # target[t]
      BY Zenon, <1>u, <2>1, <1>d DEF PendingInv
    <2>2. CASE b = target[t]
      <3>1. \A c \in cands : ~ Worse(b, c)
        BY Zenon, <1>u, <2>2, <1>n, BestIsTop DEF IInv, ThreadInv, IsBest
      <3>2. QED  BY Zenon, <1>u, <3>1, <1>b DEF PendingInv
    <2>3. QED  BY Zenon, <2>1, <2>2
  <1>8. QED  BY Zenon, <1>1, <1>2, <1>3, <1>4, <1>5, <1>6, <1>7 DEF IInv

\* A block that ConnectBlock refuses was never connected, so the floor stays.
LEMMA InvalidStep ==
    ASSUME IInv, NEW t \in Threads, NEW b \in Blocks, InvalidBlockFound(t, b)
    PROVE  IInv'
  <1>u. /\ NextBlock(t, b) /\ b \in Invalid /\ UpdateBestInvalid(b)
        /\ failedValid' = failedValid \cup {b} /\ dirty' = dirty \cup {b} /\ cands' = cands \ {b}
        /\ pc' = [pc EXCEPT ![t] = "notify"]
        /\ UNCHANGED <<index, data, connected, failedChild, chainTx, seq, nextSeq, unlinked, tip>>
        /\ UNCHANGED <<bestHeader, target, oldTip>>
    BY Zenon DEF InvalidBlockFound, ConnectBlock
  <1>n. NextBlock(t, b) /\ pc[t] = "step"
    BY Zenon, <1>u DEF NextBlock
  <1>a. b \in chainTx /\ target[t] # tip
    BY Zenon, <1>u, <1>n, NextFacts
  <1>b. \A c, d : Worse(c, d)' <=> Worse(c, d)
    BY Zenon, <1>u DEF Worse, WorseBy
  <1>c. \A u \in Threads : pc'[u] = IF u = t THEN "notify" ELSE pc[u]
    BY Zenon, <1>u DEF IInv, TypeOK
  <1>d. failed' = failed \cup {b}
    BY Zenon, <1>u DEF failed
  <1>e. b \notin connected
    BY Zenon, <1>u DEF IInv, ConnInv
  <1>1. TypeOK'
    BY Zenon, <1>u, <1>a DEF IInv, TypeOK, UpdateBestInvalid
  <1>2. ChainTxExact'
    BY Zenon, <1>u, Frame
  <1>3. ThreadInv'
    <2>1. \A u \in Threads : u # t => pc[u] \notin {"find", "step"}
      BY Zenon, <1>u, <1>n DEF IInv, ThreadInv
    <2>2. \A u \in Threads : pc'[u] \notin {"find", "step"}
      BY <1>u, <2>1, <1>c
    <2>3. \A u \in Threads : pc'[u] \notin {"walk", "aborted"}
      BY <1>u, <1>c DEF IInv, ThreadInv
    <2>4. QED  BY Zenon, <1>u, <2>2, <2>3 DEF ThreadInv
  <1>4. ConnInv'
    BY Zenon, <1>u, <1>d, <1>e DEF IInv, ConnInv
  <1>5. LinkInv'
    BY Zenon, <1>u, <1>a, <1>d DEF IInv, LinkInv
  <1>6. FloorInv'
    <2>1. PICK f \in cands \cap connected : ~ Worse(f, tip) /\ Complete(f)
      BY Zenon, <1>u DEF IInv, FloorInv
    <2>2. \A c \in chainTx : Anc[c] \cap failed' = {} => c # b
      BY Zenon, <1>u, <1>d, AncFacts
    <2>3. QED  BY Zenon, <1>u, <2>1, <2>2, <1>b, <1>d, <1>e DEF FloorInv, Complete
  <1>7. PendingInv'
    BY Zenon, <1>u, <1>a, <1>c DEF PendingInv
  <1>8. QED  BY Zenon, <1>1, <1>2, <1>3, <1>4, <1>5, <1>6, <1>7 DEF IInv

\* Leaving the loop is safe: a thread whose target is the tip is not one to wait for.
LEMMA LoopStep ==
    ASSUME IInv, NEW t \in Threads, LoopTest(t)
    PROVE  IInv'
  <1>u. /\ pc[t] = "notify"
        /\ \/ target[t] = tip /\ Leave(t)
           \/ /\ target[t] # tip
              /\ pc' = [pc EXCEPT ![t] = "activate"]
              /\ UNCHANGED <<target, oldTip>>
        /\ UNCHANGED <<index, data, connected, failedValid, failedChild, chainTx, seq, nextSeq>>
        /\ UNCHANGED <<unlinked, bestHeader, cands, tip, bestInvalid, dirty>>
    BY Zenon DEF LoopTest, treeVars
  <1> USE DEF failed
  <1>b. \A c, d : Worse(c, d)' <=> Worse(c, d)
    BY Zenon, <1>u DEF Worse, WorseBy
  <1>c. \A u \in Threads : u # t => pc'[u] = pc[u] /\ target'[u] = target[u] /\ oldTip'[u] = oldTip[u]
    BY Zenon, <1>u DEF IInv, TypeOK, Leave
  <1>d. pc[t] = "notify" /\ pc'[t] = (IF target[t] = tip THEN "idle" ELSE "activate")
    BY Zenon, <1>u DEF IInv, TypeOK, Leave
  <1>1. TypeOK'
    BY Zenon, <1>u DEF IInv, TypeOK, Leave
  <1>2. ChainTxExact'
    BY Zenon, <1>u, Frame
  <1>3. ThreadInv'
    BY Zenon, <1>u, <1>b, <1>c, <1>d DEF IInv, ThreadInv, IsBest
  <1>4. ConnInv'
    BY Zenon, <1>u, Frame
  <1>5. LinkInv'
    BY Zenon, <1>u, Frame
  <1>6. FloorInv'
    BY Zenon, <1>u, Frame
  <1>7. PendingInv'
    BY Zenon, <1>u, <1>b, <1>c, <1>d DEF IInv, PendingInv
  <1>8. QED  BY Zenon, <1>1, <1>2, <1>3, <1>4, <1>5, <1>6, <1>7 DEF IInv

-------------------------------------------------------------------------------
(* Theorems *)

\* A step that changes nothing keeps the invariant.
LEMMA StutterStep ==
    ASSUME IInv, UNCHANGED vars
    PROVE  IInv'
  <1>u. /\ UNCHANGED <<index, data, connected, failedValid, failedChild, chainTx, seq, nextSeq>>
        /\ UNCHANGED <<unlinked, bestHeader, cands, tip, bestInvalid, dirty, pc, target, oldTip>>
    BY Zenon DEF vars
  <1> USE DEF failed
  <1>b. \A c, d : Worse(c, d)' <=> Worse(c, d)
    BY Zenon, <1>u DEF Worse, WorseBy
  <1>1. TypeOK'
    BY Zenon, <1>u DEF IInv, TypeOK
  <1>2. ChainTxExact'
    BY Zenon, <1>u, Frame
  <1>3. ThreadInv'
    BY Zenon, <1>u, <1>b DEF IInv, ThreadInv, IsBest
  <1>4. ConnInv'
    BY Zenon, <1>u, Frame
  <1>5. LinkInv'
    BY Zenon, <1>u, Frame
  <1>6. FloorInv'
    BY Zenon, <1>u, Frame
  <1>7. PendingInv'
    BY Zenon, <1>u, <1>b DEF IInv, PendingInv
  <1>8. QED  BY Zenon, <1>1, <1>2, <1>3, <1>4, <1>5, <1>6, <1>7 DEF IInv

\* IInv is an inductive invariant of a node that serves no invalidateblock.
THEOREM Invariance == NetSpec => []IInv
  <1>1. Init => IInv
    BY Zenon, InitIInv
  <1>2. IInv /\ [NetNext]_vars => IInv'
    <2> SUFFICES ASSUME IInv, [NetNext]_vars PROVE IInv'
      OBVIOUS
    <2>1. CASE Arrival
      BY Zenon, <2>1, HeaderStep, BadBlockStep, KnownBlockStep, NewBlockStep DEF Arrival
    <2>2. ASSUME NEW t \in Threads, Activation(t) PROVE IInv'
      BY Zenon, <2>2, DropStep, NothingStep, FoundStep, DisconnectStep, ConnectStep, InvalidStep,
         LoopStep DEF Activation
    <2>3. CASE UNCHANGED vars
      BY Zenon, <2>3, StutterStep
    <2>4. QED  BY Zenon, <2>1, <2>2, <2>3 DEF NetNext
  <1>3. QED  BY <1>1, <1>2, PTL DEF NetSpec

\* Every variable keeps its type.
THEOREM TypeCorrect == NetSpec => []TypeOK
  BY Invariance, PTL DEF IInv

\* ConnectTip and InvalidBlockFound never leave a bad, marked or incomplete block in
\* chainActive, for any tree of blocks.
THEOREM ActiveChainIsSound == NetSpec => []ActiveChainSound
  <1>1. IInv => ActiveChainSound
    BY Zenon DEF IInv, TypeOK, ConnInv, ActiveChainSound, ActiveChainStored
  <1>2. QED  BY <1>1, Invariance, PTL

\* nChainTx and mapBlocksUnlinked agree with what has arrived, in any order of arrival.
THEOREM ChainTxIsExact == NetSpec => []ChainTxExact
  BY Invariance, PTL DEF IInv

\* The asserts of FindMostWorkChain and PruneBlockIndexCandidates never fail.
THEOREM NoAssertion == NetSpec => []AssertsHold
  <1>1. IInv => AssertsHold
    BY Zenon DEF IInv, ThreadInv, AssertsHold
  <1>2. QED  BY <1>1, Invariance, PTL

\* When ActivateBestChain has returned in every thread, the best complete chain is active.
THEOREM BestChainIsActive == NetSpec => []BestChainActive
  <1>1. IInv => BestChainActive
    <2> SUFFICES ASSUME IInv, \A t \in Threads : pc[t] = "idle",
                        NEW b \in chainTx, Anc[b] \cap failed = {}
                 PROVE  ~ Worse(tip, b)
      BY Zenon DEF BestChainActive
    <2> USE DEF IInv
    <2>1. \A c \in cands : ~ Worse(tip, c)
      BY Zenon DEF PendingInv
    <2>2. PICK f \in cands : Complete(f)
      BY Zenon DEF FloorInv
    <2>3. b \in Blocks /\ f \in Blocks /\ tip \in Blocks /\ seq \in [Blocks -> Nat]
      BY Zenon DEF TypeOK
    <2>4. CASE Worse(b, f)
      <3>1. ~ Worse(f, b)
        BY Zenon, <2>3, <2>4, WorseOrder DEF Worse
      <3>2. QED  BY Zenon, <3>1, <2>1, <2>2, <2>3, WorseOrder DEF Worse
    <2>5. CASE ~ Worse(b, f)
      BY Zenon, <2>1, <2>2, <2>5 DEF Complete
    <2>6. QED  BY Zenon, <2>4, <2>5
  <1>2. QED  BY <1>1, Invariance, PTL

\* The thread in ActivateBestChainStep is alone under cs_main and aims at the best candidate.
THEOREM StepAims == NetSpec => []StepAimsAtBest
  <1>1. IInv => StepAimsAtBest
    BY Zenon DEF IInv, ThreadInv, StepAimsAtBest
  <1>2. QED  BY <1>1, Invariance, PTL

\* UpdateTip moves the tip to a neighbour, and away from it only for at least as much work.
THEOREM TipMoves == NetSpec => TipMovesAlongTree
  <1> DEFINE TipMove == tip' # tip =>
         \/ tip # Genesis /\ tip' = Parent[tip]
            /\ \E t \in Threads :
                 \/ pc[t] = "walk"
                 \/ pc[t] = "step" /\ Work[target[t]] >= Work[oldTip[t]]
         \/ tip' # Genesis /\ Parent[tip'] = tip
  <1>1. IInv /\ [NetNext]_vars => [TipMove]_vars
    <2> SUFFICES ASSUME IInv, [NetNext]_vars PROVE TipMove
      OBVIOUS
    <2>1. CASE Arrival
      BY Zenon, <2>1 DEF Arrival, AcceptBlockHeader, AcceptBadBlock, AcceptKnownBlock, AcceptBlock
    <2>2. ASSUME NEW t \in Threads, Activation(t) PROVE TipMove
      <3>1. CASE DisconnectTip(t)
        <4>1. pc[t] = "step" /\ Work[target[t]] >= Work[oldTip[t]] /\ target[t] \in Blocks
          BY Zenon, <3>1 DEF DisconnectTip, IInv, ThreadInv, IsBest, TypeOK
        <4>2. Genesis \in Anc[target[t]]
          BY Zenon, <4>1, TreeAssumption
        <4>3. tip # Genesis /\ tip' = Parent[tip]
          BY Zenon, <3>1, <4>2 DEF DisconnectTip
        <4>4. QED  BY Zenon, <4>1, <4>3
      <3>2. ASSUME NEW b \in Blocks, ConnectTip(t, b) PROVE TipMove
        BY Zenon, <3>2 DEF ConnectTip, NextBlock
      <3>3. ASSUME NEW b \in Blocks, InvalidBlockFound(t, b) PROVE TipMove
        BY Zenon, <3>3 DEF InvalidBlockFound
      <3>4. CASE DropFailedBranch(t) \/ NothingToDo(t) \/ FoundMostWork(t) \/ LoopTest(t)
        BY Zenon, <3>4 DEF DropFailedBranch, NothingToDo, FoundMostWork, LoopTest
      <3>5. QED  BY Zenon, <2>2, <3>1, <3>2, <3>3, <3>4 DEF Activation
    <2>3. CASE UNCHANGED vars
      BY Zenon, <2>3 DEF vars
    <2>4. QED  BY Zenon, <2>1, <2>2, <2>3 DEF NetNext
  <1>2. QED  BY <1>1, Invariance, PTL DEF NetSpec, TipMovesAlongTree

-------------------------------------------------------------------------------
(* What is on disk: the inductive invariant *)

\* What connecting and disconnecting blocks keeps up in memory.
MemInv ==
    /\ index \subseteq Blocks /\ data \subseteq index /\ connected \subseteq data
    /\ tip \in connected /\ cands \subseteq Blocks
    /\ \A b \in connected : Anc[b] \subseteq connected
    /\ pc \in [Threads -> {"idle", "activate", "find", "step", "notify", "walk", "aborted"}]
    /\ target \in [Threads -> Blocks \cup {NULL}]
    /\ \A t \in Threads : pc[t] = "step" => target[t] \in Blocks /\ Anc[target[t]] \subseteq data
    /\ \A t \in Threads : pc[t] = "walk" => target[t] \in Blocks \ {Genesis}

\* An entry that is not dirty is in the database as it is in memory, and nothing that was
\* written is ever taken back.
CleanInv ==
    /\ index \ dirty \subseteq dIndex /\ dIndex \subseteq index
    /\ data \ dirty \subseteq dData /\ dData \subseteq data
    /\ connected \ dirty \subseteq dConnected /\ dConnected \subseteq connected
    /\ flush = "coins" => dirty = {}

\* What the next start finds.
DbInv ==
    /\ dData \subseteq dIndex /\ dConnected \subseteq dData
    /\ \A b \in dConnected : Anc[b] \subseteq dConnected
    /\ batches \cup {dCoins} \subseteq dConnected

DiskInv == MemInv /\ CleanInv /\ DbInv

-------------------------------------------------------------------------------
(* Memory *)

\* The facts about the tree that the steps need.
LEMMA TreeFacts ==
    /\ \A b \in Blocks : b \in Anc[b] /\ Anc[b] \subseteq Blocks
    /\ \A b \in Blocks \ {Genesis} : Parent[b] \in Anc[b] /\ Anc[b] = Anc[Parent[b]] \cup {b}
    /\ Anc[Genesis] = {Genesis}
    /\ \A b \in Blocks : Genesis \in Anc[b]
  BY TreeAssumption, GenesisAssumption

\* The initial state satisfies the invariant.
LEMMA DiskInitInv == DiskInit => DiskInv
  <1> SUFFICES ASSUME DiskInit PROVE DiskInv
    OBVIOUS
  <1>1. MemInv
    BY Zenon, TreeFacts, GenesisAssumption DEF DiskInit, Init, MemInv
  <1>2. CleanInv
    BY Zenon DEF DiskInit, Init, CleanInv
  <1>3. DbInv
    BY Zenon, TreeFacts DEF DiskInit, DbInv
  <1>4. QED  BY Zenon, <1>1, <1>2, <1>3 DEF DiskInv

\* A step that adds to the tree only dirty entries and does not touch the tip or the
\* connected blocks, and whose thread does not enter a step or a walk unprepared.
LEMMA TreeStep ==
    ASSUME DiskInv, UNCHANGED <<connected, tip, dbVars, dCoins, batches, flush>>, flush = "no",
           NEW new \in SUBSET Blocks,
           index' \in {index, index \cup new}, data' \in {data, data \cup new},
           data' \subseteq index', cands' \subseteq Blocks,
           dirty \cup ((index' \ index) \cup (data' \ data)) \subseteq dirty',
           pc' \in [Threads -> {"idle", "activate", "find", "step", "notify", "walk", "aborted"}],
           target' \in [Threads -> Blocks \cup {NULL}],
           \A t \in Threads : pc'[t] = "step" =>
               target'[t] \in Blocks /\ Anc[target'[t]] \subseteq data',
           \A t \in Threads : pc'[t] = "walk" => target'[t] \in Blocks \ {Genesis}
    PROVE  DiskInv'
  <1>1. MemInv'
    BY Zenon DEF DiskInv, MemInv
  <1>2. CleanInv'
    BY Zenon DEF DiskInv, CleanInv, dbVars
  <1>3. DbInv'
    BY Zenon DEF DiskInv, DbInv, dbVars
  <1>4. QED  BY Zenon, <1>1, <1>2, <1>3 DEF DiskInv

\* AcceptBlock stores a dirty block.
LEMMA StoreStep ==
    ASSUME DiskInv, Store
    PROVE  DiskInv'
  <1>1. PICK t \in Threads, b \in Blocks : AcceptBlock(t, b)
    BY Zenon DEF Store
  <1>2. /\ UNCHANGED <<connected, tip, dbVars, dCoins, batches, flush>> /\ flush = "no"
        /\ index' = index \cup {b} /\ data' = data \cup {b} /\ dirty' = dirty \cup {b}
        /\ pc[t] = "idle" /\ pc' = [pc EXCEPT ![t] = "activate"] /\ target' = target
    BY Zenon, <1>1 DEF Store, AcceptBlock, AddToBlockIndex, ReceivedBlockTransactions
  <1>3. cands' \subseteq Blocks
    <2>1. Linked(b) \subseteq Blocks
      BY Zenon DEF Linked, DiskInv, MemInv
    <2>2. QED  BY Zenon, <1>1, <2>1 DEF AcceptBlock, ReceivedBlockTransactions, DiskInv, MemInv
  <1>4. /\ pc' \in [Threads -> {"idle", "activate", "find", "step", "notify", "walk", "aborted"}]
        /\ \A u \in Threads : pc'[u] \in {"step", "walk"} => pc[u] = pc'[u]
    BY Zenon, <1>2 DEF DiskInv, MemInv
  <1>5. data' \subseteq index'
    BY Zenon, <1>2 DEF DiskInv, MemInv
  <1>6. \A u \in Threads : pc'[u] = "step" => target'[u] \in Blocks /\ Anc[target'[u]] \subseteq data'
    BY Zenon, <1>2, <1>4 DEF DiskInv, MemInv
  <1>7. \A u \in Threads : pc'[u] = "walk" => target'[u] \in Blocks \ {Genesis}
    BY Zenon, <1>2, <1>4 DEF DiskInv, MemInv
  <1>8. target' \in [Threads -> Blocks \cup {NULL}]
    BY Zenon, <1>2 DEF DiskInv, MemInv
  <1>9. dirty \cup ((index' \ index) \cup (data' \ data)) \subseteq dirty' /\ {b} \in SUBSET Blocks
    BY Zenon, <1>2
  <1>a. index' \in {index, index \cup {b}} /\ data' \in {data, data \cup {b}}
    BY Zenon, <1>2
  <1>b. QED  BY Zenon, <1>2, <1>3, <1>4, <1>5, <1>6, <1>7, <1>8, <1>9, <1>a, TreeStep

\* The steps of the two RPCs and of the network that store no block and move no tip: at
\* most a header is added, and a thread that enters a step has a complete branch before it.
LEMMA QuietStep ==
    ASSUME DiskInv, NEW t \in Threads, Quiet(t) \/ QuietRpc(t), UNCHANGED diskVars, flush = "no"
    PROVE  DiskInv'
  <1> DEFINE Pcs == {"idle", "activate", "find", "step", "notify", "walk", "aborted"}
  <1>0. UNCHANGED <<dbVars, dCoins, batches, flush>>
    BY Zenon DEF diskVars
  <1>m. /\ index \subseteq Blocks /\ data \subseteq index /\ tip \in Blocks /\ cands \subseteq Blocks
        /\ pc \in [Threads -> Pcs] /\ target \in [Threads -> Blocks \cup {NULL}]
        /\ Anc[tip] \subseteq data
        /\ \A u \in Threads : pc[u] = "step" => target[u] \in Blocks /\ Anc[target[u]] \subseteq data
        /\ \A u \in Threads : pc[u] = "walk" => target[u] \in Blocks \ {Genesis}
    BY Zenon DEF DiskInv, MemInv
  <1>1. ASSUME NEW b \in Blocks, AcceptBlockHeader(b) \/ AcceptBadBlock(b) PROVE DiskInv'
    <2>1. /\ UNCHANGED <<connected, tip, data, cands, pc, target>>
          /\ index' = index \cup {b} /\ dirty' = dirty \cup {b}
      BY Zenon, <1>1 DEF AcceptBlockHeader, AcceptBadBlock, AddToBlockIndex, threadVars
    <2>2. /\ {b} \in SUBSET Blocks
          /\ index' \in {index, index \cup {b}} /\ data' \in {data, data \cup {b}}
          /\ data' \subseteq index' /\ cands' \subseteq Blocks
          /\ dirty \cup ((index' \ index) \cup (data' \ data)) \subseteq dirty'
      BY Zenon, <2>1, <1>m
    <2>3. /\ \A u \in Threads : pc'[u] = "step" =>
                target'[u] \in Blocks /\ Anc[target'[u]] \subseteq data'
          /\ \A u \in Threads : pc'[u] = "walk" => target'[u] \in Blocks \ {Genesis}
          /\ pc' \in [Threads -> Pcs] /\ target' \in [Threads -> Blocks \cup {NULL}]
      BY Zenon, <2>1, <1>m
    <2>4. UNCHANGED <<connected, tip>>
      BY Zenon, <2>1
    <2>5. QED  BY Zenon, <2>2, <2>3, <2>4, <1>0, TreeStep
  <1>2. ASSUME UNCHANGED <<connected, tip, data, index>>, dirty \subseteq dirty',
               cands' \subseteq Blocks, pc' \in [Threads -> Pcs],
               target' \in [Threads -> Blocks \cup {NULL}],
               \A u \in Threads : pc'[u] = "step" =>
                   target'[u] \in Blocks /\ Anc[target'[u]] \subseteq data,
               \A u \in Threads : pc'[u] = "walk" => target'[u] \in Blocks \ {Genesis}
        PROVE  DiskInv'
    BY Zenon, <1>2, <1>0, <1>m, TreeStep
  <1>3. ASSUME NEW b \in Blocks, AcceptKnownBlock(t, b) PROVE DiskInv'
    <2>1. /\ UNCHANGED <<connected, tip, data, index, cands, dirty, target>>
          /\ pc' = [pc EXCEPT ![t] = "activate"]
      BY Zenon, <1>3 DEF AcceptKnownBlock, treeVars
    <2>2. QED  BY Zenon, <2>1, <1>2, <1>m
  <1>4. ASSUME NEW b \in Blocks, InvalidBlockFound(t, b) PROVE DiskInv'
    <2>1. /\ UNCHANGED <<connected, tip, data, index, target>>
          /\ dirty' = dirty \cup {b} /\ cands' = cands \ {b}
          /\ pc' = [pc EXCEPT ![t] = "notify"]
      BY Zenon, <1>4 DEF InvalidBlockFound
    <2>2. QED  BY Zenon, <2>1, <1>2, <1>m
  <1>5. CASE DropFailedBranch(t)
    <2>1. /\ UNCHANGED <<connected, tip, data, index, target, dirty>>
          /\ cands' \subseteq cands /\ pc' = [pc EXCEPT ![t] = "find"]
      BY Zenon, <1>5 DEF DropFailedBranch
    <2>2. QED  BY Zenon, <2>1, <1>2, <1>m
  <1>6. CASE NothingToDo(t) \/ LoopTest(t)
    <2>1. /\ UNCHANGED <<connected, tip, data, index, cands, dirty>>
          /\ \/ pc' = [pc EXCEPT ![t] = "idle"] /\ target' = [target EXCEPT ![t] = NULL]
             \/ pc' = [pc EXCEPT ![t] = "activate"] /\ target' = target
      BY Zenon, <1>6 DEF NothingToDo, LoopTest, Leave, treeVars
    <2>2. QED  BY Zenon, <2>1, <1>2, <1>m
  <1>7. CASE FoundMostWork(t)
    <2>1. PICK b \in cands :
            /\ AssertsOnWalk(b) => Branch(b) \cap failed = {}
            /\ target' = [target EXCEPT ![t] = b]
            /\ pc' = IF AssertsOnWalk(b) THEN [pc EXCEPT ![t] = "step"] ELSE Abort
      BY Zenon, <1>7 DEF FoundMostWork
    <2>2. UNCHANGED <<connected, tip, data, index, cands, dirty>>
      BY Zenon, <1>7 DEF FoundMostWork, treeVars
    <2>3. CASE AssertsOnWalk(b)
      <3>1. b \in Blocks /\ Anc[b] \subseteq data
        BY Zenon, <2>1, <2>3, <1>m DEF AssertsOnWalk, Branch
      <3>2. QED  BY Zenon, <2>1, <2>2, <2>3, <3>1, <1>2, <1>m
    <2>4. CASE ~ AssertsOnWalk(b)
      <3>1. pc' = [u \in Threads |-> "aborted"] /\ b \in Blocks
        BY Zenon, <2>1, <2>4, <1>m DEF Abort
      <3>2. QED  BY Zenon, <2>1, <2>2, <3>1, <1>2, <1>m
    <2>5. QED  BY Zenon, <2>3, <2>4
  <1>9. ASSUME NEW b \in Blocks, InvalidateBlock(t, b) PROVE DiskInv'
    <2>1. /\ UNCHANGED <<connected, tip, data, index>>
          /\ dirty' = dirty \cup {b} /\ cands' = cands \ {b} /\ b # Genesis
          /\ target' = [target EXCEPT ![t] = b] /\ pc' = [pc EXCEPT ![t] = "walk"]
      BY Zenon, <1>9 DEF InvalidateBlock
    <2>2. QED  BY Zenon, <2>1, <1>2, <1>m
  <1>10. ASSUME NEW b \in Blocks, ReconsiderBlock(t, b) PROVE DiskInv'
    <2>1. /\ UNCHANGED <<connected, tip, data, index, target>>
          /\ dirty \subseteq dirty' /\ cands' \subseteq cands \cup data
          /\ pc' = [pc EXCEPT ![t] = "activate"]
      BY Zenon, <1>10 DEF ReconsiderBlock, BetterThanTip
    <2>2. QED  BY Zenon, <2>1, <1>2, <1>m
  <1>11. CASE InvalidateDone(t)
    <2>1. /\ UNCHANGED <<connected, tip, data, index, dirty>> /\ pc[t] = "walk"
          /\ cands' \in {cands, cands \cup {target[t]}}
          /\ target' = [target EXCEPT ![t] = NULL] /\ pc' = [pc EXCEPT ![t] = "activate"]
      BY Zenon, <1>11 DEF InvalidateDone, treeVars
    <2>2. QED  BY Zenon, <2>1, <1>2, <1>m
  <1>12. QED
    BY Zenon, <1>1, <1>3, <1>4, <1>5, <1>6, <1>7, <1>9, <1>10, <1>11 DEF Quiet, QuietRpc

-------------------------------------------------------------------------------
(* Moves of the tip, flushes and restarts *)

\* ConnectTip makes the entry of a newly connected block dirty; DisconnectTip and
\* InvalidateBlock go back to a block that is connected as well.
LEMMA MoveStep ==
    ASSUME DiskInv, NEW t \in Threads, flush = "no", flush' \in {"no", "index"},
           Move(t) \/ InvalidateWalk(t), UNCHANGED <<dbVars, dCoins, batches>>
    PROVE  DiskInv'
  <1> DEFINE Pcs == {"idle", "activate", "find", "step", "notify", "walk", "aborted"}
  <1>m. /\ index \subseteq Blocks /\ data \subseteq index /\ connected \subseteq data
        /\ tip \in connected /\ tip \in Blocks /\ cands \subseteq Blocks
        /\ \A b \in connected : Anc[b] \subseteq connected
        /\ pc \in [Threads -> Pcs] /\ target \in [Threads -> Blocks \cup {NULL}]
        /\ \A u \in Threads : pc[u] = "step" => target[u] \in Blocks /\ Anc[target[u]] \subseteq data
        /\ \A u \in Threads : pc[u] = "walk" => target[u] \in Blocks \ {Genesis}
    BY Zenon DEF DiskInv, MemInv
  <1>1. ASSUME UNCHANGED <<index, data, target>>, dirty \subseteq dirty', tip' \in connected',
               connected \subseteq connected', connected' \ connected \subseteq dirty' \cap data,
               \A b \in connected' : Anc[b] \subseteq connected',
               cands' \subseteq cands, pc' \in [Threads -> Pcs],
               \A u \in Threads : pc'[u] \in {"step", "walk"} => pc'[u] = pc[u]
        PROVE  DiskInv'
    <2>1. MemInv'
      BY Zenon, <1>1, <1>m DEF MemInv
    <2>2. CleanInv'
      BY Zenon, <1>1, <1>m DEF DiskInv, CleanInv, dbVars
    <2>3. DbInv'
      BY Zenon, <1>1 DEF DiskInv, DbInv, dbVars
    <2>4. QED  BY Zenon, <2>1, <2>2, <2>3 DEF DiskInv
  <1>2. CASE DisconnectTip(t)
    <2>1. /\ UNCHANGED <<index, data, target, dirty, connected, cands>> /\ tip' = Parent[tip]
          /\ pc[t] = "step" /\ tip \notin Anc[target[t]]
          /\ \/ pc' = [pc EXCEPT ![t] = "notify"]
             \/ pc' = [pc EXCEPT ![t] = "step"]
      BY Zenon, <1>2 DEF DisconnectTip, treeVars
    <2>2. target[t] \in Blocks
      BY Zenon, <2>1, <1>m
    <2>3. tip # Genesis
      <3>1. Genesis \in Anc[target[t]] /\ tip \notin Anc[target[t]]
        BY Zenon, <2>1, <2>2, TreeFacts
      <3>2. QED  BY Zenon, <3>1
    <2>4. tip' \in Anc[tip]
      BY Zenon, <2>1, <2>3, <1>m, TreeFacts
    <2>5. tip' \in connected
      BY Zenon, <2>4, <1>m
    <2>6. QED  BY Zenon, <2>1, <2>5, <1>1, <1>m
  <1>3. ASSUME NEW b \in Blocks, ConnectTip(t, b) PROVE DiskInv'
    <2>1. /\ UNCHANGED <<index, data, target>> /\ tip' = b /\ connected' = connected \cup {b}
          /\ dirty' = IF b \in connected THEN dirty ELSE dirty \cup {b}
          /\ cands' \subseteq cands
          /\ b \in Anc[target[t]] \ {Genesis} /\ Parent[b] = tip /\ pc[t] = "step"
      BY Zenon, <1>3 DEF ConnectTip, NextBlock, PruneBlockIndexCandidates
    <2>2. /\ pc' \in [Threads -> Pcs]
          /\ \A u \in Threads : pc'[u] \in {"step", "walk"} => pc'[u] = pc[u]
      BY Zenon, <1>3, <2>1, <1>m DEF ConnectTip, Abort
    <2>3. b \in data
      BY Zenon, <2>1, <1>m
    <2>4. Anc[b] = Anc[tip] \cup {b}
      BY Zenon, <2>1, TreeFacts
    <2>5. \A c \in connected' : Anc[c] \subseteq connected'
      <3>1. Anc[b] \subseteq connected \cup {b}
        BY Zenon, <2>4, <1>m
      <3>2. QED  BY Zenon, <3>1, <2>1, <1>m
    <2>6. /\ UNCHANGED <<index, data, target>> /\ dirty \subseteq dirty' /\ tip' \in connected'
          /\ connected \subseteq connected' /\ connected' \ connected \subseteq dirty' \cap data
          /\ cands' \subseteq cands
      BY Zenon, <2>1, <2>3
    <2>7. QED  BY Zenon, <2>2, <2>5, <2>6, <1>1
  <1>4. CASE InvalidateWalk(t)
    <2>1. /\ UNCHANGED <<index, data, target, connected, pc>> /\ tip' = Parent[tip]
          /\ dirty' = dirty \cup {tip} /\ cands' = cands \ {tip}
          /\ pc[t] = "walk" /\ target[t] \in Anc[tip]
      BY Zenon, <1>4 DEF InvalidateWalk, threadVars, Active
    <2>2. tip # Genesis
      BY Zenon, <2>1, <1>m, TreeFacts
    <2>3. tip' \in connected
      BY Zenon, <2>1, <2>2, <1>m, TreeFacts
    <2>4. QED  BY Zenon, <2>1, <2>3, <1>1, <1>m
  <1>5. QED  BY Zenon, <1>2, <1>3, <1>4 DEF Move

\* WriteBatchSync leaves the database equal to memory; FlushCoins then refers to it.
LEMMA FlushStep ==
    ASSUME DiskInv, Flushing
    PROVE  DiskInv'
  <1>1. CASE flush = "no" /\ StartFlush
    <2>1. /\ UNCHANGED <<index, data, connected, tip, cands, pc, target, dirty>>
          /\ UNCHANGED <<dIndex, dData, dConnected, dCoins, batches>> /\ flush' = "index"
      BY Zenon, <1>1 DEF StartFlush, vars, dbVars
    <2>2. QED  BY Zenon, <2>1 DEF DiskInv, MemInv, CleanInv, DbInv
  <1>2. CASE FlushIndex
    <2>1. /\ UNCHANGED <<index, data, connected, tip, cands, pc, target, dCoins, batches>>
          /\ dIndex' = Written(dIndex, index) /\ dData' = Written(dData, data)
          /\ dConnected' = Written(dConnected, connected) /\ dirty' = {} /\ flush' = "coins"
      BY Zenon, <1>2 DEF FlushIndex, WriteBatchSync, threadVars
    <2>2. dIndex' = index /\ dData' = data /\ dConnected' = connected
      BY Zenon, <2>1 DEF Written, DiskInv, CleanInv
    <2>3. MemInv'
      BY Zenon, <2>1 DEF DiskInv, MemInv
    <2>4. CleanInv'
      BY Zenon, <2>1, <2>2 DEF CleanInv
    <2>5. DbInv'
      BY Zenon, <2>1, <2>2 DEF DiskInv, MemInv, CleanInv, DbInv
    <2>6. QED  BY Zenon, <2>3, <2>4, <2>5 DEF DiskInv
  <1>3. CASE FlushCoins
    <2>1. /\ UNCHANGED <<index, data, connected, tip, cands, pc, target, dirty>>
          /\ UNCHANGED <<dIndex, dData, dConnected>> /\ flush' = "no" /\ flush = "coins"
          /\ dCoins' = tip /\ batches' = batches \cup {tip}
      BY Zenon, <1>3 DEF FlushCoins, vars, dbVars
    <2>2. tip \in dConnected
      BY Zenon, <2>1 DEF DiskInv, MemInv, CleanInv
    <2>3. QED  BY Zenon, <2>1, <2>2 DEF DiskInv, MemInv, CleanInv, DbInv
  <1>4. QED  BY Zenon, <1>1, <1>2, <1>3 DEF Flushing

\* LoadBlockIndexDB starts from what the database holds.
LEMMA RestartStep ==
    ASSUME DiskInv, NEW c \in batches \cup {dCoins}, NEW readable, Restart(c, readable)
    PROVE  DiskInv'
  <1>1. PICK t \in Threads : LoadBlockIndexDB(t, c, readable)
    BY Zenon DEF Restart
  <1>2. /\ index' = dIndex /\ data' = dData /\ connected' = dConnected /\ tip' = c
        /\ dirty' = {} /\ target' = [u \in Threads |-> NULL] /\ cands' \subseteq dData
    BY Zenon, <1>1 DEF LoadBlockIndexDB, LoadedCandidates
  <1>3. UNCHANGED <<dIndex, dData, dConnected>> /\ dCoins' = c /\ batches' = {c} /\ flush' = "no"
    BY Zenon DEF Restart, dbVars
  <1>4. /\ pc' \in [Threads -> {"idle", "activate", "find", "step", "notify", "walk", "aborted"}]
        /\ \A u \in Threads : pc'[u] \notin {"step", "walk"}
    BY Zenon, <1>1 DEF LoadBlockIndexDB, Abort, StartThread
  <1>5. c \in dConnected /\ dIndex \subseteq Blocks
    BY Zenon DEF DiskInv, DbInv, MemInv, CleanInv
  <1>6. MemInv'
    BY Zenon, <1>2, <1>4, <1>5 DEF DiskInv, DbInv, MemInv
  <1>7. CleanInv'
    BY Zenon, <1>2, <1>3 DEF CleanInv
  <1>8. DbInv'
    BY Zenon, <1>3, <1>5 DEF DiskInv, DbInv
  <1>9. QED  BY Zenon, <1>6, <1>7, <1>8 DEF DiskInv

-------------------------------------------------------------------------------
(* Theorems *)

\* DiskInv is inductive whatever crashes and RPCs come.
THEOREM DiskInvariance == CrashSpec => []DiskInv
  <1>1. DiskInit => DiskInv
    BY Zenon, DiskInitInv
  <1>2. DiskInv /\ [DiskNext \/ RpcNext \/ ProcessDies \/ PowerFails]_allVars => DiskInv'
    <2> SUFFICES ASSUME DiskInv, [DiskNext \/ RpcNext \/ ProcessDies \/ PowerFails]_allVars
                 PROVE  DiskInv'
      OBVIOUS
    <2>1. CASE Store
      BY Zenon, <2>1, StoreStep
    <2>2. ASSUME NEW t \in Threads, MoveAndFlush(Move(t)) \/ MoveAndFlush(InvalidateWalk(t))
          PROVE  DiskInv'
      BY Zenon, <2>2, MoveStep DEF MoveAndFlush
    <2>3. ASSUME NEW t \in Threads, flush = "no", Quiet(t) \/ QuietRpc(t), UNCHANGED diskVars
          PROVE  DiskInv'
      BY Zenon, <2>3, QuietStep
    <2>4. CASE Flushing
      BY Zenon, <2>4, FlushStep
    <2>5. CASE ProcessDies \/ PowerFails
      BY Zenon, <2>5, RestartStep DEF ProcessDies, PowerFails
    <2>6. CASE UNCHANGED allVars
      <3>1. /\ UNCHANGED <<index, data, connected, tip, cands, pc, target, dirty, flush>>
            /\ UNCHANGED <<dIndex, dData, dConnected, dCoins, batches>>
        BY Zenon, <2>6 DEF allVars, vars, diskVars, dbVars
      <3>2. QED  BY Zenon, <3>1 DEF DiskInv, MemInv, CleanInv, DbInv
    <2>7. QED  BY Zenon, <2>1, <2>2, <2>3, <2>4, <2>5, <2>6 DEF DiskNext, RpcNext
  <1>3. QED  BY <1>1, <1>2, PTL DEF CrashSpec

\* Whatever write of FlushStateToDisk a crash or a power failure comes after, the coin
\* database is at a chain whose blocks and undo data the block index database knows.
THEOREM CoinsReferToIndexAlways == CrashSpec => []CoinsReferToIndex
  <1>1. DiskInv => CoinsReferToIndex
    BY Zenon DEF DiskInv, DbInv, CoinsReferToIndex
  <1>2. QED  BY <1>1, DiskInvariance, PTL
===============================================================================
