--------------------------- MODULE BlockDownloadProofs --------------------------
(***************************************************************************)
(* The books about blocks in flight, the counters of peers and               *)
(* pindexLastCommonBlock, for every tree of blocks, every set of peers and     *)
(* every window.                                                            *)
(***************************************************************************)
EXTENDS BlockDownload, FiniteSetTheorems, WellFoundedInduction, TLAPS

Fields == {"node", "inFlight", "nQueuedValidatedHeaders", "nSyncStarted", "nPreferredDownload"}

\* What holds of the CNodeState of one peer, with the index ind and the stored blocks dat.
NodeOK(n, ind, dat) ==
    /\ DOMAIN n = DOMAIN NewNode
    /\ n.known \in ind \cup {NULL} /\ n.common \in ind \cup {NULL}
    /\ n.common # NULL => Anc[n.common] \subseteq dat
    /\ n.preferred => n.version
    /\ n.stalling => n.flight # {}
    /\ IsFiniteSet(n.flight) /\ n.nBlocksInFlight = Cardinality(n.flight)
    /\ n.nBlocksInFlight <= MaxInTransit
    /\ \A e, f \in n.flight : e.hash = f.hash => e = f

\* The lists of the nodes and mapBlocksInFlight are inverse to each other.
Books(node, inFlight) ==
    /\ \A p \in DOMAIN node : \A e \in node[p].flight :
          e.hash \in DOMAIN inFlight /\ inFlight[e.hash] = p
    /\ \A h \in DOMAIN inFlight :
          inFlight[h] \in DOMAIN node /\ \E e \in node[inFlight[h]].flight : e.hash = h

Syncing(node) == {p \in DOMAIN node : node[p].sync}
Favoured(node) == {p \in DOMAIN node : node[p].preferred}

Sound(d, ind, dat) ==
    /\ DOMAIN d = Fields
    /\ DOMAIN d.node \subseteq Peers /\ IsFiniteSet(DOMAIN d.node)
    /\ \A p \in DOMAIN d.node : NodeOK(d.node[p], ind, dat)
    /\ Books(d.node, d.inFlight)
    /\ DOMAIN d.inFlight \cap dat = {}
    /\ d.nSyncStarted = Cardinality(Syncing(d.node))
    /\ d.nPreferredDownload = Cardinality(Favoured(d.node))

IInv ==
    /\ Genesis \in data /\ data \cup failed \subseteq index /\ index \subseteq Blocks
    /\ tip \in data /\ Complete(tip)
    /\ Sound(dl, index, data)

-------------------------------------------------------------------------------
(* The tree of blocks *)

LEMMA LeastNat == ASSUME NEW S, S \subseteq Nat, S # {} PROVE \E i \in S : \A j \in S : i <= j
  <1>1. PICK i \in S : \A j \in S : ~(<<j, i>> \in OpToRel(<, Nat))
    BY Zenon, NatLessThanWellFounded, WFMin
  <1>2. \A j \in S : ~(j < i)
    BY Zenon, <1>1 DEF OpToRel
  <1>3. QED  BY <1>2

LEMMA HeightNat == \A b \in Blocks : Height(b) \in Nat
  <1> TAKE b \in Blocks
  <1>1. IsFiniteSet(Anc[b]) /\ Anc[b] # {}
    BY Zenon, TreeAssumption
  <1>2. Cardinality(Anc[b]) \in Nat /\ Cardinality(Anc[b]) # 0
    BY Zenon, <1>1, FS_CardinalityType, FS_EmptySet
  <1>3. QED  BY <1>2 DEF Height

\* The chain to a block has it at its top.
LEMMA Below ==
    ASSUME NEW b \in Blocks, NEW c \in Anc[b]
    PROVE  c \in Blocks /\ Anc[c] \subseteq Anc[b] /\ (c # b => Height(c) < Height(b))
  <1>1. /\ c \in Blocks /\ Anc[c] \subseteq Anc[b] /\ IsFiniteSet(Anc[b]) /\ b \in Anc[b]
        /\ (b \in Anc[c] => c = b)
    BY Zenon, TreeAssumption
  <1>2. /\ Cardinality(Anc[c]) <= Cardinality(Anc[b])
        /\ Cardinality(Anc[b]) = Cardinality(Anc[c]) => Anc[b] = Anc[c]
    BY Zenon, <1>1, FS_Subset
  <1>3. Height(b) \in Nat /\ Height(c) \in Nat
    BY Zenon, <1>1, HeightNat
  <1>4. Cardinality(Anc[b]) \in Nat /\ Cardinality(Anc[c]) \in Nat
    BY Zenon, <1>1, TreeAssumption, FS_CardinalityType
  <1>5. ASSUME c # b PROVE Height(c) < Height(b)
    BY <1>1, <1>2, <1>4, <1>5 DEF Height
  <1>6. QED  BY Zenon, <1>1, <1>5

\* Blocks of one chain are told apart by their heights.
LEMMA OneChain ==
    ASSUME NEW b \in Blocks, NEW c \in Anc[b], NEW x \in Anc[b], Height(c) <= Height(x)
    PROVE  c \in Anc[x] /\ (Height(c) = Height(x) => c = x)
  <1>1. c \in Blocks /\ x \in Blocks /\ (c \in Anc[x] \/ x \in Anc[c]) /\ x \in Anc[x]
    BY Zenon, TreeAssumption
  <1>2. Height(c) \in Nat /\ Height(x) \in Nat
    BY Zenon, <1>1, HeightNat
  <1>3. c \in Anc[x] /\ c # x => Height(c) < Height(x)
    BY Zenon, <1>1, Below
  <1>4. x \in Anc[c] /\ c # x => Height(x) < Height(c)
    BY Zenon, <1>1, Below
  <1>5. QED  BY <1>1, <1>2, <1>3, <1>4

\* A part of a chain has a lowest and a highest block.
LEMMA Lower ==
    ASSUME NEW S, S \subseteq Blocks, S # {}
    PROVE  \E b \in S : \A c \in S : Height(b) <= Height(c)
  <1> DEFINE H == {Height(c) : c \in S}
  <1>1. H \subseteq Nat /\ H # {}
    BY Zenon, HeightNat
  <1>2. PICK h \in H : \A k \in H : h <= k
    <2> HIDE DEF H
    <2>1. QED  BY Zenon, <1>1, LeastNat
  <1>3. QED  BY Zenon, <1>2

LEMMA Upper ==
    ASSUME NEW a \in Blocks, NEW S, S \subseteq Anc[a], S # {}
    PROVE  \E b \in S : \A c \in S : Height(c) <= Height(b)
  <1> DEFINE H == {Height(a) - Height(c) : c \in S}
  <1>1. Height(a) \in Nat
    BY Zenon, HeightNat
  <1>2. \A c \in S : c \in Blocks /\ Height(c) \in Nat /\ Height(c) <= Height(a)
    <2> TAKE c \in S
    <2>1. c \in Blocks /\ (c # a => Height(c) < Height(a))
      BY Zenon, Below
    <2>2. Height(c) \in Nat
      BY Zenon, <2>1, HeightNat
    <2>3. QED  BY <1>1, <2>1, <2>2
  <1>3. H \subseteq Nat /\ H # {}
    BY <1>1, <1>2
  <1>4. PICK h \in H : \A k \in H : h <= k
    <2> HIDE DEF H
    <2>1. QED  BY Zenon, <1>3, LeastNat
  <1>5. PICK b \in S : h = Height(a) - Height(b)
    BY Zenon, <1>4
  <1>6. \A c \in S : Height(a) - Height(b) <= Height(a) - Height(c)
    BY Zenon, <1>4, <1>5
  <1>7. \A c \in S : Height(c) <= Height(b)
    BY <1>1, <1>2, <1>6
  <1>8. QED  BY Zenon, <1>7

\* LastCommonAncestor finds a block of both chains.
LEMMA LastCommon ==
    ASSUME NEW a \in Blocks, NEW b \in Blocks
    PROVE  LastCommonAncestor(a, b) \in Anc[a] \cap Anc[b]
  <1> DEFINE S == Anc[a] \cap Anc[b]
  <1>1. S \subseteq Anc[a] /\ S # {}
    BY Zenon, TreeAssumption
  <1>2. PICK c \in S : \A x \in S : Height(x) <= Height(c)
    <2> HIDE DEF S
    <2>1. QED  BY Zenon, <1>1, Upper
  <1>3. S \subseteq Anc[c]
    BY Zenon, <1>2, OneChain
  <1>4. QED  BY Zenon, <1>2, <1>3 DEF LastCommonAncestor

-------------------------------------------------------------------------------
(* Steps that change the state of one node *)

SetNode(d, p, n) == [d EXCEPT !.node[p] = n]

\* No book is kept about what n and m differ in.
Like(n, m) == n.flight = m.flight /\ n.sync = m.sync /\ n.preferred = m.preferred

LEMMA SetNodeFacts ==
    ASSUME NEW d, DOMAIN d = Fields, NEW p \in DOMAIN d.node, NEW n,
           NEW e, e = SetNode(d, p, n)
    PROVE  /\ DOMAIN e = Fields /\ DOMAIN e.node = DOMAIN d.node /\ e.node[p] = n
           /\ \A q \in DOMAIN d.node : e.node[q] = IF q = p THEN n ELSE d.node[q]
           /\ e.inFlight = d.inFlight /\ e.nSyncStarted = d.nSyncStarted
           /\ e.nPreferredDownload = d.nPreferredDownload
  BY Zenon DEF SetNode, Fields

LEMMA NodeUpdate ==
    ASSUME NEW ind, NEW dat, NEW d, Sound(d, ind, dat), NEW p \in DOMAIN d.node,
           NEW n, NodeOK(n, ind, dat), Like(n, d.node[p])
    PROVE  Sound(SetNode(d, p, n), ind, dat)
  <1> DEFINE e == SetNode(d, p, n)
  <1>1. /\ DOMAIN e = Fields /\ DOMAIN e.node = DOMAIN d.node
        /\ \A q \in DOMAIN d.node : e.node[q] = IF q = p THEN n ELSE d.node[q]
        /\ e.inFlight = d.inFlight /\ e.nSyncStarted = d.nSyncStarted
        /\ e.nPreferredDownload = d.nPreferredDownload
    BY SetNodeFacts DEF Sound
  <1> HIDE DEF e
  <1>2. Syncing(e.node) = Syncing(d.node) /\ Favoured(e.node) = Favoured(d.node)
    BY Zenon, <1>1 DEF Syncing, Favoured, Like
  <1>3. Books(e.node, e.inFlight)
    BY <1>1 DEF Sound, Books, Like
  <1>4. \A q \in DOMAIN e.node : NodeOK(e.node[q], ind, dat)
    BY Zenon, <1>1 DEF Sound
  <1>5. Sound(e, ind, dat)
    BY Zenon, <1>1, <1>2, <1>3, <1>4 DEF Sound
  <1>6. QED  BY Zenon, <1>5 DEF e

\* The fields that no book is kept about.
LEMMA FlagsFree ==
    ASSUME NEW ind, NEW dat, NEW n, NodeOK(n, ind, dat), NEW v
    PROVE  /\ NodeOK([n EXCEPT !.shouldBan = v], ind, dat)
           /\ NodeOK([n EXCEPT !.disconnect = v], ind, dat)
           /\ NodeOK([n EXCEPT !.unknown = v], ind, dat)
           /\ NodeOK([n EXCEPT !.sync = v], ind, dat)
           /\ v \in ind \cup {NULL} => NodeOK([n EXCEPT !.known = v], ind, dat)
           /\ n.flight # {} => NodeOK([n EXCEPT !.stalling = v], ind, dat)
           /\ v \in ind /\ Anc[v] \subseteq dat => NodeOK([n EXCEPT !.common = v], ind, dat)
  <1>1. NodeOK([n EXCEPT !.shouldBan = v], ind, dat)
    BY Zenon DEF NodeOK, NewNode
  <1>2. NodeOK([n EXCEPT !.disconnect = v], ind, dat)
    BY Zenon DEF NodeOK, NewNode
  <1>3. NodeOK([n EXCEPT !.unknown = v], ind, dat)
    BY Zenon DEF NodeOK, NewNode
  <1>4. NodeOK([n EXCEPT !.sync = v], ind, dat)
    BY Zenon DEF NodeOK, NewNode
  <1>5. v \in ind \cup {NULL} => NodeOK([n EXCEPT !.known = v], ind, dat)
    BY Zenon DEF NodeOK, NewNode
  <1>6. n.flight # {} => NodeOK([n EXCEPT !.stalling = v], ind, dat)
    BY Zenon DEF NodeOK, NewNode
  <1>7. v \in ind /\ Anc[v] \subseteq dat => NodeOK([n EXCEPT !.common = v], ind, dat)
    BY Zenon DEF NodeOK, NewNode
  <1>8. QED  BY Zenon, <1>1, <1>2, <1>3, <1>4, <1>5, <1>6, <1>7

LEMMA PunishedSound ==
    ASSUME NEW ind, NEW dat, NEW d, Sound(d, ind, dat), NEW p \in DOMAIN d.node
    PROVE  Sound(Punished(d, p), ind, dat) /\ DOMAIN Punished(d, p).node = DOMAIN d.node
  <1> DEFINE n == [[d.node[p] EXCEPT !.disconnect = TRUE] EXCEPT !.shouldBan = FALSE]
  <1>1. NodeOK(d.node[p], ind, dat)
    BY Zenon DEF Sound
  <1>2. NodeOK([d.node[p] EXCEPT !.disconnect = TRUE], ind, dat)
    BY Zenon, <1>1, FlagsFree
  <1>3. NodeOK(n, ind, dat)
    BY Zenon, <1>2, FlagsFree
  <1>4. Like(n, d.node[p])
    BY Zenon, <1>1 DEF NodeOK, NewNode, Like
  <1>5. [d EXCEPT !.node[p].disconnect = TRUE, !.node[p].shouldBan = FALSE]
          = SetNode(d, p, n)
    BY Zenon, <1>1 DEF Sound, Fields, SetNode
  <1> HIDE DEF n
  <1>6. Sound(SetNode(d, p, n), ind, dat) /\ DOMAIN SetNode(d, p, n).node = DOMAIN d.node
    <2>1. DOMAIN d = Fields
      BY Zenon DEF Sound
    <2>2. DOMAIN SetNode(d, p, n).node = DOMAIN d.node
      BY <2>1, SetNodeFacts
    <2>3. QED  BY Zenon, <1>3, <1>4, <2>2, NodeUpdate
  <1>7. QED  BY Zenon, <1>5, <1>6 DEF Punished

LEMMA DisconnectSound ==
    ASSUME NEW ind, NEW dat, NEW d, Sound(d, ind, dat), NEW p \in DOMAIN d.node
    PROVE  /\ Sound([d EXCEPT !.node[p].disconnect = TRUE], ind, dat)
           /\ DOMAIN [d EXCEPT !.node[p].disconnect = TRUE].node = DOMAIN d.node
  <1> DEFINE n == [d.node[p] EXCEPT !.disconnect = TRUE]
  <1>1. NodeOK(d.node[p], ind, dat)
    BY Zenon DEF Sound
  <1>2. NodeOK(n, ind, dat)
    BY Zenon, <1>1, FlagsFree
  <1>3. Like(n, d.node[p])
    BY Zenon, <1>1 DEF NodeOK, NewNode, Like
  <1>4. [d EXCEPT !.node[p].disconnect = TRUE] = SetNode(d, p, n)
    BY Zenon DEF SetNode
  <1> HIDE DEF n
  <1>5. Sound(SetNode(d, p, n), ind, dat) /\ DOMAIN SetNode(d, p, n).node = DOMAIN d.node
    <2>1. DOMAIN d = Fields
      BY Zenon DEF Sound
    <2>2. DOMAIN SetNode(d, p, n).node = DOMAIN d.node
      BY <2>1, SetNodeFacts
    <2>3. QED  BY Zenon, <1>2, <1>3, <2>2, NodeUpdate
  <1>6. QED  BY Zenon, <1>4, <1>5

LEMMA MisbehavingSound ==
    ASSUME NEW ind, NEW dat, NEW d, Sound(d, ind, dat), NEW p \in DOMAIN d.node, NEW ban
    PROVE  Sound(Misbehaving(d, p, ban), ind, dat)
  <1> DEFINE n == [d.node[p] EXCEPT !.shouldBan = TRUE]
  <1>1. NodeOK(d.node[p], ind, dat)
    BY Zenon DEF Sound
  <1>2. NodeOK(n, ind, dat)
    BY Zenon, <1>1, FlagsFree
  <1>3. Like(n, d.node[p])
    BY Zenon, <1>1 DEF NodeOK, NewNode, Like
  <1>4. [d EXCEPT !.node[p].shouldBan = TRUE] = SetNode(d, p, n)
    BY Zenon DEF SetNode
  <1> HIDE DEF n
  <1>5. Sound(SetNode(d, p, n), ind, dat)
    BY Zenon, <1>2, <1>3, NodeUpdate
  <1>6. QED  BY Zenon, <1>4, <1>5 DEF Misbehaving

LEMMA StallSound ==
    ASSUME NEW ind, NEW dat, NEW d, Sound(d, ind, dat), NEW p \in DOMAIN d.node,
           d.node[p].flight # {}
    PROVE  Sound([d EXCEPT !.node[p].stalling = TRUE], ind, dat)
  <1> DEFINE n == [d.node[p] EXCEPT !.stalling = TRUE]
  <1>1. NodeOK(d.node[p], ind, dat)
    BY Zenon DEF Sound
  <1>2. NodeOK(n, ind, dat)
    BY Zenon, <1>1, FlagsFree
  <1>3. Like(n, d.node[p])
    BY Zenon, <1>1 DEF NodeOK, NewNode, Like
  <1>4. [d EXCEPT !.node[p].stalling = TRUE] = SetNode(d, p, n)
    BY Zenon DEF SetNode
  <1> HIDE DEF n
  <1>5. Sound(SetNode(d, p, n), ind, dat)
    BY Zenon, <1>2, <1>3, NodeUpdate
  <1>6. QED  BY Zenon, <1>4, <1>5

\* What is known of a peer changes no book about it.
LEMMA AvailabilityOK ==
    ASSUME NEW ind, NEW dat, NEW n, NodeOK(n, ind, dat)
    PROVE  /\ NodeOK(ProcessBlockAvailability(ind, n), ind, dat)
           /\ Like(ProcessBlockAvailability(ind, n), n)
           /\ ProcessBlockAvailability(ind, n).nBlocksInFlight = n.nBlocksInFlight
  <1> DEFINE k == IF Better(n.unknown, n.known) THEN n.unknown ELSE n.known
             m == [[n EXCEPT !.known = k] EXCEPT !.unknown = NULL]
  <1>1. CASE n.unknown = NULL \/ n.unknown \notin ind
    BY Zenon, <1>1 DEF ProcessBlockAvailability, Like
  <1>2. CASE n.unknown # NULL /\ n.unknown \in ind
    <2>1. k \in ind \cup {NULL}
      BY Zenon, <1>2 DEF NodeOK
    <2>2. NodeOK([n EXCEPT !.known = k], ind, dat)
      BY Zenon, <2>1, FlagsFree
    <2>3. NodeOK(m, ind, dat)
      BY Zenon, <2>2, FlagsFree
    <2>4. Like(m, n) /\ m.nBlocksInFlight = n.nBlocksInFlight
      BY Zenon DEF NodeOK, NewNode, Like
    <2>5. ProcessBlockAvailability(ind, n) = m
      BY Zenon, <1>2 DEF ProcessBlockAvailability
    <2>6. QED  BY Zenon, <2>3, <2>4, <2>5
  <1>3. QED  BY Zenon, <1>1, <1>2

LEMMA UpdateSound ==
    ASSUME NEW ind, NEW dat, NEW d, Sound(d, ind, dat), NEW p \in DOMAIN d.node, NEW b
    PROVE  /\ Sound(SetNode(d, p, UpdateBlockAvailability(ind, d.node[p], b)), ind, dat)
           /\ UpdateBlockAvailability(ind, d.node[p], b).nBlocksInFlight = d.node[p].nBlocksInFlight
  <1> DEFINE n == d.node[p]
             m == ProcessBlockAvailability(ind, n)
             k == IF Better(b, m.known) THEN b ELSE m.known
             u == UpdateBlockAvailability(ind, n, b)
  <1>1. NodeOK(n, ind, dat)
    BY Zenon DEF Sound
  <1>2. NodeOK(m, ind, dat) /\ Like(m, n) /\ m.nBlocksInFlight = n.nBlocksInFlight
    BY Zenon, <1>1, AvailabilityOK
  <1> HIDE DEF m
  <1>3. CASE b \in ind
    <2>1. u = [m EXCEPT !.known = k]
      BY Zenon, <1>3 DEF UpdateBlockAvailability, m
    <2>2. k \in ind \cup {NULL}
      BY Zenon, <1>2, <1>3 DEF NodeOK
    <2> HIDE DEF k
    <2>3. NodeOK([m EXCEPT !.known = k], ind, dat)
      BY Zenon, <1>2, <2>2, FlagsFree
    <2>4. [m EXCEPT !.known = k].nBlocksInFlight = m.nBlocksInFlight /\ Like([m EXCEPT !.known = k], m)
      BY Zenon, <1>2 DEF NodeOK, NewNode, Like
    <2> HIDE DEF u
    <2>5. NodeOK(u, ind, dat) /\ Like(u, n) /\ u.nBlocksInFlight = n.nBlocksInFlight
      BY Zenon, <1>2, <2>1, <2>3, <2>4 DEF Like
    <2>6. QED  BY Zenon, <2>5, NodeUpdate DEF u
  <1>4. CASE b \notin ind
    <2>1. u = [m EXCEPT !.unknown = b]
      BY Zenon, <1>4 DEF UpdateBlockAvailability, m
    <2>2. NodeOK([m EXCEPT !.unknown = b], ind, dat)
      BY Zenon, <1>2, FlagsFree
    <2>3. [m EXCEPT !.unknown = b].nBlocksInFlight = m.nBlocksInFlight /\ Like([m EXCEPT !.unknown = b], m)
      BY Zenon, <1>2 DEF NodeOK, NewNode, Like
    <2> HIDE DEF u
    <2>4. NodeOK(u, ind, dat) /\ Like(u, n) /\ u.nBlocksInFlight = n.nBlocksInFlight
      BY Zenon, <1>2, <2>1, <2>2, <2>3 DEF Like
    <2>5. QED  BY Zenon, <2>4, NodeUpdate DEF u
  <1>5. QED  BY Zenon, <1>3, <1>4

\* nSyncStarted counts the node that sets fSyncStarted.
LEMMA StartSyncSound ==
    ASSUME NEW ind, NEW dat, NEW d, Sound(d, ind, dat), NEW p \in DOMAIN d.node, NEW recent
    PROVE  /\ Sound(StartSync(d, p, recent), ind, dat)
           /\ DOMAIN StartSync(d, p, recent).node = DOMAIN d.node
  <1> DEFINE n == [d.node[p] EXCEPT !.sync = TRUE]
             e == StartSync(d, p, recent)
  <1>1. CASE e = d
    BY Zenon, <1>1
  <1>2. CASE ~d.node[p].sync /\ e = [d EXCEPT !.node[p].sync = TRUE, !.nSyncStarted = @ + 1]
    <2> HIDE DEF e
    <2>1. /\ DOMAIN e = Fields /\ DOMAIN e.node = DOMAIN d.node
          /\ \A q \in DOMAIN d.node : e.node[q] = IF q = p THEN n ELSE d.node[q]
          /\ e.inFlight = d.inFlight /\ e.nSyncStarted = d.nSyncStarted + 1
          /\ e.nPreferredDownload = d.nPreferredDownload
      BY Zenon, <1>2 DEF Sound, Fields
    <2>2. NodeOK(d.node[p], ind, dat)
      BY Zenon DEF Sound
    <2>3. NodeOK(n, ind, dat)
      BY Zenon, <2>2, FlagsFree
    <2>4. n.flight = d.node[p].flight /\ n.preferred = d.node[p].preferred /\ n.sync = TRUE
      BY Zenon, <2>2 DEF NodeOK, NewNode
    <2> HIDE DEF n
    <2>5. Favoured(e.node) = Favoured(d.node)
      BY Zenon, <2>1, <2>4 DEF Favoured
    <2>6. Syncing(e.node) = Syncing(d.node) \cup {p} /\ p \notin Syncing(d.node)
      BY <1>2, <2>1, <2>4 DEF Syncing
    <2>7. IsFiniteSet(Syncing(d.node))
      BY Zenon, FS_Subset DEF Syncing, Sound
    <2>8. e.nSyncStarted = Cardinality(Syncing(e.node))
      <3>1. Cardinality(Syncing(d.node) \cup {p}) = Cardinality(Syncing(d.node)) + 1
        BY Zenon, <2>6, <2>7, FS_AddElement
      <3>2. QED  BY Zenon, <2>1, <2>6, <3>1 DEF Sound
    <2>9. Books(e.node, e.inFlight)
      BY <2>1, <2>4 DEF Sound, Books
    <2>10. \A q \in DOMAIN e.node : NodeOK(e.node[q], ind, dat)
      BY Zenon, <2>1, <2>3 DEF Sound
    <2>11. Sound(e, ind, dat)
      BY Zenon, <2>1, <2>5, <2>8, <2>9, <2>10 DEF Sound
    <2>12. QED  BY Zenon, <2>1, <2>11 DEF e
  <1>3. QED  BY Zenon, <1>1, <1>2 DEF StartSync

-------------------------------------------------------------------------------
(* Blocks in flight *)

LEMMA ReceivedSound ==
    ASSUME NEW ind, NEW dat, NEW d, Sound(d, ind, dat), NEW h
    PROVE  /\ Sound(MarkBlockAsReceived(d, h), ind, dat)
           /\ DOMAIN MarkBlockAsReceived(d, h).node = DOMAIN d.node
           /\ h \notin DOMAIN MarkBlockAsReceived(d, h).inFlight
  <1> DEFINE p == d.inFlight[h]
             entry == EntryOf(d, h)
             n == [d.node[p] EXCEPT !.flight = @ \ {entry}, !.nBlocksInFlight = @ - 1,
                                    !.stalling = FALSE]
             e == MarkBlockAsReceived(d, h)
  <1>1. CASE h \notin DOMAIN d.inFlight
    BY Zenon, <1>1 DEF MarkBlockAsReceived
  <1>2. CASE h \in DOMAIN d.inFlight
    <2>1. p \in DOMAIN d.node /\ entry \in d.node[p].flight /\ entry.hash = h
      BY Zenon, <1>2 DEF Sound, Books, EntryOf
    <2> HIDE DEF entry
    <2>2. /\ DOMAIN e = Fields /\ DOMAIN e.node = DOMAIN d.node
          /\ \A q \in DOMAIN d.node : e.node[q] = IF q = p THEN n ELSE d.node[q]
          /\ e.inFlight = [b \in DOMAIN d.inFlight \ {h} |-> d.inFlight[b]]
          /\ e.nSyncStarted = d.nSyncStarted /\ e.nPreferredDownload = d.nPreferredDownload
      <3>1. e = [d EXCEPT !.inFlight = [b \in DOMAIN d.inFlight \ {h} |-> d.inFlight[b]],
                          !.nQueuedValidatedHeaders = IF entry.validated THEN @ - 1 ELSE @,
                          !.node[p].flight = @ \ {entry},
                          !.node[p].nBlocksInFlight = @ - 1,
                          !.node[p].stalling = FALSE]
        BY Zenon, <1>2 DEF MarkBlockAsReceived, Restrict, entry
      <3> HIDE DEF e, p
      <3>2. QED  BY <2>1, <3>1 DEF Sound, Fields
    <2>3. NodeOK(d.node[p], ind, dat)
      BY Zenon, <2>1 DEF Sound
    <2>4. /\ DOMAIN n = DOMAIN NewNode /\ n.flight = d.node[p].flight \ {entry}
          /\ n.nBlocksInFlight = d.node[p].nBlocksInFlight - 1 /\ n.stalling = FALSE
          /\ n.known = d.node[p].known /\ n.common = d.node[p].common
          /\ n.sync = d.node[p].sync /\ n.preferred = d.node[p].preferred
          /\ n.version = d.node[p].version
      BY Zenon, <2>3 DEF NodeOK, NewNode
    <2> HIDE DEF n, e, p
    <2>5. NodeOK(n, ind, dat)
      <3>1. /\ IsFiniteSet(n.flight) /\ n.nBlocksInFlight = Cardinality(n.flight)
        <4>1. /\ IsFiniteSet(d.node[p].flight)
              /\ d.node[p].nBlocksInFlight = Cardinality(d.node[p].flight)
          BY Zenon, <2>3 DEF NodeOK
        <4>2. /\ IsFiniteSet(d.node[p].flight \ {entry})
              /\ Cardinality(d.node[p].flight \ {entry}) = Cardinality(d.node[p].flight) - 1
          BY Zenon, <2>1, <4>1, FS_RemoveElement
        <4>3. QED  BY Zenon, <2>4, <4>1, <4>2
      <3>2. d.node[p].nBlocksInFlight \in Nat
        BY Zenon, <2>3, FS_CardinalityType DEF NodeOK
      <3>3. n.nBlocksInFlight <= MaxInTransit
        BY <2>3, <2>4, <3>2, DownloadAssumption DEF NodeOK
      <3>4. \A x, y \in n.flight : x.hash = y.hash => x = y
        BY Zenon, <2>3, <2>4 DEF NodeOK
      <3>5. QED  BY Zenon, <2>3, <2>4, <3>1, <3>3, <3>4 DEF NodeOK
    <2>6. Syncing(e.node) = Syncing(d.node) /\ Favoured(e.node) = Favoured(d.node)
      BY Zenon, <2>2, <2>4 DEF Syncing, Favoured
    <2>7. Books(e.node, e.inFlight)
      <3>1. \A q \in DOMAIN d.node : \A x \in e.node[q].flight :
               x \in d.node[q].flight /\ (q = p => x # entry)
        BY Zenon, <2>2, <2>4
      <3>2. \A q \in DOMAIN d.node : \A x \in e.node[q].flight : x.hash # h
        <4> TAKE q \in DOMAIN d.node
        <4> TAKE x \in e.node[q].flight
        <4>1. SUFFICES ASSUME x.hash = h PROVE FALSE
          OBVIOUS
        <4>2. q = p
          BY Zenon, <3>1, <4>1 DEF Sound, Books, p
        <4>3. QED  BY Zenon, <2>1, <2>3, <3>1, <4>1, <4>2 DEF NodeOK
      <3>3. \A q \in DOMAIN e.node : \A x \in e.node[q].flight :
               x.hash \in DOMAIN e.inFlight /\ e.inFlight[x.hash] = q
        BY <2>2, <3>1, <3>2 DEF Sound, Books
      <3>4. \A g \in DOMAIN e.inFlight :
               e.inFlight[g] \in DOMAIN e.node /\ \E x \in e.node[e.inFlight[g]].flight : x.hash = g
        <4> TAKE g \in DOMAIN e.inFlight
        <4>1. g \in DOMAIN d.inFlight /\ g # h /\ e.inFlight[g] = d.inFlight[g]
          BY Zenon, <2>2
        <4>2. PICK x \in d.node[d.inFlight[g]].flight : x.hash = g /\ d.inFlight[g] \in DOMAIN d.node
          BY Zenon, <4>1 DEF Sound, Books
        <4>3. x \in e.node[d.inFlight[g]].flight
          BY Zenon, <2>1, <2>2, <2>4, <4>1, <4>2
        <4>4. QED  BY Zenon, <2>2, <4>1, <4>2, <4>3
      <3>5. QED  BY Zenon, <3>3, <3>4 DEF Books
    <2>8. \A q \in DOMAIN e.node : NodeOK(e.node[q], ind, dat)
      BY Zenon, <2>2, <2>5 DEF Sound
    <2>9. DOMAIN e.inFlight \cap dat = {} /\ h \notin DOMAIN e.inFlight
      BY Zenon, <2>2 DEF Sound
    <2>10. Sound(e, ind, dat)
      BY Zenon, <2>2, <2>6, <2>7, <2>8, <2>9 DEF Sound
    <2>11. QED  BY Zenon, <2>2, <2>9, <2>10 DEF e
  <1>3. QED  BY Zenon, <1>1, <1>2

\* The node n is m with the entries E more.
More(n, m, E) ==
    /\ DOMAIN n = DOMAIN m /\ n.flight = m.flight \cup E
    /\ n.nBlocksInFlight = m.nBlocksInFlight + Cardinality(E) /\ n.stalling = m.stalling
    /\ n.known = m.known /\ n.common = m.common /\ n.sync = m.sync /\ n.preferred = m.preferred
    /\ n.version = m.version

\* Entries E for the blocks H, which nobody was asked for and for which p has room.
Fresh(d, dat, p, E, H) ==
    /\ IsFiniteSet(E) /\ \A x, y \in E : x.hash = y.hash => x = y
    /\ H = {x.hash : x \in E} /\ H \cap DOMAIN d.inFlight = {} /\ H \cap dat = {}
    /\ d.node[p].nBlocksInFlight + Cardinality(E) <= MaxInTransit

\* The state e is d with the node n for p and the blocks H in flight from it.
Requested(d, e, p, n, H) ==
    /\ DOMAIN e = Fields /\ DOMAIN e.node = DOMAIN d.node
    /\ \A q \in DOMAIN d.node : e.node[q] = IF q = p THEN n ELSE d.node[q]
    /\ e.inFlight = [b \in DOMAIN d.inFlight \cup H |-> IF b \in H THEN p ELSE d.inFlight[b]]
    /\ e.nSyncStarted = d.nSyncStarted /\ e.nPreferredDownload = d.nPreferredDownload

LEMMA RequestedSound ==
    ASSUME NEW ind, NEW dat, NEW d, Sound(d, ind, dat), NEW p \in DOMAIN d.node,
           NEW E, NEW H, Fresh(d, dat, p, E, H), NEW n, More(n, d.node[p], E),
           NEW e, Requested(d, e, p, n, H)
    PROVE  Sound(e, ind, dat)
  <1> USE DEF Fresh, Requested
  <1>1. NodeOK(d.node[p], ind, dat)
    BY Zenon DEF Sound
  <1>2. /\ DOMAIN n = DOMAIN NewNode /\ n.flight = d.node[p].flight \cup E
        /\ n.nBlocksInFlight = d.node[p].nBlocksInFlight + Cardinality(E)
        /\ n.stalling = d.node[p].stalling /\ n.known = d.node[p].known
        /\ n.common = d.node[p].common
        /\ n.sync = d.node[p].sync /\ n.preferred = d.node[p].preferred
        /\ n.version = d.node[p].version
    BY Zenon, <1>1 DEF NodeOK, More
  <1>3. \A q \in DOMAIN d.node : \A x \in d.node[q].flight : x.hash \notin H
    BY Zenon DEF Sound, Books
  <1>4. NodeOK(n, ind, dat)
    <2>1. d.node[p].flight \cap E = {}
      BY <1>3
    <2>2. IsFiniteSet(n.flight) /\ n.nBlocksInFlight = Cardinality(n.flight)
      <3>1. /\ IsFiniteSet(n.flight)
            /\ Cardinality(n.flight) = Cardinality(d.node[p].flight) + Cardinality(E)
                                         - Cardinality(d.node[p].flight \cap E)
        <4>1. IsFiniteSet(d.node[p].flight)
          BY Zenon, <1>1 DEF NodeOK
        <4>2. /\ IsFiniteSet(d.node[p].flight \cup E)
              /\ Cardinality(d.node[p].flight \cup E) =
                    Cardinality(d.node[p].flight) + Cardinality(E) - Cardinality(d.node[p].flight \cap E)
          BY Zenon, <4>1, FS_Union
        <4>3. QED  BY Zenon, <1>2, <4>2
      <3>2. Cardinality(d.node[p].flight \cap E) = 0
        BY Zenon, <2>1, FS_EmptySet
      <3>3. Cardinality(d.node[p].flight) \in Nat /\ Cardinality(E) \in Nat
        BY Zenon, <1>1, FS_CardinalityType DEF NodeOK
      <3>4. d.node[p].nBlocksInFlight = Cardinality(d.node[p].flight)
        BY Zenon, <1>1 DEF NodeOK
      <3>5. QED  BY <1>2, <3>1, <3>2, <3>3, <3>4
    <2>3. \A x, y \in n.flight : x.hash = y.hash => x = y
      BY <1>1, <1>2, <1>3 DEF NodeOK
    <2>4. n.stalling => n.flight # {}
      BY Zenon, <1>1, <1>2 DEF NodeOK
    <2>5. QED  BY Zenon, <1>1, <1>2, <2>2, <2>3, <2>4 DEF NodeOK
  <1>5. Syncing(e.node) = Syncing(d.node) /\ Favoured(e.node) = Favoured(d.node)
    BY <1>2 DEF Syncing, Favoured
  <1>6. Books(e.node, e.inFlight)
    <2>1. \A q \in DOMAIN e.node : \A x \in e.node[q].flight :
             x.hash \in DOMAIN e.inFlight /\ e.inFlight[x.hash] = q
      <3> TAKE q \in DOMAIN e.node
      <3> TAKE x \in e.node[q].flight
      <3>1. CASE q = p /\ x \in E
        BY <3>1
      <3>2. CASE x \in d.node[q].flight
        <4>1. x.hash \in DOMAIN d.inFlight /\ d.inFlight[x.hash] = q /\ x.hash \notin H
          BY Zenon, <1>3, <3>2 DEF Sound, Books
        <4>2. QED  BY Zenon, <4>1
      <3>3. QED  BY Zenon, <1>2, <3>1, <3>2
    <2>2. \A g \in DOMAIN e.inFlight :
             e.inFlight[g] \in DOMAIN e.node /\ \E x \in e.node[e.inFlight[g]].flight : x.hash = g
      <3> TAKE g \in DOMAIN e.inFlight
      <3>1. CASE g \in H
        <4>1. e.inFlight[g] = p /\ \E x \in E : x.hash = g
          BY <3>1
        <4>2. QED  BY Zenon, <1>2, <4>1
      <3>2. CASE g \notin H
        <4>1. g \in DOMAIN d.inFlight /\ e.inFlight[g] = d.inFlight[g]
          BY Zenon, <3>2
        <4>2. PICK x \in d.node[d.inFlight[g]].flight : x.hash = g /\ d.inFlight[g] \in DOMAIN d.node
          BY Zenon, <4>1 DEF Sound, Books
        <4>3. x \in e.node[d.inFlight[g]].flight
          BY Zenon, <1>2, <4>2
        <4>4. QED  BY Zenon, <4>1, <4>2, <4>3
      <3>3. QED  BY Zenon, <3>1, <3>2
    <2>3. QED  BY Zenon, <2>1, <2>2 DEF Books
  <1>7. \A q \in DOMAIN e.node : NodeOK(e.node[q], ind, dat)
    BY Zenon, <1>4 DEF Sound
  <1>8. DOMAIN e.inFlight \cap dat = {}
    BY Zenon DEF Sound
  <1>9. QED  BY Zenon, <1>5, <1>6, <1>7, <1>8 DEF Sound

LEMMA InFlightSound ==
    ASSUME NEW ind, NEW dat, NEW d, Sound(d, ind, dat), NEW p \in DOMAIN d.node, NEW v,
           NEW h, h \notin DOMAIN d.inFlight, h \notin dat,
           d.node[p].nBlocksInFlight < MaxInTransit
    PROVE  Sound(MarkBlockAsInFlight(d, p, h, v), ind, dat)
  <1> DEFINE E == {Queued(h, v)}
             H == {h}
             n == [d.node[p] EXCEPT !.flight = @ \cup {Queued(h, v)}, !.nBlocksInFlight = @ + 1]
             e == MarkBlockAsInFlight(d, p, h, v)
  <1>1. IsFiniteSet(E) /\ Cardinality(E) = 1 /\ H = {x.hash : x \in E}
    <2>1. H = {x.hash : x \in E}
      BY DEF Queued
    <2>2. QED  BY Zenon, <2>1, FS_Singleton
  <1>2. \A x, y \in E : x.hash = y.hash => x = y
    OBVIOUS
  <1>3. NodeOK(d.node[p], ind, dat)
    BY Zenon DEF Sound
  <1>4. d.node[p].nBlocksInFlight + Cardinality(E) <= MaxInTransit
    <2>1. d.node[p].nBlocksInFlight \in Nat
      BY Zenon, <1>3, FS_CardinalityType DEF NodeOK
    <2>2. QED  BY <1>1, <2>1, DownloadAssumption
  <1>5. More(n, d.node[p], E)
    BY Zenon, <1>1, <1>3 DEF NodeOK, NewNode, More
  <1>6. /\ DOMAIN e = Fields /\ DOMAIN e.node = DOMAIN d.node
        /\ \A q \in DOMAIN d.node : e.node[q] = IF q = p THEN n ELSE d.node[q]
        /\ e.inFlight = [b \in DOMAIN d.inFlight \cup {h} |-> IF b = h THEN p ELSE d.inFlight[b]]
        /\ e.nSyncStarted = d.nSyncStarted /\ e.nPreferredDownload = d.nPreferredDownload
    <2>1. MarkBlockAsReceived(d, h) = d
      BY Zenon DEF MarkBlockAsReceived
    <2>2. e = [d EXCEPT !.inFlight = [b \in DOMAIN @ \cup {h} |-> IF b = h THEN p ELSE @[b]],
                        !.nQueuedValidatedHeaders = IF v THEN @ + 1 ELSE @,
                        !.node[p].flight = @ \cup {Queued(h, v)},
                        !.node[p].nBlocksInFlight = @ + 1]
      BY Zenon, <2>1 DEF MarkBlockAsInFlight
    <2> HIDE DEF e
    <2>3. QED  BY Zenon, <2>2 DEF Sound, Fields
  <1>7. e.inFlight = [b \in DOMAIN d.inFlight \cup H |-> IF b \in H THEN p ELSE d.inFlight[b]]
    BY Zenon, <1>6
  <1>8. H \cap DOMAIN d.inFlight = {} /\ H \cap dat = {}
    OBVIOUS
  <1> HIDE DEF E, H, n, e
  <1>9. Sound(e, ind, dat)
    <2>1. Fresh(d, dat, p, E, H) /\ Requested(d, e, p, n, H)
      BY Zenon, <1>1, <1>2, <1>4, <1>6, <1>7, <1>8 DEF Fresh, Requested
    <2>2. QED  BY Zenon, <1>5, <2>1, RequestedSound
  <1>10. QED  BY Zenon, <1>9 DEF e

LEMMA BatchSound ==
    ASSUME NEW ind, NEW dat, NEW d, Sound(d, ind, dat), NEW p \in DOMAIN d.node,
           NEW B, IsFiniteSet(B), B \cap DOMAIN d.inFlight = {}, B \cap dat = {},
           d.node[p].nBlocksInFlight + Cardinality(B) <= MaxInTransit
    PROVE  /\ Sound(MarkBlocksAsInFlight(d, p, B), ind, dat)
           /\ DOMAIN MarkBlocksAsInFlight(d, p, B).node = DOMAIN d.node
           /\ \A q \in DOMAIN d.node \ {p} : MarkBlocksAsInFlight(d, p, B).node[q] = d.node[q]
  <1> DEFINE E == {Queued(b, TRUE) : b \in B}
             n == [d.node[p] EXCEPT !.flight = @ \cup {Queued(b, TRUE) : b \in B},
                                    !.nBlocksInFlight = @ + Cardinality(B)]
             e == MarkBlocksAsInFlight(d, p, B)
  <1>1. B = {x.hash : x \in E}
    <2>1. \A x : x \in E <=> \E b \in B : x = Queued(b, TRUE)
      BY Zenon
    <2>2. \A b \in B : Queued(b, TRUE).hash = b
      BY Zenon DEF Queued
    <2> HIDE DEF E
    <2>3. ASSUME NEW b \in B PROVE b \in {x.hash : x \in E}
      <3>1. Queued(b, TRUE) \in E /\ b = Queued(b, TRUE).hash
        BY Zenon, <2>1, <2>2
      <3>2. QED  BY Zenon, <3>1
    <2>4. ASSUME NEW x \in E PROVE x.hash \in B
      <3>1. PICK b \in B : x = Queued(b, TRUE)
        BY Zenon, <2>1
      <3>2. Queued(b, TRUE).hash = b
        BY Zenon, <2>2
      <3>3. QED  BY Zenon, <3>1, <3>2
    <2>5. QED  BY Zenon, <2>3, <2>4
  <1>2. \A x, y \in E : x.hash = y.hash => x = y
    <2>1. \A b, c \in B : Queued(b, TRUE).hash = Queued(c, TRUE).hash => b = c
      BY Zenon DEF Queued
    <2>2. QED  BY Zenon, <2>1
  <1>3. IsFiniteSet(E) /\ Cardinality(E) = Cardinality(B)
    <2> DEFINE f == [b \in B |-> Queued(b, TRUE)]
    <2>1. f \in [B -> E] /\ \A b, c \in B : f[b] = f[c] => b = c
      BY Zenon DEF Queued
    <2>2. \A x \in E : \E b \in B : f[b] = x
      BY Zenon
    <2> HIDE DEF f, E
    <2>3. f \in Bijection(B, E)
      BY Zenon, <2>1, <2>2 DEF Bijection, Injection, Surjection, IsInjective
    <2>4. QED  BY Zenon, <2>3, FS_Bijection DEF ExistsBijection
  <1>4. NodeOK(d.node[p], ind, dat)
    BY Zenon DEF Sound
  <1>5. More(n, d.node[p], E)
    BY Zenon, <1>3, <1>4 DEF NodeOK, NewNode, More
  <1>6. /\ DOMAIN e = Fields /\ DOMAIN e.node = DOMAIN d.node
        /\ \A q \in DOMAIN d.node : e.node[q] = IF q = p THEN n ELSE d.node[q]
        /\ e.inFlight = [b \in DOMAIN d.inFlight \cup B |-> IF b \in B THEN p ELSE d.inFlight[b]]
        /\ e.nSyncStarted = d.nSyncStarted /\ e.nPreferredDownload = d.nPreferredDownload
    BY Zenon DEF MarkBlocksAsInFlight, Sound, Fields
  <1>7. d.node[p].nBlocksInFlight + Cardinality(E) <= MaxInTransit
    BY Zenon, <1>3
  <1> HIDE DEF E, n, e
  <1>8. Sound(e, ind, dat)
    <2>1. Fresh(d, dat, p, E, B) /\ Requested(d, e, p, n, B)
      BY Zenon, <1>1, <1>2, <1>3, <1>6, <1>7 DEF Fresh, Requested
    <2>2. QED  BY Zenon, <1>5, <2>1, RequestedSound
  <1>9. QED  BY Zenon, <1>6, <1>8 DEF e

-------------------------------------------------------------------------------
(* FindNextBlocksToDownload *)

\* No more blocks than there is room for.
LEMMA LowestFew ==
    ASSUME NEW a \in Blocks, NEW S, S \subseteq Anc[a], NEW count \in Nat
    PROVE  IsFiniteSet(Lowest(S, count)) /\ Cardinality(Lowest(S, count)) <= count
  <1> DEFINE U(b) == {c \in S : Height(c) < Height(b)}
             L == Lowest(S, count)
             f == [b \in L |-> Cardinality(U(b))]
  <1>1. IsFiniteSet(S) /\ S \subseteq Blocks
    BY Zenon, TreeAssumption, FS_Subset
  <1>2. \A b : IsFiniteSet(U(b)) /\ Cardinality(U(b)) \in Nat
    <2> TAKE b
    <2>1. U(b) \in SUBSET S
      OBVIOUS
    <2> HIDE DEF U
    <2>2. QED  BY Zenon, <1>1, <2>1, FS_Subset, FS_CardinalityType
  <1>3. L \subseteq S /\ \A b \in L : Cardinality(U(b)) < count
    BY Zenon DEF Lowest
  <1>4. \A b, c \in L : Height(b) < Height(c) => Cardinality(U(b)) # Cardinality(U(c))
    <2> SUFFICES ASSUME NEW b \in L, NEW c \in L, Height(b) < Height(c),
                        Cardinality(U(b)) = Cardinality(U(c))
                 PROVE  FALSE
      BY Zenon
    <2>1. Height(b) \in Nat /\ Height(c) \in Nat /\ \A x \in S : Height(x) \in Nat
      BY Zenon, <1>1, <1>3, HeightNat
    <2>2. U(b) \subseteq U(c) /\ b \in U(c) /\ b \notin U(b)
      BY <1>3, <2>1
    <2> HIDE DEF U
    <2>3. U(c) = U(b)
      BY Zenon, <1>2, <2>2, FS_Subset
    <2>4. QED  BY Zenon, <2>2, <2>3
  <1>5. \A b, c \in L : Cardinality(U(b)) = Cardinality(U(c)) => b = c
    <2> SUFFICES ASSUME NEW b \in L, NEW c \in L, Cardinality(U(b)) = Cardinality(U(c))
                 PROVE  b = c
      BY Zenon
    <2>1. Height(b) \in Nat /\ Height(c) \in Nat
      BY Zenon, <1>1, <1>3, HeightNat
    <2>2. ~(Height(b) < Height(c)) /\ ~(Height(c) < Height(b))
      BY Zenon, <1>4
    <2>3. Height(b) = Height(c) /\ Height(b) <= Height(c)
      BY <2>1, <2>2
    <2>4. QED  BY Zenon, <1>3, <2>3, OneChain
  <1>6. f \in Injection(L, 0..(count - 1))
    <2>1. f \in [L -> 0..(count - 1)]
      <3>1. \A b \in L : Cardinality(U(b)) \in 0..(count - 1)
        <4> HIDE DEF U, L
        <4>1. QED  BY <1>2, <1>3
      <3>2. QED  BY Zenon, <3>1
    <2>2. \A b, c \in L : f[b] = f[c] => b = c
      BY Zenon, <1>5
    <2> HIDE DEF f, L
    <2>3. QED  BY Zenon, <2>1, <2>2 DEF Injection, IsInjective
  <1>7. IsFiniteSet(0..(count - 1)) /\ Cardinality(0..(count - 1)) = count
    BY FS_Interval
  <1> HIDE DEF f, L
  <1>8. IsFiniteSet(L) /\ Cardinality(L) <= Cardinality(0..(count - 1))
    BY Zenon, <1>6, <1>7, FS_Injection
  <1>9. QED  BY Zenon, <1>7, <1>8 DEF L

\* pindexLastCommonBlock stays at a block with all its ancestors.
LEMMA CommonAfterComplete ==
    ASSUME NEW a \in Blocks, NEW start \in Anc[a], Complete(start),
           NEW walk, walk \subseteq Anc[a]
    PROVE  CommonAfter(start, walk) \in Anc[a] /\ Complete(CommonAfter(start, walk))
  <1> DEFINE full == {start} \cup {b \in walk : Complete(b)}
  <1>1. full \subseteq Anc[a] /\ full # {} /\ \A b \in full : Complete(b)
    OBVIOUS
  <1>2. CommonAfter(start, walk) = CHOOSE b \in full : \A c \in full : Height(c) <= Height(b)
    BY Zenon DEF CommonAfter
  <1> HIDE DEF full
  <1>3. \E b \in full : \A c \in full : Height(c) <= Height(b)
    BY Zenon, <1>1, Upper
  <1>4. CommonAfter(start, walk) \in full
    BY Zenon, <1>2, <1>3
  <1>5. QED  BY Zenon, <1>1, <1>4

\* What is known of a peer after the search.
LEMMA FindNode ==
    ASSUME NEW d, IInv, Sound(d, index, data), NEW p \in DOMAIN d.node, NEW count \in Nat,
           NEW m, m = FindNextBlocksToDownload(d, p, count).n
    PROVE  /\ NodeOK(m, index, data) /\ Like(m, d.node[p])
           /\ m.nBlocksInFlight = d.node[p].nBlocksInFlight
  <1> DEFINE n == ProcessBlockAvailability(index, d.node[p])
             guess == IF n.common # NULL THEN n.common
                      ELSE GetAncestor(tip, Min({Height(n.known), Height(tip)}))
             start == LastCommonAncestor(guess, n.known)
             range == {b \in Anc[n.known] :
                          Height(b) \in Height(start) + 1 .. (Height(start) + Window) + 1}
             walk == {b \in range : \A x \in range \cap failed : Height(b) < Height(x)}
             k == CommonAfter(start, walk)
  <1>1. NodeOK(d.node[p], index, data)
    BY Zenon DEF Sound
  <1>2. /\ NodeOK(n, index, data) /\ Like(n, d.node[p])
        /\ n.nBlocksInFlight = d.node[p].nBlocksInFlight
    BY Zenon, <1>1, AvailabilityOK
  <1>3. CASE n.known = NULL \/ Height(n.known) < Height(tip)
    <2>1. m = n
      BY Zenon, <1>3 DEF FindNextBlocksToDownload
    <2>2. QED  BY Zenon, <1>2, <2>1
  <1>4. CASE n.known # NULL /\ ~(Height(n.known) < Height(tip))
    <2>1. m = [n EXCEPT !.common = k]
      BY Zenon, <1>4 DEF FindNextBlocksToDownload
    <2> HIDE DEF n
    <2>2. /\ n.known \in Blocks /\ tip \in Blocks /\ Complete(tip) /\ data \subseteq index
          /\ index \subseteq Blocks
      BY Zenon, <1>2, <1>4 DEF IInv, NodeOK
    <2>3. guess \in Blocks /\ Complete(guess)
      <3>1. CASE n.common # NULL
        BY Zenon, <1>2, <2>2, <3>1 DEF NodeOK, Complete
      <3>2. CASE n.common = NULL
        <4>1. Height(n.known) \in Nat /\ Height(tip) \in Nat
          BY Zenon, <2>2, HeightNat
        <4>2. Min({Height(n.known), Height(tip)}) = Height(tip)
          BY <1>4, <4>1 DEF Min
        <4>3. tip \in Anc[tip]
          BY Zenon, <2>2, TreeAssumption
        <4>4. GetAncestor(tip, Height(tip)) \in Anc[tip]
          BY Zenon, <4>3 DEF GetAncestor
        <4>5. guess \in Anc[tip]
          BY Zenon, <3>2, <4>2, <4>4
        <4> HIDE DEF guess
        <4>6. guess \in Blocks /\ Anc[guess] \subseteq Anc[tip]
          BY Zenon, <2>2, <4>5, Below
        <4>7. QED  BY Zenon, <2>2, <4>6 DEF Complete
      <3>3. QED  BY Zenon, <3>1, <3>2
    <2> HIDE DEF guess
    <2>4. start \in Anc[guess] /\ start \in Anc[n.known]
      BY Zenon, <2>2, <2>3, LastCommon
    <2> HIDE DEF start
    <2>5. Complete(start)
      <3>1. Anc[start] \subseteq Anc[guess]
        BY Zenon, <2>3, <2>4, Below
      <3>2. QED  BY Zenon, <2>3, <3>1 DEF Complete
    <2>6. walk \subseteq Anc[n.known]
      OBVIOUS
    <2> HIDE DEF walk
    <2>7. k \in Anc[n.known] /\ Complete(k)
      BY Zenon, <2>2, <2>4, <2>5, <2>6, CommonAfterComplete
    <2> HIDE DEF k
    <2>8. k \in index /\ Anc[k] \subseteq data
      <3>1. k \in Anc[k]
        BY Zenon, <2>2, <2>7, TreeAssumption
      <3>2. QED  BY Zenon, <2>2, <2>7, <3>1 DEF Complete
    <2>9. NodeOK([n EXCEPT !.common = k], index, data)
      BY Zenon, <1>2, <2>8, FlagsFree
    <2>10. /\ Like([n EXCEPT !.common = k], n)
           /\ [n EXCEPT !.common = k].nBlocksInFlight = n.nBlocksInFlight
      BY Zenon, <1>2 DEF NodeOK, NewNode, Like
    <2>11. QED  BY Zenon, <1>2, <2>1, <2>9, <2>10 DEF Like
  <1>5. QED  BY Zenon, <1>3, <1>4

\* What is asked for, and who is blamed when nothing can be.
LEMMA FindBlocks ==
    ASSUME NEW d, IInv, Sound(d, index, data), NEW p \in DOMAIN d.node, NEW count \in Nat,
           NEW f, f = FindNextBlocksToDownload(d, p, count)
    PROVE  /\ IsFiniteSet(f.blocks) /\ Cardinality(f.blocks) <= count
           /\ f.blocks \cap DOMAIN d.inFlight = {} /\ f.blocks \cap data = {}
           /\ f.staller # NULL => /\ f.staller \in DOMAIN d.node \ {p}
                                  /\ d.node[f.staller].flight # {}
  <1> DEFINE n == ProcessBlockAvailability(index, d.node[p])
             guess == IF n.common # NULL THEN n.common
                      ELSE GetAncestor(tip, Min({Height(n.known), Height(tip)}))
             start == LastCommonAncestor(guess, n.known)
             nWindowEnd == Height(start) + Window
             range == {b \in Anc[n.known] : Height(b) \in Height(start) + 1 .. nWindowEnd + 1}
             walk == {b \in range : \A x \in range \cap failed : Height(b) < Height(x)}
             missing == walk \ (data \cup DOMAIN d.inFlight)
             awaited == (walk \ data) \cap DOMAIN d.inFlight
             first == CHOOSE b \in awaited : \A c \in awaited : Height(b) <= Height(c)
             near == {b \in missing : Height(b) <= nWindowEnd}
  <1>1. CASE n.known = NULL \/ Height(n.known) < Height(tip)
    <2>1. f.blocks = {} /\ f.staller = NULL
      BY Zenon, <1>1 DEF FindNextBlocksToDownload
    <2>2. IsFiniteSet({}) /\ Cardinality({}) = 0
      BY Zenon, FS_EmptySet
    <2>3. QED  BY <2>1, <2>2
  <1>2. CASE n.known # NULL /\ ~(Height(n.known) < Height(tip))
    <2>1. /\ f.blocks = Lowest(near, count)
          /\ f.staller = IF near = {} /\ missing # {} /\ awaited # {}
                         THEN IF d.inFlight[first] # p THEN d.inFlight[first] ELSE NULL
                         ELSE NULL
      BY Zenon, <1>2 DEF FindNextBlocksToDownload
    <2>2. n.known \in Blocks
      <3>1. NodeOK(n, index, data)
        BY Zenon, AvailabilityOK DEF Sound
      <3> HIDE DEF n
      <3>2. QED  BY Zenon, <1>2, <3>1 DEF IInv, NodeOK
    <2> HIDE DEF n
    <2>3. near \subseteq Anc[n.known] /\ near \cap data = {} /\ near \cap DOMAIN d.inFlight = {}
      OBVIOUS
    <2>4. awaited \subseteq Anc[n.known] /\ awaited \subseteq DOMAIN d.inFlight
      OBVIOUS
    <2> HIDE DEF near, awaited, missing
    <2>5. Lowest(near, count) \subseteq near
      BY Zenon DEF Lowest
    <2>6. IsFiniteSet(f.blocks) /\ Cardinality(f.blocks) <= count
      BY Zenon, <2>1, <2>2, <2>3, LowestFew
    <2>7. f.blocks \cap DOMAIN d.inFlight = {} /\ f.blocks \cap data = {}
      BY Zenon, <2>1, <2>3, <2>5
    <2>8. ASSUME f.staller # NULL
          PROVE  f.staller \in DOMAIN d.node \ {p} /\ d.node[f.staller].flight # {}
      <3>1. awaited # {} /\ f.staller = d.inFlight[first] /\ d.inFlight[first] # p
        BY Zenon, <2>1, <2>8
      <3>2. awaited \subseteq Blocks
        BY Zenon, <2>2, <2>4, Below
      <3>3. \E b \in awaited : \A c \in awaited : Height(b) <= Height(c)
        BY Zenon, <3>1, <3>2, Lower
      <3>4. first \in DOMAIN d.inFlight
        BY Zenon, <2>4, <3>3
      <3> HIDE DEF first
      <3>5. /\ d.inFlight[first] \in DOMAIN d.node
            /\ \E x \in d.node[d.inFlight[first]].flight : x.hash = first
        BY Zenon, <3>4 DEF Sound, Books
      <3>6. QED  BY Zenon, <3>1, <3>5
    <2>9. QED  BY Zenon, <2>6, <2>7, <2>8
  <1>3. QED  BY Zenon, <1>1, <1>2

-------------------------------------------------------------------------------
(* The steps *)

LEMMA GetDataSound ==
    ASSUME NEW d, IInv, Sound(d, index, data), NEW p \in DOMAIN d.node
    PROVE  Sound(GetData(d, p), index, data)
  <1> DEFINE room == Room(d.node[p])
             f == FindNextBlocksToDownload(d, p, room)
             c == SetNode(d, p, f.n)
             asked == MarkBlocksAsInFlight(c, p, f.blocks)
  <1>1. CASE d.node[p].disconnect \/ ~fFetch(d, p) \/ room <= 0
    BY Zenon, <1>1 DEF GetData
  <1>2. CASE ~(d.node[p].disconnect \/ ~fFetch(d, p) \/ room <= 0)
    <2>1. /\ GetData(d, p) = IF asked.node[p].nBlocksInFlight = 0 /\ f.staller # NULL
                             THEN [asked EXCEPT !.node[f.staller].stalling = TRUE] ELSE asked
      BY Zenon, <1>2 DEF GetData, SetNode
    <2>2. NodeOK(d.node[p], index, data) /\ DOMAIN d = Fields
      BY Zenon DEF Sound
    <2>3. d.node[p].nBlocksInFlight \in Nat
      BY Zenon, <2>2, FS_CardinalityType DEF NodeOK
    <2>4. room \in Nat /\ d.node[p].nBlocksInFlight + room = MaxInTransit
      BY <1>2, <2>3, DownloadAssumption DEF Room
    <2> HIDE DEF room
    <2>found. f = FindNextBlocksToDownload(d, p, room)
      OBVIOUS
    <2> HIDE DEF f
    <2>5. /\ NodeOK(f.n, index, data) /\ Like(f.n, d.node[p])
          /\ f.n.nBlocksInFlight = d.node[p].nBlocksInFlight
      BY Zenon, <2>4, <2>found, FindNode
    <2>6. /\ IsFiniteSet(f.blocks) /\ Cardinality(f.blocks) <= room
          /\ f.blocks \cap DOMAIN d.inFlight = {} /\ f.blocks \cap data = {}
          /\ f.staller # NULL => /\ f.staller \in DOMAIN d.node \ {p}
                                 /\ d.node[f.staller].flight # {}
      BY <2>4, <2>found, FindBlocks
    <2>7. Sound(c, index, data)
      BY Zenon, <2>5, NodeUpdate
    <2>8. /\ DOMAIN c.node = DOMAIN d.node /\ c.node[p] = f.n /\ c.inFlight = d.inFlight
          /\ \A q \in DOMAIN d.node : c.node[q] = IF q = p THEN f.n ELSE d.node[q]
      BY <2>2, SetNodeFacts
    <2> HIDE DEF c
    <2>9. c.node[p].nBlocksInFlight + Cardinality(f.blocks) <= MaxInTransit
      <3>1. Cardinality(f.blocks) \in Nat /\ c.node[p].nBlocksInFlight = d.node[p].nBlocksInFlight
        BY Zenon, <2>5, <2>6, <2>8, FS_CardinalityType
      <3>2. QED  BY <2>3, <2>4, <2>6, <3>1, DownloadAssumption
    <2>10. /\ Sound(asked, index, data) /\ DOMAIN asked.node = DOMAIN d.node
           /\ \A q \in DOMAIN d.node \ {p} : asked.node[q] = c.node[q]
      BY <2>6, <2>7, <2>8, <2>9, BatchSound
    <2> HIDE DEF asked
    <2>11. ASSUME f.staller # NULL
           PROVE  Sound([asked EXCEPT !.node[f.staller].stalling = TRUE], index, data)
      <3>1. f.staller \in DOMAIN asked.node /\ asked.node[f.staller].flight # {}
        BY Zenon, <2>6, <2>8, <2>10, <2>11
      <3>2. QED  BY Zenon, <2>10, <3>1, StallSound
    <2>12. QED  BY Zenon, <2>1, <2>10, <2>11
  <1>3. QED  BY Zenon, <1>1, <1>2

\* More headers are known and more blocks are stored, none of which is in flight.
LEMMA SoundGrows ==
    ASSUME NEW ind, NEW dat, NEW d, Sound(d, ind, dat),
           NEW ind2, ind \subseteq ind2, NEW dat2, dat \subseteq dat2,
           DOMAIN d.inFlight \cap dat2 = {}
    PROVE  Sound(d, ind2, dat2)
  <1>1. \A p \in DOMAIN d.node : NodeOK(d.node[p], ind2, dat2)
    <2> TAKE p \in DOMAIN d.node
    <2>1. NodeOK(d.node[p], ind, dat)
      BY Zenon DEF Sound
    <2>2. /\ d.node[p].known \in ind2 \cup {NULL} /\ d.node[p].common \in ind2 \cup {NULL}
          /\ d.node[p].common # NULL => Anc[d.node[p].common] \subseteq dat2
      BY Zenon, <2>1 DEF NodeOK
    <2>3. QED  BY Zenon, <2>1, <2>2 DEF NodeOK
  <1>2. QED  BY Zenon, <1>1 DEF Sound

LEMMA SendMessagesStep ==
    ASSUME IInv, NEW p, NEW late, NEW recent, SendMessages(p, late, recent)
    PROVE  IInv'
  <1> DEFINE a == Punished(dl, p)
             s == StartSync(a, p, recent)
             c == IF late THEN [s EXCEPT !.node[p].disconnect = TRUE] ELSE s
  <1>1. /\ p \in DOMAIN dl.node /\ dl' = GetData(c, p)
        /\ UNCHANGED <<index, data, failed, tip>>
    BY Zenon DEF SendMessages, Sent, Talks, Connected
  <1>2. Sound(dl, index, data)
    BY Zenon DEF IInv
  <1>3. Sound(a, index, data) /\ p \in DOMAIN a.node
    BY Zenon, <1>1, <1>2, PunishedSound
  <1> HIDE DEF a
  <1>4. Sound(s, index, data) /\ p \in DOMAIN s.node
    BY <1>3, StartSyncSound
  <1> HIDE DEF s
  <1>5. Sound(c, index, data) /\ p \in DOMAIN c.node
    BY <1>4, DisconnectSound
  <1> HIDE DEF c
  <1>6. Sound(dl', index, data)
    BY Zenon, <1>1, <1>5, GetDataSound
  <1>7. QED  BY Zenon, <1>1, <1>6 DEF IInv, Complete

LEMMA InitializeNodeStep ==
    ASSUME IInv, NEW p \in Peers, InitializeNode(p)
    PROVE  IInv'
  <1> DEFINE e == dl'
  <1>1. /\ p \notin DOMAIN dl.node /\ UNCHANGED <<index, data, failed, tip>>
        /\ dl' = [dl EXCEPT !.node = [q \in DOMAIN dl.node \cup {p} |->
                                         IF q = p THEN NewNode ELSE dl.node[q]]]
    BY Zenon DEF InitializeNode, Connected
  <1>2. Sound(dl, index, data)
    BY Zenon DEF IInv
  <1>3. /\ DOMAIN e = Fields /\ DOMAIN e.node = DOMAIN dl.node \cup {p}
        /\ \A q \in DOMAIN e.node : e.node[q] = IF q = p THEN NewNode ELSE dl.node[q]
        /\ e.inFlight = dl.inFlight /\ e.nSyncStarted = dl.nSyncStarted
        /\ e.nPreferredDownload = dl.nPreferredDownload
    BY Zenon, <1>1, <1>2 DEF Sound, Fields
  <1> HIDE DEF e
  <1>4. NodeOK(NewNode, index, data)
    <2>1. IsFiniteSet({}) /\ Cardinality({}) = 0 /\ 0 <= MaxInTransit
      BY FS_EmptySet, DownloadAssumption
    <2>2. QED  BY Zenon, <2>1 DEF NodeOK, NewNode
  <1>5. NewNode.flight = {} /\ NewNode.sync = FALSE /\ NewNode.preferred = FALSE
    BY Zenon DEF NewNode
  <1>6. Syncing(e.node) = Syncing(dl.node) /\ Favoured(e.node) = Favoured(dl.node)
    BY Zenon, <1>1, <1>3, <1>5 DEF Syncing, Favoured
  <1>7. Books(e.node, e.inFlight)
    BY <1>1, <1>2, <1>3, <1>5 DEF Sound, Books
  <1>8. \A q \in DOMAIN e.node : NodeOK(e.node[q], index, data)
    BY Zenon, <1>2, <1>3, <1>4 DEF Sound
  <1>9. DOMAIN e.node \subseteq Peers /\ IsFiniteSet(DOMAIN e.node)
    BY <1>2, <1>3, FS_AddElement DEF Sound
  <1>10. Sound(e, index, data)
    BY Zenon, <1>2, <1>3, <1>6, <1>7, <1>8, <1>9 DEF Sound
  <1>11. QED  BY Zenon, <1>1, <1>10 DEF IInv, Complete, e

LEMMA VersionStep ==
    ASSUME IInv, NEW p, Version(p)
    PROVE  IInv'
  <1> DEFINE now == p \in Preferred
             n == [dl.node[p] EXCEPT !.version = TRUE, !.preferred = now]
             e == dl'
  <1>1. /\ p \in DOMAIN dl.node /\ ~dl.node[p].version /\ UNCHANGED <<index, data, failed, tip>>
        /\ dl' = [dl EXCEPT !.node[p].version = TRUE, !.node[p].preferred = now,
                            !.nPreferredDownload = IF now THEN @ + 1 ELSE @]
    BY Zenon DEF Version, Connected
  <1>2. Sound(dl, index, data)
    BY Zenon DEF IInv
  <1>3. /\ DOMAIN e = Fields /\ DOMAIN e.node = DOMAIN dl.node
        /\ \A q \in DOMAIN dl.node : e.node[q] = IF q = p THEN n ELSE dl.node[q]
        /\ e.inFlight = dl.inFlight /\ e.nSyncStarted = dl.nSyncStarted
        /\ e.nPreferredDownload = IF now THEN dl.nPreferredDownload + 1 ELSE dl.nPreferredDownload
    BY Zenon, <1>1, <1>2 DEF Sound, Fields
  <1>4. NodeOK(dl.node[p], index, data) /\ ~dl.node[p].preferred
    BY Zenon, <1>1, <1>2 DEF Sound, NodeOK
  <1>5. /\ n.flight = dl.node[p].flight /\ n.sync = dl.node[p].sync /\ n.version = TRUE
        /\ n.preferred = now
    BY Zenon, <1>4 DEF NodeOK, NewNode
  <1>6. NodeOK(n, index, data)
    BY Zenon, <1>4 DEF NodeOK, NewNode
  <1> HIDE DEF e, n
  <1>7. Syncing(e.node) = Syncing(dl.node)
    BY Zenon, <1>3, <1>5 DEF Syncing
  <1>8. /\ p \notin Favoured(dl.node)
        /\ Favoured(e.node) = IF now THEN Favoured(dl.node) \cup {p} ELSE Favoured(dl.node)
    BY Zenon, <1>1, <1>3, <1>4, <1>5 DEF Favoured
  <1>9. e.nPreferredDownload = Cardinality(Favoured(e.node))
    <2>1. IsFiniteSet(Favoured(dl.node))
      BY Zenon, <1>2, FS_Subset DEF Favoured, Sound
    <2>2. Cardinality(Favoured(dl.node) \cup {p}) = Cardinality(Favoured(dl.node)) + 1
      BY Zenon, <1>8, <2>1, FS_AddElement
    <2>3. QED  BY Zenon, <1>2, <1>3, <1>8, <2>2 DEF Sound
  <1>10. Books(e.node, e.inFlight)
    BY <1>2, <1>3, <1>5 DEF Sound, Books
  <1>11. \A q \in DOMAIN e.node : NodeOK(e.node[q], index, data)
    BY Zenon, <1>2, <1>3, <1>6 DEF Sound
  <1>12. Sound(e, index, data)
    BY Zenon, <1>2, <1>3, <1>7, <1>9, <1>10, <1>11 DEF Sound
  <1>13. QED  BY Zenon, <1>1, <1>12 DEF IInv, Complete, e

LEMMA FinalizeNodeStep ==
    ASSUME IInv, NEW p, FinalizeNode(p)
    PROVE  IInv'
  <1> DEFINE e == dl'
             n == dl.node[p]
  <1>1. /\ p \in DOMAIN dl.node /\ dl' = Finalized(dl, p) /\ UNCHANGED <<index, data, failed, tip>>
    BY Zenon DEF FinalizeNode, Connected
  <1>2. Sound(dl, index, data)
    BY Zenon DEF IInv
  <1>3. /\ DOMAIN e = Fields /\ e.node = [q \in DOMAIN dl.node \ {p} |-> dl.node[q]]
        /\ e.inFlight = [h \in DOMAIN dl.inFlight \ Hashes(n) |-> dl.inFlight[h]]
        /\ e.nSyncStarted = IF n.sync THEN dl.nSyncStarted - 1 ELSE dl.nSyncStarted
        /\ e.nPreferredDownload = IF n.preferred THEN dl.nPreferredDownload - 1
                                  ELSE dl.nPreferredDownload
    <2>1. e = [dl EXCEPT !.node = [q \in DOMAIN dl.node \ {p} |-> dl.node[q]],
                         !.inFlight = [h \in DOMAIN dl.inFlight \ Hashes(n) |-> dl.inFlight[h]],
                         !.nSyncStarted = IF n.sync THEN @ - 1 ELSE @,
                         !.nPreferredDownload = IF n.preferred THEN @ - 1 ELSE @]
      BY Zenon, <1>1 DEF Finalized, Restrict
    <2> HIDE DEF e, n
    <2>2. QED  BY Zenon, <1>2, <2>1 DEF Sound, Fields
  <1> HIDE DEF e, n
  <1>4. DOMAIN e.node = DOMAIN dl.node \ {p} /\ \A q \in DOMAIN e.node : e.node[q] = dl.node[q]
    BY Zenon, <1>3
  <1>5. /\ DOMAIN e.inFlight = DOMAIN dl.inFlight \ Hashes(n)
        /\ \A h \in DOMAIN e.inFlight : e.inFlight[h] = dl.inFlight[h]
    BY Zenon, <1>3
  <1>6. e.nSyncStarted = Cardinality(Syncing(e.node))
    <2>1. IsFiniteSet(Syncing(dl.node)) /\ (p \in Syncing(dl.node) <=> n.sync)
      BY Zenon, <1>1, <1>2, FS_Subset DEF Syncing, Sound, n
    <2>2. Syncing(e.node) = Syncing(dl.node) \ {p}
      BY <1>4 DEF Syncing
    <2>3. Cardinality(Syncing(dl.node) \ {p}) =
             IF n.sync THEN Cardinality(Syncing(dl.node)) - 1 ELSE Cardinality(Syncing(dl.node))
      BY Zenon, <2>1, FS_RemoveElement
    <2>4. QED  BY Zenon, <1>2, <1>3, <2>2, <2>3 DEF Sound
  <1>7. e.nPreferredDownload = Cardinality(Favoured(e.node))
    <2>1. IsFiniteSet(Favoured(dl.node)) /\ (p \in Favoured(dl.node) <=> n.preferred)
      BY Zenon, <1>1, <1>2, FS_Subset DEF Favoured, Sound, n
    <2>2. Favoured(e.node) = Favoured(dl.node) \ {p}
      BY <1>4 DEF Favoured
    <2>3. Cardinality(Favoured(dl.node) \ {p}) =
             IF n.preferred THEN Cardinality(Favoured(dl.node)) - 1
             ELSE Cardinality(Favoured(dl.node))
      BY Zenon, <2>1, FS_RemoveElement
    <2>4. QED  BY Zenon, <1>2, <1>3, <2>2, <2>3 DEF Sound
  <1>8. Books(e.node, e.inFlight)
    <2>1. \A q \in DOMAIN e.node : \A x \in e.node[q].flight :
             x.hash \in DOMAIN e.inFlight /\ e.inFlight[x.hash] = q
      <3> TAKE q \in DOMAIN e.node
      <3> TAKE x \in e.node[q].flight
      <3>1. /\ q \in DOMAIN dl.node /\ q # p /\ x \in dl.node[q].flight
            /\ x.hash \in DOMAIN dl.inFlight /\ dl.inFlight[x.hash] = q
        BY Zenon, <1>2, <1>4 DEF Sound, Books
      <3>2. x.hash \notin Hashes(n)
        <4>1. \A y \in n.flight : dl.inFlight[y.hash] = p
          BY Zenon, <1>1, <1>2 DEF Sound, Books, n
        <4>2. QED  BY Zenon, <3>1, <4>1 DEF Hashes
      <3>3. QED  BY Zenon, <1>5, <3>1, <3>2
    <2>2. \A h \in DOMAIN e.inFlight :
             e.inFlight[h] \in DOMAIN e.node /\ \E x \in e.node[e.inFlight[h]].flight : x.hash = h
      <3> TAKE h \in DOMAIN e.inFlight
      <3>1. h \in DOMAIN dl.inFlight /\ h \notin Hashes(n) /\ e.inFlight[h] = dl.inFlight[h]
        BY Zenon, <1>5
      <3>2. PICK x \in dl.node[dl.inFlight[h]].flight :
               x.hash = h /\ dl.inFlight[h] \in DOMAIN dl.node
        BY Zenon, <1>2, <3>1 DEF Sound, Books
      <3>3. dl.inFlight[h] # p
        BY Zenon, <3>1, <3>2 DEF Hashes, n
      <3>4. QED  BY Zenon, <1>4, <3>1, <3>2, <3>3
    <2>3. QED  BY Zenon, <2>1, <2>2 DEF Books
  <1>9. \A q \in DOMAIN e.node : NodeOK(e.node[q], index, data)
    BY Zenon, <1>2, <1>4 DEF Sound
  <1>10. DOMAIN e.node \subseteq Peers /\ IsFiniteSet(DOMAIN e.node)
    BY <1>2, <1>4, FS_RemoveElement DEF Sound
  <1>11. DOMAIN e.inFlight \cap data = {}
    BY Zenon, <1>2, <1>5 DEF Sound
  <1>12. Sound(e, index, data)
    BY Zenon, <1>3, <1>6, <1>7, <1>8, <1>9, <1>10, <1>11 DEF Sound
  <1>13. QED  BY Zenon, <1>1, <1>12 DEF IInv, Complete, e

LEMMA InvStep ==
    ASSUME IInv, NEW p, NEW b, NEW near, Inv(p, b, near)
    PROVE  IInv'
  <1> DEFINE u == UpdateBlockAvailability(index, dl.node[p], b)
             d == SetNode(dl, p, u)
  <1>1. /\ p \in DOMAIN dl.node /\ UNCHANGED <<index, data, failed, tip>>
        /\ dl' = IF b \notin index \cup DOMAIN dl.inFlight /\ near
                    /\ d.node[p].nBlocksInFlight < MaxInTransit
                 THEN MarkBlockAsInFlight(d, p, b, FALSE) ELSE d
    BY Zenon DEF Inv, Announces, Talks, Connected, SetNode
  <1>2. Sound(dl, index, data) /\ DOMAIN dl = Fields /\ data \subseteq index
    BY Zenon DEF IInv, Sound
  <1>3. Sound(d, index, data)
    BY Zenon, <1>1, <1>2, UpdateSound
  <1> HIDE DEF u
  <1>4. DOMAIN d.node = DOMAIN dl.node /\ d.inFlight = dl.inFlight
    BY <1>1, <1>2, SetNodeFacts
  <1> HIDE DEF d
  <1>5. ASSUME b \notin index \cup DOMAIN dl.inFlight, d.node[p].nBlocksInFlight < MaxInTransit
        PROVE  Sound(MarkBlockAsInFlight(d, p, b, FALSE), index, data)
    <2>1. p \in DOMAIN d.node /\ b \notin DOMAIN d.inFlight /\ b \notin data
      BY Zenon, <1>1, <1>2, <1>4, <1>5
    <2>2. QED  BY Zenon, <1>3, <1>5, <2>1, InFlightSound
  <1>6. Sound(dl', index, data)
    BY Zenon, <1>1, <1>3, <1>5
  <1>7. QED  BY Zenon, <1>1, <1>6 DEF IInv, Complete

LEMMA HeadersStep ==
    ASSUME IInv, NEW p, NEW b \in Blocks, NEW ban, Headers(p, b, ban)
    PROVE  IInv'
  <1>1. /\ p \in DOMAIN dl.node /\ UNCHANGED <<data, failed, tip>>
        /\ \E taken \in SUBSET Anc[b] : index' = index \cup taken
        /\ \/ dl' = SetNode(dl, p, UpdateBlockAvailability(index', dl.node[p], b))
           \/ dl' = Misbehaving(dl, p, ban)
    BY Zenon DEF Headers, Announces, Talks, Connected, SetNode
  <1>2. Anc[b] \subseteq Blocks
    BY Zenon, TreeAssumption
  <1>3. /\ Genesis \in data /\ data \cup failed \subseteq index /\ index \subseteq Blocks
        /\ tip \in data /\ Complete(tip) /\ Sound(dl, index, data)
    BY Zenon DEF IInv
  <1>4. index \subseteq index' /\ index' \subseteq Blocks
    BY Zenon, <1>1, <1>2, <1>3
  <1>5. Sound(dl, index', data)
    <2>1. DOMAIN dl.inFlight \cap data = {}
      BY Zenon, <1>3 DEF Sound
    <2>2. QED  BY Zenon, <1>3, <1>4, <2>1, SoundGrows
  <1>6. Sound(dl', index', data)
    <2>1. Sound(Misbehaving(dl, p, ban), index', data)
      BY Zenon, <1>1, <1>5, MisbehavingSound
    <2>2. Sound(SetNode(dl, p, UpdateBlockAvailability(index', dl.node[p], b)), index', data)
      BY Zenon, <1>1, <1>5, UpdateSound
    <2>3. QED  BY Zenon, <1>1, <2>1, <2>2
  <1>7. data' = data /\ failed' = failed /\ tip' = tip
    BY Zenon, <1>1
  <1>8. data' \cup failed' \subseteq index'
    BY Zenon, <1>3, <1>4, <1>7
  <1>9. QED  BY Zenon, <1>3, <1>4, <1>6, <1>7, <1>8 DEF IInv, Complete

LEMMA AcceptBlockStep ==
    ASSUME IInv, NEW p, NEW b \in Blocks, AcceptBlock(p, b)
    PROVE  IInv'
  <1> DEFINE full == {c \in data' : Anc[c] \subseteq data'}
  <1>1. /\ index' = index \cup {b} /\ data' = data \cup {b} /\ failed' = failed
        /\ dl' = MarkBlockAsReceived(dl, b)
        /\ tip' = tip \/ tip' \in full
    BY Zenon DEF AcceptBlock, ActivateBestChain
  <1>2. /\ Genesis \in data /\ data \cup failed \subseteq index /\ index \subseteq Blocks
        /\ tip \in data /\ Anc[tip] \subseteq data /\ Sound(dl, index, data)
    BY Zenon DEF IInv, Complete
  <1>3. /\ Genesis \in data' /\ data' \cup failed' \subseteq index' /\ index' \subseteq Blocks
        /\ tip' \in data' /\ Anc[tip'] \subseteq data'
    BY Zenon, <1>1, <1>2
  <1>4. Sound(dl', index, data) /\ b \notin DOMAIN dl'.inFlight
    BY Zenon, <1>1, <1>2, ReceivedSound
  <1>5. Sound(dl', index', data')
    <2>1. DOMAIN dl'.inFlight \cap data = {}
      BY Zenon, <1>4 DEF Sound
    <2>2. DOMAIN dl'.inFlight \cap data' = {} /\ index \subseteq index' /\ data \subseteq data'
      BY Zenon, <1>1, <1>4, <2>1
    <2>3. QED  BY Zenon, <1>4, <2>2, SoundGrows
  <1>6. QED  BY Zenon, <1>3, <1>5 DEF IInv, Complete

LEMMA RefuseBlockStep ==
    ASSUME IInv, NEW p, NEW b \in Blocks, NEW damaged, NEW ban, RefuseBlock(p, b, damaged, ban)
    PROVE  IInv'
  <1> DEFINE d == MarkBlockAsReceived(dl, b)
  <1>1. /\ p \in DOMAIN dl.node /\ data' = data /\ tip' = tip /\ dl' = Misbehaving(d, p, ban)
        /\ \/ index' = index \cup {b} /\ failed' = failed \cup {b}
           \/ index' = index /\ failed' = failed
    BY Zenon DEF RefuseBlock, Talks, Connected
  <1>2. /\ Genesis \in data /\ data \cup failed \subseteq index /\ index \subseteq Blocks
        /\ tip \in data /\ Complete(tip) /\ Sound(dl, index, data)
    BY Zenon DEF IInv
  <1>3. data' \cup failed' \subseteq index' /\ index' \subseteq Blocks /\ index \subseteq index'
    BY Zenon, <1>1, <1>2
  <1>4. Sound(d, index, data) /\ p \in DOMAIN d.node
    BY <1>1, <1>2, ReceivedSound
  <1> HIDE DEF d
  <1>5. Sound(dl', index, data)
    BY Zenon, <1>1, <1>4, MisbehavingSound
  <1>6. Sound(dl', index', data')
    <2>1. DOMAIN dl'.inFlight \cap data = {}
      BY Zenon, <1>5 DEF Sound
    <2>2. Sound(dl', index', data)
      BY Zenon, <1>3, <1>5, <2>1, SoundGrows
    <2>3. QED  BY Zenon, <1>1, <2>2
  <1>7. QED  BY Zenon, <1>1, <1>2, <1>3, <1>6 DEF IInv, Complete

LEMMA StepInv == IInv /\ [Next]_vars => IInv'
  <1> SUFFICES ASSUME IInv, [Next]_vars PROVE IInv'
    OBVIOUS
  <1>1. CASE UNCHANGED vars
    BY Zenon, <1>1 DEF vars, IInv, Complete
  <1>2. CASE Next
    <2>1. PICK p \in Peers : Connection(p) \/ (\E b \in Blocks \ {Genesis} : Message(p, b)) \/ Scheduled(p)
      BY Zenon, <1>2 DEF Next
    <2>2. CASE Connection(p)
      BY Zenon, <2>2, InitializeNodeStep, VersionStep, FinalizeNodeStep DEF Connection
    <2>3. CASE \E b \in Blocks \ {Genesis} : Message(p, b)
      <3>1. PICK b \in Blocks : Message(p, b)
        BY Zenon, <2>3
      <3>2. QED  BY Zenon, <3>1, InvStep, HeadersStep, AcceptBlockStep, RefuseBlockStep DEF Message
    <2>4. CASE Scheduled(p)
      BY Zenon, <2>4, SendMessagesStep DEF Scheduled
    <2>5. QED  BY Zenon, <2>1, <2>2, <2>3, <2>4
  <1>3. QED  BY Zenon, <1>1, <1>2

LEMMA InitInv == Init => IInv
  <1> SUFFICES ASSUME Init PROVE IInv
    OBVIOUS
  <1>1. IsFiniteSet({}) /\ Cardinality({}) = 0
    BY Zenon, FS_EmptySet
  <1>2. /\ DOMAIN dl = Fields /\ DOMAIN dl.node = {} /\ DOMAIN dl.inFlight = {}
        /\ dl.nSyncStarted = 0 /\ dl.nPreferredDownload = 0
    BY Zenon DEF Init, Fields
  <1>3. Syncing(dl.node) = {} /\ Favoured(dl.node) = {}
    BY Zenon, <1>2 DEF Syncing, Favoured
  <1>4. Sound(dl, index, data)
    BY Zenon, <1>1, <1>2, <1>3 DEF Sound, Books
  <1>5. Complete(tip)
    <2>1. Anc[Genesis] = {Genesis}
      <3>1. Genesis \in Blocks
        BY Zenon, DownloadAssumption
      <3>2. \A c \in Anc[Genesis] : c = Genesis
        BY Zenon, <3>1, TreeAssumption
      <3>3. Genesis \in Anc[Genesis]
        BY Zenon, <3>1, TreeAssumption
      <3>4. QED  BY Zenon, <3>2, <3>3
    <2>2. QED  BY Zenon, <2>1 DEF Init, Complete
  <1>6. QED  BY Zenon, <1>4, <1>5, DownloadAssumption DEF Init, IInv

-------------------------------------------------------------------------------
(* Theorems *)

\* The strengthened invariant holds throughout: the lists of all nodes and mapBlocksInFlight
\* are inverse to each other after every handler of main.cpp that the model has.
THEOREM InductiveInvariant == Spec => []IInv
  BY InitInv, StepInv, PTL DEF Spec

\* The blocks that a CNodeState points to are in mapBlockIndex, and the tip is stored.
THEOREM TypeCorrect == Spec => []TypeOK
  <1>1. IInv => TypeOK
    BY DEF IInv, Sound, NodeOK, TypeOK, Connected
  <1>2. QED  BY <1>1, InductiveInvariant, PTL

\* A block in flight is in the list of exactly one node, once, and the node is connected
\* (MarkBlockAsInFlight, MarkBlockAsReceived, FinalizeNode).
THEOREM BooksAgree == Spec => []InFlightExact
  <1>1. IInv => InFlightExact
    <2> SUFFICES ASSUME IInv PROVE InFlightExact
      OBVIOUS
    <2>1. Books(dl.node, dl.inFlight) /\ \A p \in Connected : NodeOK(dl.node[p], index, data)
      BY Zenon DEF IInv, Sound, Connected
    <2>2. DOMAIN dl.inFlight = UNION {Flight(p) : p \in Connected}
      <3>1. ASSUME NEW h \in DOMAIN dl.inFlight PROVE \E p \in Connected : h \in Flight(p)
        <4>1. PICK x \in dl.node[dl.inFlight[h]].flight :
                 x.hash = h /\ dl.inFlight[h] \in DOMAIN dl.node
          BY Zenon, <2>1 DEF Books
        <4>2. QED  BY Zenon, <4>1 DEF Flight, Hashes, Connected
      <3>2. ASSUME NEW p \in Connected, NEW h \in Flight(p) PROVE h \in DOMAIN dl.inFlight
        BY <2>1 DEF Books, Flight, Hashes, Connected
      <3>3. QED  BY Zenon, <3>1, <3>2
    <2>3. ASSUME NEW p \in Connected
          PROVE  /\ dl.node[p].nBlocksInFlight = Cardinality(dl.node[p].flight)
                 /\ Cardinality(Flight(p)) = Cardinality(dl.node[p].flight)
                 /\ \A b \in Flight(p) : dl.inFlight[b] = p
      <3> DEFINE F == dl.node[p].flight
                 g == [e \in F |-> e.hash]
      <3>1. /\ IsFiniteSet(F) /\ dl.node[p].nBlocksInFlight = Cardinality(F)
            /\ \A e, f \in F : e.hash = f.hash => e = f
        BY Zenon, <2>1 DEF NodeOK
      <3>2. \A b \in Flight(p) : dl.inFlight[b] = p
        BY <2>1 DEF Books, Flight, Hashes, Connected
      <3>3. Flight(p) = {e.hash : e \in F}
        BY Zenon DEF Flight, Hashes
      <3> HIDE DEF F
      <3>4. g \in Bijection(F, Flight(p))
        <4>1. g \in [F -> Flight(p)] /\ \A e, f \in F : g[e] = g[f] => e = f
          BY Zenon, <3>1, <3>3
        <4>2. \A b \in Flight(p) : \E e \in F : g[e] = b
          BY Zenon, <3>3
        <4> HIDE DEF g
        <4>3. QED  BY Zenon, <4>1, <4>2 DEF Bijection, Injection, Surjection, IsInjective
      <3> HIDE DEF g
      <3>5. Cardinality(Flight(p)) = Cardinality(F)
        BY Zenon, <3>1, <3>4, FS_Bijection DEF ExistsBijection
      <3>6. QED  BY Zenon, <3>1, <3>2, <3>5 DEF F
    <2>4. QED  BY Zenon, <2>2, <2>3 DEF InFlightExact
  <1>2. QED  BY <1>1, InductiveInvariant, PTL

\* nSyncStarted and nPreferredDownload count the connected nodes they are about, whatever
\* order peers come, announce, time out and go in.
THEOREM CountersAgree == Spec => []CountersExact
  <1>1. IInv => CountersExact
    BY Zenon DEF IInv, Sound, Syncing, Favoured, Connected, CountersExact
  <1>2. QED  BY <1>1, InductiveInvariant, PTL

\* No peer has more than MAX_BLOCKS_IN_TRANSIT_PER_PEER blocks in flight, and no stored block
\* is in flight ("inv" and SendMessages).
THEOREM RequestsBounded == Spec => []TransitBounded
  <1>1. IInv => TransitBounded
    BY Zenon DEF IInv, Sound, NodeOK, Connected, TransitBounded
  <1>2. QED  BY <1>1, InductiveInvariant, PTL

\* Only a peer with a block in flight is timed for stalling (SendMessages, main.cpp:4563).
THEOREM StallersOweBlocks == Spec => []StallerOwes
  <1>1. IInv => StallerOwes
    BY Zenon DEF IInv, Sound, NodeOK, Connected, StallerOwes
  <1>2. QED  BY <1>1, InductiveInvariant, PTL

\* Everything up to pindexLastCommonBlock is stored, for every tree of blocks and every order
\* of arrival (FindNextBlocksToDownload).
THEOREM CommonIsComplete == Spec => []CommonComplete
  <1>1. IInv => CommonComplete
    BY Zenon DEF IInv, Sound, NodeOK, Connected, CommonComplete, Complete
  <1>2. QED  BY <1>1, InductiveInvariant, PTL
===============================================================================
