----------------------------- MODULE BlockDownload -----------------------------
(***************************************************************************)
(* Which blocks to ask which peer for (main.cpp): CNodeState, the blocks in    *)
(* flight, the messages "inv", "headers" and "block", and SendMessages.  A      *)
(* handler holds cs_main for what it does here and is one action; for "block"  *)
(* that takes in the activation and the score, which follow under locks of     *)
(* their own.  The peers, their answers and their silence interleave.          *)
(*                                                                         *)
(* The tree of blocks is the one of ChainState, of which this module uses the  *)
(* promises: a block is complete when all its ancestors have data              *)
(* (ChainTxExact), and the tip has the most work of the complete ones          *)
(* (BestChainActive).  Work is height.                                        *)
(***************************************************************************)
EXTENDS Integers, FiniteSets, FiniteSetsExt, Functions

CONSTANTS Blocks, Genesis, NULL,
          Anc,         \* Anc[b]: b and its ancestors
          BadBody,     \* blocks that fail ContextualCheckBlock
          Peers,
          Preferred,   \* outbound peers
          Reliable,    \* peers that answer every request in time and announce good chains
          MaxInTransit,   \* MAX_BLOCKS_IN_TRANSIT_PER_PEER
          Window,         \* BLOCK_DOWNLOAD_WINDOW
          MaxConnects     \* bound on the connections that are opened

ASSUME DownloadAssumption ==
    /\ Genesis \in Blocks /\ NULL \notin Blocks
    /\ MaxInTransit \in Nat \ {0} /\ Window \in Nat \ {0} /\ MaxConnects \in Nat
    /\ Preferred \subseteq Peers /\ Reliable \subseteq Preferred

\* The blocks are a tree: the ancestors of a block are a finite chain from the genesis block.
ASSUME TreeAssumption ==
    \A b \in Blocks :
       /\ Genesis \in Anc[b] /\ b \in Anc[b]
       /\ Anc[b] \subseteq Blocks /\ IsFiniteSet(Anc[b])
       /\ \A c \in Anc[b] : Anc[c] \subseteq Anc[b] /\ (b \in Anc[c] => c = b)
       /\ \A c, x \in Anc[b] : c \in Anc[x] \/ x \in Anc[c]

VARIABLES index,    \* mapBlockIndex
          data,     \* blocks with BLOCK_HAVE_DATA
          failed,   \* blocks with BLOCK_FAILED_VALID
          tip,      \* chainActive.Tip()
          dl,       \* mapNodeState, mapBlocksInFlight, and the three counters
          opened    \* connections so far

vars == <<index, data, failed, tip, dl, opened>>

Height(b) == Cardinality(Anc[b]) - 1
Complete(b) == Anc[b] \subseteq data

\* The block of the chain to b at height h.
GetAncestor(b, h) == CHOOSE c \in Anc[b] : Height(c) = h

\* vBlocksInFlight is a set: the order of the list only matters for when the first is late.
NewNode ==
    [version |-> FALSE, known |-> NULL, unknown |-> NULL, common |-> NULL, sync |-> FALSE,
     preferred |-> FALSE, stalling |-> FALSE, shouldBan |-> FALSE, disconnect |-> FALSE,
     flight |-> {}, nBlocksInFlight |-> 0]

Init ==
    /\ index = {Genesis} /\ data = {Genesis} /\ failed = {} /\ tip = Genesis
    /\ dl = [node |-> [p \in {} |-> NewNode], inFlight |-> [b \in {} |-> NULL],
             nQueuedValidatedHeaders |-> 0, nSyncStarted |-> 0, nPreferredDownload |-> 0]
    /\ opened = 0

Connected == DOMAIN dl.node
Hashes(n) == {e.hash : e \in n.flight}
Flight(p) == Hashes(dl.node[p])

\* A peer whose messages are processed.
Talks(p) == p \in Connected /\ dl.node[p].version /\ ~dl.node[p].disconnect

-------------------------------------------------------------------------------
(* Blocks in flight.  These operators map the state dl to the one after the call. *)

Queued(h, validated) == [hash |-> h, validated |-> validated]

\* The entry of h, to which mapBlocksInFlight has an iterator.
EntryOf(d, h) == CHOOSE e \in d.node[d.inFlight[h]].flight : e.hash = h

MarkBlockAsReceived(d, h) ==
    IF h \notin DOMAIN d.inFlight THEN d
    ELSE LET p == d.inFlight[h]
             entry == EntryOf(d, h)
         IN  [d EXCEPT !.inFlight = Restrict(@, DOMAIN @ \ {h}),
                       !.nQueuedValidatedHeaders = IF entry.validated THEN @ - 1 ELSE @,
                       !.node[p].flight = @ \ {entry},
                       !.node[p].nBlocksInFlight = @ - 1,
                       !.node[p].stalling = FALSE]

MarkBlockAsInFlight(d, p, h, validated) ==
    LET r == MarkBlockAsReceived(d, h)
    IN  [r EXCEPT !.inFlight = [b \in DOMAIN @ \cup {h} |-> IF b = h THEN p ELSE @[b]],
                  !.nQueuedValidatedHeaders = IF validated THEN @ + 1 ELSE @,
                  !.node[p].flight = @ \cup {Queued(h, validated)},
                  !.node[p].nBlocksInFlight = @ + 1]

\* MarkBlockAsInFlight for several blocks with their headers.  None of them is in flight, so
\* that MarkBlockAsReceived leaves the state alone, and the order does not matter.
MarkBlocksAsInFlight(d, p, blocks) ==
    [d EXCEPT !.inFlight = [b \in DOMAIN @ \cup blocks |-> IF b \in blocks THEN p ELSE @[b]],
              !.nQueuedValidatedHeaders = @ + Cardinality(blocks),
              !.node[p].flight = @ \cup {Queued(b, TRUE) : b \in blocks},
              !.node[p].nBlocksInFlight = @ + Cardinality(blocks)]

-------------------------------------------------------------------------------
(* What a peer is known to have *)

Better(b, known) == known = NULL \/ Height(b) >= Height(known)

\* ind: the index at the time of the call.
ProcessBlockAvailability(ind, n) ==
    IF n.unknown = NULL \/ n.unknown \notin ind THEN n
    ELSE [n EXCEPT !.known = IF Better(n.unknown, @) THEN n.unknown ELSE @, !.unknown = NULL]

UpdateBlockAvailability(ind, n, b) ==
    LET m == ProcessBlockAvailability(ind, n)
    IN  IF b \in ind THEN [m EXCEPT !.known = IF Better(b, @) THEN b ELSE @]
        ELSE [m EXCEPT !.unknown = b]

LastCommonAncestor(a, b) == CHOOSE c \in Anc[a] \cap Anc[b] : Anc[a] \cap Anc[b] \subseteq Anc[c]

-------------------------------------------------------------------------------
(* FindNextBlocksToDownload *)

\* fault: any block that is stored counts as common.
CommonStored(start, walk) ==
    CHOOSE b \in {start} \cup (walk \cap data) :
        \A c \in {start} \cup (walk \cap data) : Height(c) <= Height(b)

\* pindexLastCommonBlock moves along the walk to the last block with nChainTx.
CommonAfter(start, walk) ==
    LET full == {start} \cup {b \in walk : Complete(b)}
    IN  CHOOSE b \in full : \A c \in full : Height(c) <= Height(b)

\* The first count blocks of a part of a chain.
Lowest(S, count) == {b \in S : Cardinality({c \in S : Height(c) < Height(b)}) < count}

\* The next blocks to ask p for, at most count; n: the state of p after the call; staller:
\* the peer that keeps the window from moving.  The walk ends at a failed block.
FindNextBlocksToDownload(d, p, count) ==
    LET n == ProcessBlockAvailability(index, d.node[p])
        guess == IF n.common # NULL THEN n.common
                 ELSE GetAncestor(tip, Min({Height(n.known), Height(tip)}))
        start == LastCommonAncestor(guess, n.known)
        nWindowEnd == Height(start) + Window
        range == {b \in Anc[n.known] : Height(b) \in Height(start) + 1 .. nWindowEnd + 1}
        walk == {b \in range : \A x \in range \cap failed : Height(b) < Height(x)}
        missing == walk \ (data \cup DOMAIN d.inFlight)
        awaited == (walk \ data) \cap DOMAIN d.inFlight
        first == CHOOSE b \in awaited : \A c \in awaited : Height(b) <= Height(c)
        near == {b \in missing : Height(b) <= nWindowEnd}
    IN  IF n.known = NULL THEN [n |-> n, blocks |-> {}, staller |-> NULL]
        ELSE IF Height(n.known) < Height(tip) THEN [n |-> n, blocks |-> {}, staller |-> NULL]
        ELSE [n |-> [n EXCEPT !.common = CommonAfter(start, walk)],
              blocks |-> Lowest(near, count),
              staller |-> IF near = {} /\ missing # {} /\ awaited # {}
                          THEN IF d.inFlight[first] # p THEN d.inFlight[first] ELSE NULL
                          ELSE NULL]

-------------------------------------------------------------------------------
(* SendMessages *)

Room(n) == MaxInTransit - n.nBlocksInFlight

Punished(d, p) ==
    IF d.node[p].shouldBan
    THEN [d EXCEPT !.node[p].disconnect = TRUE, !.node[p].shouldBan = FALSE] ELSE d

fFetch(d, p) == d.node[p].preferred \/ d.nPreferredDownload = 0

\* recent: pindexBestHeader is less than a day old.
StartSync(d, p, recent) ==
    IF ~d.node[p].sync /\ fFetch(d, p) /\ (d.nSyncStarted = 0 \/ recent)
    THEN [d EXCEPT !.node[p].sync = TRUE, !.nSyncStarted = @ + 1] ELSE d

\* fault: a block that does not come is waited for without an end.
OnlyStalling(n) == n.stalling

\* late: the time for the peer that stalls, or for its first block in flight, is over.
Overdue(n) == n.stalling \/ n.flight # {}

GetData(d, p) ==
    IF d.node[p].disconnect \/ ~fFetch(d, p) \/ Room(d.node[p]) <= 0 THEN d
    ELSE LET f == FindNextBlocksToDownload(d, p, Room(d.node[p]))
             asked == MarkBlocksAsInFlight([d EXCEPT !.node[p] = f.n], p, f.blocks)
         IN  IF asked.node[p].nBlocksInFlight = 0 /\ f.staller # NULL
             THEN [asked EXCEPT !.node[f.staller].stalling = TRUE] ELSE asked

\* dl after SendMessages.
Sent(p, late, recent) ==
    LET s == StartSync(Punished(dl, p), p, recent)
    IN  GetData(IF late THEN [s EXCEPT !.node[p].disconnect = TRUE] ELSE s, p)

SendMessages(p, late, recent) ==
    /\ Talks(p)
    /\ late => Overdue(dl.node[p])
    /\ dl' = Sent(p, late, recent)
    /\ UNCHANGED <<index, data, failed, tip, opened>>

-------------------------------------------------------------------------------
(* Connections *)

InitializeNode(p) ==
    /\ p \notin Connected
    /\ opened < MaxConnects
    /\ opened' = opened + 1
    /\ dl' = [dl EXCEPT !.node = [q \in Connected \cup {p} |-> IF q = p THEN NewNode ELSE dl.node[q]]]
    /\ UNCHANGED <<index, data, failed, tip>>

\* The "version" message, with UpdatePreferredDownload.
Version(p) ==
    /\ p \in Connected
    /\ ~dl.node[p].version
    /\ LET now == p \in Preferred
       IN  dl' = [dl EXCEPT !.node[p].version = TRUE, !.node[p].preferred = now,
                            !.nPreferredDownload = IF now THEN @ + 1 ELSE @]
    /\ UNCHANGED <<index, data, failed, tip, opened>>

\* fault: the blocks that the peer was asked for stay in mapBlocksInFlight.
FinalizeOnlyNode(d, p) ==
    [d EXCEPT !.node = Restrict(@, DOMAIN @ \ {p}),
              !.nSyncStarted = IF d.node[p].sync THEN @ - 1 ELSE @,
              !.nPreferredDownload = IF d.node[p].preferred THEN @ - 1 ELSE @]

\* fault: a preferred peer that goes is still counted.
FinalizeUncounted(d, p) ==
    [d EXCEPT !.node = Restrict(@, DOMAIN @ \ {p}),
              !.inFlight = Restrict(@, DOMAIN @ \ Hashes(d.node[p])),
              !.nSyncStarted = IF d.node[p].sync THEN @ - 1 ELSE @]

\* What FinalizeNode does; nQueuedValidatedHeaders is left as it is.
Finalized(d, p) ==
    [d EXCEPT !.node = Restrict(@, DOMAIN @ \ {p}),
              !.inFlight = Restrict(@, DOMAIN @ \ Hashes(d.node[p])),
              !.nSyncStarted = IF d.node[p].sync THEN @ - 1 ELSE @,
              !.nPreferredDownload = IF d.node[p].preferred THEN @ - 1 ELSE @]

\* After fDisconnect was set, or the peer closed the connection.
FinalizeNode(p) ==
    /\ p \in Connected
    /\ dl.node[p].disconnect \/ p \notin Reliable
    /\ dl' = Finalized(dl, p)
    /\ UNCHANGED <<index, data, failed, tip, opened>>

-------------------------------------------------------------------------------
(* Messages about blocks *)

Misbehaving(d, p, ban) == IF ban THEN [d EXCEPT !.node[p].shouldBan = TRUE] ELSE d

\* A chain that p may announce.
Announces(p, b) == Talks(p) /\ (p \in Reliable => Anc[b] \cap BadBody = {})

\* near: the tip is recent, so that the block is asked for before its header comes.
Inv(p, b, near) ==
    /\ Announces(p, b)
    /\ LET d == [dl EXCEPT !.node[p] = UpdateBlockAvailability(index, @, b)]
       IN  dl' = IF /\ b \notin index \cup DOMAIN dl.inFlight
                    /\ near /\ d.node[p].nBlocksInFlight < MaxInTransit
                 THEN MarkBlockAsInFlight(d, p, b, FALSE) ELSE d
    /\ UNCHANGED <<index, data, failed, tip, opened>>

\* AcceptBlockHeader fails for c: its predecessor is marked and it is new, or it is marked.
OnFailed(c) == c \notin index /\ \E x \in failed : Anc[x] = Anc[c] \ {c}
HeaderFails(c) == OnFailed(c) \/ c \in failed

\* A sequence of headers that has all the unknown ones of the chain to b; they are taken up
\* to the first that fails.  ban: that one has a marked predecessor.
Headers(p, b, ban) ==
    /\ Announces(p, b)
    /\ ban => \E c \in Anc[b] : OnFailed(c)
    /\ LET fails == {c \in Anc[b] : HeaderFails(c)}
           taken == {c \in Anc[b] : fails \cap Anc[c] = {}}
       IN  /\ index' = index \cup taken
           /\ dl' = IF fails = {} THEN [dl EXCEPT !.node[p] = UpdateBlockAvailability(index', @, b)]
                    ELSE Misbehaving(dl, p, ban)
    /\ UNCHANGED <<data, failed, tip, opened>>

\* A complete chain with more work than the tip has, if there is one, wins.
ActivateBestChain ==
    LET full == {c \in data' : Anc[c] \subseteq data'}
    IN  IF \A c \in full : Height(c) <= Height(tip) THEN tip' = tip
        ELSE tip' \in {c \in full : \A b \in full : Height(b) <= Height(c)}

\* The parent is known and not marked, so that the header is accepted.
ParentOK(b) == ~HeaderFails(b) /\ Anc[b] \ {b} \subseteq index

\* A block with a body that fits its header.
AcceptBlock(p, b) ==
    /\ Talks(p)
    /\ ParentOK(b) /\ b \notin BadBody
    /\ index' = index \cup {b}
    /\ data' = data \cup {b}
    /\ ActivateBestChain
    /\ dl' = MarkBlockAsReceived(dl, b)
    /\ UNCHANGED <<failed, opened>>

\* A block that is refused: CheckBlock finds it damaged, its predecessor is unknown or
\* marked, or it fails ContextualCheckBlock and is marked.  ban: the score is reached.
RefuseBlock(p, b, damaged, ban) ==
    /\ Talks(p) /\ p \notin Reliable
    /\ damaged \/ ~ParentOK(b) \/ b \in BadBody
    /\ damaged => ban
    /\ ban => damaged \/ b \notin failed
    /\ index' = IF ~damaged /\ ParentOK(b) THEN index \cup {b} ELSE index
    /\ failed' = IF ~damaged /\ ParentOK(b) THEN failed \cup {b} ELSE failed
    /\ dl' = Misbehaving(MarkBlockAsReceived(dl, b), p, ban)
    /\ UNCHANGED <<data, tip, opened>>

-------------------------------------------------------------------------------
Connection(p) == InitializeNode(p) \/ Version(p) \/ FinalizeNode(p)

Message(p, b) ==
    \/ \E flag \in BOOLEAN : Inv(p, b, flag) \/ Headers(p, b, flag)
    \/ AcceptBlock(p, b)
    \/ \E damaged, ban \in BOOLEAN : RefuseBlock(p, b, damaged, ban)

\* A reliable peer is never late.
Scheduled(p) == \E late, recent \in BOOLEAN : (late => p \notin Reliable) /\ SendMessages(p, late, recent)

Next ==
    \E p \in Peers : \/ Connection(p)
                    \/ \E b \in Blocks \ {Genesis} : Message(p, b)
                    \/ Scheduled(p)

Spec == Init /\ [][Next]_vars

\* A call of SendMessages has something to do.
CallDue(p) == Talks(p) /\ \E recent \in BOOLEAN : Sent(p, FALSE, recent) # dl
Call(p) == \E recent \in BOOLEAN : SendMessages(p, FALSE, recent)

\* Time passes for a peer that does not answer, and its node is deleted after that.
TimeOutDue(p) ==
    p \in Connected /\ (dl.node[p].disconnect \/ (dl.node[p].version /\ Overdue(dl.node[p])))
TimeOut(p) ==
    \/ \E recent \in BOOLEAN : SendMessages(p, TRUE, recent)
    \/ p \in Connected /\ dl.node[p].disconnect /\ FinalizeNode(p)

\* A reliable peer answers "getheaders" and "getdata".
AnswerDue(p) == Talks(p) /\ (dl.node[p].unknown # NULL \/ \E b \in Flight(p) : ParentOK(b))
Answer(p) ==
    /\ p \in Connected
    /\ \E b \in Blocks : \/ dl.node[p].unknown = b /\ Headers(p, b, FALSE)
                         \/ b \in Flight(p) /\ AcceptBlock(p, b)

\* Weak fairness, with ENABLED written out: ThreadMessageHandler calls SendMessages for every
\* peer again and again, clocks go on and ThreadSocketHandler deletes nodes with
\* fDisconnect, and reliable peers answer.
Fairness ==
    /\ \A p \in Peers : []<>(~CallDue(p)) \/ []<><<Call(p)>>_vars
    /\ \A p \in Peers \ Reliable : []<>(~TimeOutDue(p)) \/ []<><<TimeOut(p)>>_vars
    /\ \A p \in Reliable : []<>(~AnswerDue(p)) \/ []<><<Answer(p)>>_vars

FairSpec == Spec /\ Fairness

-------------------------------------------------------------------------------
(* Properties *)

TypeOK ==
    /\ Genesis \in data /\ data \cup failed \subseteq index /\ index \subseteq Blocks
    /\ tip \in data
    /\ Connected \subseteq Peers
    /\ \A p \in Connected : {dl.node[p].known, dl.node[p].common} \subseteq index \cup {NULL}

\* mapBlocksInFlight and the lists of the nodes agree: each block in flight is in the list
\* of exactly one node, once, and that node is still connected, so that
\* MarkBlockAsReceived, and SendMessages for a staller, find its state;
\* nBlocksInFlight is the length of the list.
InFlightExact ==
    /\ DOMAIN dl.inFlight = UNION {Flight(p) : p \in Connected}
    /\ \A p \in Connected :
         /\ dl.node[p].nBlocksInFlight = Cardinality(dl.node[p].flight)
         /\ Cardinality(Flight(p)) = Cardinality(dl.node[p].flight)
         /\ \A b \in Flight(p) : dl.inFlight[b] = p

\* "Number of nodes with fSyncStarted" and "Number of preferable block download peers": a
\* count that is too high would keep the node from ever asking another peer.
CountersExact ==
    /\ dl.nSyncStarted = Cardinality({p \in Connected : dl.node[p].sync})
    /\ dl.nPreferredDownload = Cardinality({p \in Connected : dl.node[p].preferred})

\* "Number of blocks in flight with validated headers".
QueuedExact ==
    dl.nQueuedValidatedHeaders =
        Cardinality({b \in DOMAIN dl.inFlight : EntryOf(dl, b).validated})

\* No peer is asked for more than MAX_BLOCKS_IN_TRANSIT_PER_PEER blocks at a time, on the
\* two ways that lead to a request, and never for a block that is stored.
TransitBounded ==
    /\ \A p \in Connected : dl.node[p].nBlocksInFlight <= MaxInTransit
    /\ DOMAIN dl.inFlight \cap data = {}

\* A peer is only timed as a staller while it has a block that was asked for.
StallerOwes == \A p \in Connected : dl.node[p].stalling => dl.node[p].flight # {}

\* "The last full block we both have": everything up to pindexLastCommonBlock is stored,
\* so that the search for missing blocks, which starts after it, overlooks none.
CommonComplete == \A p \in Connected : dl.node[p].common # NULL => Complete(dl.node[p].common)

\* Again and again the active chain has at least as much work as what the connected reliable
\* peers are known to have, although other peers stall, send damaged blocks, or are asked for
\* the blocks and go away.
SyncCompletes ==
    []<>(\A p \in Reliable \cap Connected :
            dl.node[p].known # NULL => Height(tip) >= Height(dl.node[p].known))
===============================================================================
