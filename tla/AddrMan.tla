------------------------------ MODULE AddrMan ------------------------------
(***************************************************************************)
(* The address manager (src/src/addrman.h, src/src/addrman.cpp): the table *)
(* of peer addresses a node knows, kept as "new" buckets (addresses heard  *)
(* of, each in up to four buckets) and "tried" buckets (addresses that     *)
(* answered), with a map by host, a shuffled list of all entries, and      *)
(* counters.  It is written to peers.dat and read back at the next start.  *)
(*                                                                         *)
(* One variable holds the CAddrMan object: every public method holds its   *)
(* lock cs from beginning to end, so a method is one step.                 *)
(*                                                                         *)
(* The random choices (which bucket a search meets first, which entries    *)
(* are inspected, how the list is shuffled) are existential.  nTime,       *)
(* nLastTry, nAttempts and nServices are left out: they only choose, with  *)
(* the clock, whether a repeated address is ignored and which entry of a   *)
(* full bucket makes way (IsTerrible, the oldest of four), and both are    *)
(* left open here.  Attempt_ and Connected_ change nothing else and        *)
(* Select_ reads only.  Positions count from 1, identifiers from 0.        *)
(***************************************************************************)
EXTENDS Integers, FiniteSets, SequencesExt

CONSTANTS
    Hosts,        \* CNetAddr: the key of mapAddr
    Services,     \* CService: pairs of a host and a port
    Sources,      \* the hosts that addresses are heard from
    NewBuckets, TriedBuckets,
    NewBucketOf,  \* GetNewBucket: a hash of the host's and the source's groups
    TriedBucketOf,\* GetTriedBucket: a hash of the service
    NEW_BUCKET_SIZE, TRIED_BUCKET_SIZE,
    NEW_BUCKETS_PER_ADDRESS,
    TRIED_ENTRIES_INSPECT_ON_EVICT,
    GETADDR_MAX_PCT,
    Times,        \* the values of GetAdjustedTime
    MaxIds        \* bound: identifiers handed out before a restart renumbers

ASSUME TablesAssumption ==
    /\ \A service \in Services : service[1] \in Hosts
    /\ NewBuckets \subseteq Nat
    /\ NewBucketOf \in [Hosts -> [Sources -> NewBuckets]]
    /\ TriedBucketOf \in [Services -> TriedBuckets]

ASSUME SizesAssumption ==
    /\ NEW_BUCKET_SIZE \in Nat \ {0}
    /\ TRIED_BUCKET_SIZE \in Nat \ {0}
    /\ NEW_BUCKETS_PER_ADDRESS \in Nat \ {0}
    /\ TRIED_ENTRIES_INSPECT_ON_EVICT \in Nat \ {0}
    /\ GETADDR_MAX_PCT \in 0..100
    /\ Times \subseteq Nat \ {0}
    /\ MaxIds \in Nat

VARIABLE addrman

vars == addrman

Empty ==
    [nIdCount |-> 0, mapInfo |-> <<>>, mapAddr |-> <<>>, vRandom |-> <<>>,
     nTried |-> 0, vvTried |-> [b \in TriedBuckets |-> <<>>],
     nNew |-> 0, vvNew |-> [b \in NewBuckets |-> {}]]

Init == addrman = Empty

(***************************************************************************)
(* CAddrInfo.                                                              *)
(***************************************************************************)
HostOf(service) == service[1]

Info(service, source) ==
    [service |-> service, source |-> source, nLastSuccess |-> 0,
     nRefCount |-> 0, fInTried |-> FALSE, nRandomPos |-> 0]

GetTriedBucket(info) == TriedBucketOf[info.service]

GetNewBucket(info, source) == NewBucketOf[HostOf(info.service)][source]

(***************************************************************************)
(* The parts the operations are made of, as functions of the object t.     *)
(***************************************************************************)
Known(t, service) == HostOf(service) \in DOMAIN t.mapAddr

Find(t, service) == t.mapAddr[HostOf(service)]

Create(t, service, source) ==
    LET nId  == t.nIdCount
        info == [Info(service, source) EXCEPT !.nRandomPos = Len(t.vRandom) + 1]
    IN  [t EXCEPT !.nIdCount = nId + 1,
                  !.mapInfo  = (nId :> info) @@ @,
                  !.mapAddr  = (HostOf(service) :> nId) @@ @,
                  !.vRandom  = Append(@, nId)]

SwapRandom(t, nRndPos1, nRndPos2) ==
    LET nId1 == t.vRandom[nRndPos1]
        nId2 == t.vRandom[nRndPos2]
    IN  IF nRndPos1 = nRndPos2
        THEN t
        ELSE [t EXCEPT !.mapInfo[nId1].nRandomPos = nRndPos2,
                       !.mapInfo[nId2].nRandomPos = nRndPos1,
                       !.vRandom[nRndPos1] = nId2,
                       !.vRandom[nRndPos2] = nId1]

\* The entry's last reference is gone: out of the list, the maps, the count.
Delete(t, nId) ==
    LET last == SwapRandom(t, t.mapInfo[nId].nRandomPos, Len(t.vRandom))
    IN  [last EXCEPT !.vRandom = Front(@),
                     !.mapAddr = Restrict(@, DOMAIN @ \ {HostOf(t.mapInfo[nId].service)}),
                     !.mapInfo = Restrict(@, DOMAIN @ \ {nId}),
                     !.nNew    = @ - 1]

\* The bucket is full and nId makes way: the first terrible entry, or the
\* oldest of four drawn at random.
ShrinkNew(t, nUBucket, nId) ==
    LET t1 == [t EXCEPT !.mapInfo[nId].nRefCount = @ - 1,
                        !.vvNew[nUBucket] = @ \ {nId}]
    IN  IF t1.mapInfo[nId].nRefCount = 0 THEN Delete(t1, nId) ELSE t1

\* How many entries of a full bucket SelectTried inspects.
Inspected(vTried) == Min({TRIED_ENTRIES_INSPECT_ON_EVICT, Len(vTried)})

\* The draws of a partial shuffle of the first k of n positions.
Draws(k, n) == {draw \in [1..k -> 1..n] : \A i \in 1..k : draw[i] >= i}

\* The shuffled bucket and the position of the entry to evict.
SelectTried(t, vTried, draw) ==
    LET Older(x, y) == t.mapInfo[x].nLastSuccess < t.mapInfo[y].nLastSuccess
        Inspect(s, i) ==
            LET nPos  == draw[i]
                nTemp == s.vTried[nPos]
                v     == [s.vTried EXCEPT ![nPos] = s.vTried[i], ![i] = nTemp]
            IN  IF s.nOldest = -1 \/ Older(nTemp, s.nOldest)
                THEN [vTried |-> v, nOldest |-> nTemp, nOldestPos |-> nPos]
                ELSE [s EXCEPT !.vTried = v]
    IN  FoldLeft(Inspect, [vTried |-> vTried, nOldest |-> -1, nOldestPos |-> -1],
                 [i \in 1..Inspected(vTried) |-> i])

\* fault: the search stops at the first bucket that holds the entry
LeaveNewFirst(t, nId) ==
    LET first == Min({b \in NewBuckets : nId \in t.vvNew[b]})
    IN  [t EXCEPT !.vvNew[first] = @ \ {nId},
                  !.mapInfo[nId].nRefCount = @ - 1,
                  !.nNew = @ - 1]

\* nId leaves every new bucket.
LeaveNew(t, nId) ==
    LET in == {b \in NewBuckets : nId \in t.vvNew[b]}
    IN  [t EXCEPT !.vvNew = [b \in NewBuckets |-> @[b] \ {nId}],
                  !.mapInfo[nId].nRefCount = @ - Cardinality(in),
                  !.nNew = @ - 1]

\* fault: the entry's own bucket, full or not
ReturnToOwn(t, old, nOrigin) == GetNewBucket(t.mapInfo[old], t.mapInfo[old].source)

\* The new bucket a tried entry goes back to: its own or, when that is full,
\* the one the newcomer was found in.
ReturnTo(t, old, nOrigin) ==
    LET nUBucket == GetNewBucket(t.mapInfo[old], t.mapInfo[old].source)
    IN  IF Cardinality(t.vvNew[nUBucket]) < NEW_BUCKET_SIZE THEN nUBucket ELSE nOrigin

\* fault: the entry evicted from the tried bucket is dropped
EvictForgetting(t, nId, nOrigin, nKBucket, draw) ==
    LET sel == SelectTried(t, t.vvTried[nKBucket], draw)
    IN  Delete([t EXCEPT !.mapInfo[nId].fInTried = TRUE,
                         !.nNew = @ + 1,
                         !.vvTried[nKBucket] = [sel.vTried EXCEPT ![sel.nOldestPos] = nId]],
               sel.vTried[sel.nOldestPos])

\* The tried bucket is full: nId takes the place of one of its entries.
Evict(t, nId, nOrigin, nKBucket, draw) ==
    LET sel == SelectTried(t, t.vvTried[nKBucket], draw)
        old == sel.vTried[sel.nOldestPos]
    IN  [t EXCEPT !.mapInfo[old].fInTried = FALSE,
                  !.mapInfo[old].nRefCount = 1,
                  !.mapInfo[nId].fInTried = TRUE,
                  !.vvNew[ReturnTo(t, old, nOrigin)] = @ \cup {old},
                  !.nNew = @ + 1,
                  !.vvTried[nKBucket] = [sel.vTried EXCEPT ![sel.nOldestPos] = nId]]

MakeTried(t, nId, nOrigin, draw) ==
    LET t1       == LeaveNew(t, nId)
        nKBucket == GetTriedBucket(t.mapInfo[nId])
    IN  IF Len(t.vvTried[nKBucket]) < TRIED_BUCKET_SIZE
        THEN [t1 EXCEPT !.vvTried[nKBucket] = Append(@, nId),
                        !.nTried = @ + 1,
                        !.mapInfo[nId].fInTried = TRUE]
        ELSE Evict(t1, nId, nOrigin, nKBucket, draw)

(***************************************************************************)
(* The public methods.                                                     *)
(***************************************************************************)

\* The entry goes into the bucket its source selects.
Insert(t, nId, nUBucket) ==
    [t EXCEPT !.mapInfo[nId].nRefCount = @ + 1, !.vvNew[nUBucket] = @ \cup {nId}]

Place(nId, source, t) ==
    LET nUBucket == GetNewBucket(t.mapInfo[nId], source)
        vNew     == t.vvNew[nUBucket]
    IN  \/ /\ nId \in vNew
           /\ addrman' = t
        \/ /\ nId \notin vNew
           /\ Cardinality(vNew) # NEW_BUCKET_SIZE
           /\ addrman' = Insert(t, nId, nUBucket)
        \/ /\ nId \notin vNew
           /\ Cardinality(vNew) = NEW_BUCKET_SIZE
           /\ \E out \in vNew :
                 addrman' = Insert(ShrinkNew(t, nUBucket, out), nId, nUBucket)

\* Add_ of a host that is not known yet.
AddNew(service, source) ==
    /\ ~Known(addrman, service)
    /\ addrman.nIdCount < MaxIds
    /\ Place(addrman.nIdCount, source,
             [Create(addrman, service, source) EXCEPT !.nNew = @ + 1])

\* Add_ of a known host, with a newer time and a lucky draw.
AddAgain(service, source) ==
    LET nId == Find(addrman, service)
    IN  /\ Known(addrman, service)
        /\ ~addrman.mapInfo[nId].fInTried
        /\ addrman.mapInfo[nId].nRefCount # NEW_BUCKETS_PER_ADDRESS
        /\ Place(nId, source, addrman)

\* Good_: only the exact service counts, not another port of the host.
Good(service, nTime) ==
    LET nId == Find(addrman, service)
        t   == [addrman EXCEPT !.mapInfo[nId].nLastSuccess = nTime]
        in  == {b \in NewBuckets : nId \in addrman.vvNew[b]}
    IN  /\ Known(addrman, service)
        /\ addrman.mapInfo[nId].service = service
        /\ \/ /\ addrman.mapInfo[nId].fInTried \/ in = {}
              /\ addrman' = t
           \/ /\ ~addrman.mapInfo[nId].fInTried
              /\ LET vTried == addrman.vvTried[TriedBucketOf[service]]
                 IN  \E nOrigin \in in, draw \in Draws(Inspected(vTried), Len(vTried)) :
                        addrman' = MakeTried(t, nId, nOrigin, draw)

\* GetAddr_: a shuffle.  The loop may stop after nNodes swaps, when few entries
\* are terrible; that is the shuffle whose later draws leave each in its place.
GetAddr ==
    LET size   == Len(addrman.vRandom)
        nNodes == (GETADDR_MAX_PCT * size) \div 100
    IN  /\ nNodes > 0
        /\ \E draw \in Draws(size, size) :
              addrman' = FoldLeft(LAMBDA t, n : SwapRandom(t, n, draw[n]),
                                  addrman, [n \in 1..size |-> n])

(***************************************************************************)
(* peers.dat.  Serialize writes the new entries and the tried entries,     *)
(* each in the order of their identifiers, and the new buckets as indices  *)
(* into the first list.  Unserialize numbers the entries afresh and        *)
(* rebuilds everything else.  The two loops also stop at nNew and nTried   *)
(* entries, the counts the file begins with; Consistent says that this is  *)
(* all of them.  The file comes from a build with the same number of       *)
(* buckets; one that is missing or fails its checksum leaves the table of  *)
(* Init.                                                                   *)
(***************************************************************************)
InOrder(ids) == SetToSortSeq(ids, <)

Stored(t, ids) ==
    [i \in 1..Len(ids) |-> [t.mapInfo[ids[i]] EXCEPT !.nRefCount = 0,
                                                    !.fInTried = FALSE]]

\* fault: tried entries are counted as well
IndexInAll(t, nId) == Cardinality({n \in DOMAIN t.mapInfo : n < nId})

\* mapUnkIds: the index under which a new entry is written.
IndexIn(t, nId) ==
    Cardinality({n \in DOMAIN t.mapInfo : n < nId /\ t.mapInfo[n].nRefCount # 0})

Serialize(t) ==
    LET new   == {n \in DOMAIN t.mapInfo : t.mapInfo[n].nRefCount # 0}
        tried == {n \in DOMAIN t.mapInfo : t.mapInfo[n].fInTried}
    IN  [new   |-> Stored(t, InOrder(new)),
         tried |-> Stored(t, InOrder(tried)),
         vvNew |-> [b \in NewBuckets |-> {IndexIn(t, n) : n \in t.vvNew[b]}]]

LoadEntry(t, info) ==
    [t EXCEPT !.nIdCount = @ + 1,
              !.mapInfo = (t.nIdCount :> [info EXCEPT !.nRandomPos = Len(t.vRandom) + 1]) @@ @,
              !.mapAddr = (HostOf(info.service) :> t.nIdCount) @@ @,
              !.vRandom = Append(@, t.nIdCount)]

LoadNew(t, info) == [LoadEntry(t, info) EXCEPT !.nNew = @ + 1]

\* A tried entry whose bucket is full is lost.
LoadTried(t, info) ==
    LET nKBucket == GetTriedBucket(info)
    IN  IF Len(t.vvTried[nKBucket]) < TRIED_BUCKET_SIZE
        THEN [LoadEntry(t, [info EXCEPT !.fInTried = TRUE]) EXCEPT
                 !.nTried = @ + 1,
                 !.vvTried[nKBucket] = Append(@, t.nIdCount)]
        ELSE t

\* One new bucket, in the order of the file; an index past its fourth bucket
\* is skipped.
LoadBucket(t, b, indices) ==
    LET in == {n \in indices : t.mapInfo[n].nRefCount < NEW_BUCKETS_PER_ADDRESS}
    IN  [t EXCEPT !.vvNew[b] = in,
                  !.mapInfo = [n \in DOMAIN @ |->
                      IF n \in in THEN [@[n] EXCEPT !.nRefCount = @ + 1] ELSE @[n]]]

Unserialize(file) ==
    LET new   == FoldLeft(LoadNew, Empty, file.new)
        tried == FoldLeft(LoadTried, new, file.tried)
    IN  FoldLeft(LAMBDA t, b : LoadBucket(t, b, file.vvNew[b]),
                 tried, InOrder(NewBuckets))

\* The node stops and starts again.  An older dump, after a crash, loads what
\* a restart at the time of that dump would have loaded.
Restart == addrman' = Unserialize(Serialize(addrman))

Next ==
    \/ \E service \in Services, source \in Sources :
          AddNew(service, source) \/ AddAgain(service, source)
    \/ \E service \in Services, nTime \in Times : Good(service, nTime)
    \/ GetAddr
    \/ Restart

Spec == Init /\ [][Next]_vars

(***************************************************************************)
(* Check_: what DEBUG_ADDRMAN builds test around every method.             *)
(***************************************************************************)
Check(t) ==
    LET ids   == DOMAIN t.mapInfo
        tried == {n \in ids : t.mapInfo[n].fInTried}
        new   == ids \ tried
        Slots == {<<b, i>> \in TriedBuckets \X (1..TRIED_BUCKET_SIZE) : i <= Len(t.vvTried[b])}
    IN  /\ Len(t.vRandom) = t.nTried + t.nNew
        /\ \A n \in tried : t.mapInfo[n].nLastSuccess # 0 /\ t.mapInfo[n].nRefCount = 0
        /\ \A n \in new : t.mapInfo[n].nRefCount \in 1..NEW_BUCKETS_PER_ADDRESS
        /\ \A n \in ids :
              /\ HostOf(t.mapInfo[n].service) \in DOMAIN t.mapAddr
              /\ t.mapAddr[HostOf(t.mapInfo[n].service)] = n
              /\ t.mapInfo[n].nRandomPos \in DOMAIN t.vRandom
              /\ t.vRandom[t.mapInfo[n].nRandomPos] = n
        /\ t.nTried = Cardinality(tried)
        /\ t.nNew = Cardinality(new)
        /\ {t.vvTried[s[1]][s[2]] : s \in Slots} = tried
        /\ Cardinality(Slots) = Cardinality(tried)
        /\ UNION {t.vvNew[b] : b \in NewBuckets} \subseteq new
        /\ \A n \in new :
              Cardinality({b \in NewBuckets : n \in t.vvNew[b]}) = t.mapInfo[n].nRefCount

-----------------------------------------------------------------------------
(***************************************************************************)
(* Properties                                                              *)
(***************************************************************************)

TypeOK ==
    /\ addrman.nIdCount \in Nat
    /\ addrman.mapInfo \in
         [DOMAIN addrman.mapInfo ->
            [service : Services, source : Sources, nLastSuccess : Times \cup {0},
             nRefCount : Nat, fInTried : BOOLEAN, nRandomPos : Nat]]
    /\ DOMAIN addrman.mapInfo \subseteq 0..(addrman.nIdCount - 1)
    /\ addrman.mapAddr \in [DOMAIN addrman.mapAddr -> Nat]
    /\ DOMAIN addrman.mapAddr \subseteq Hosts
    /\ addrman.vRandom \in Seq(DOMAIN addrman.mapInfo)
    /\ addrman.nTried \in Nat
    /\ addrman.nNew \in Nat
    /\ addrman.vvTried \in [TriedBuckets -> Seq(DOMAIN addrman.mapInfo)]
    /\ addrman.vvNew \in [NewBuckets -> SUBSET DOMAIN addrman.mapInfo]

\* The consistency check of CAddrMan (Check_) would pass after every method:
\* the counters, the reference counts, the shuffled list and the buckets
\* describe one set of entries, whatever was added, moved, evicted, shuffled
\* or reloaded.  Moreover mapAddr, which Check_ only follows one way, leads
\* from no host to an entry that is gone.
Consistent ==
    /\ Check(addrman)
    /\ \A host \in DOMAIN addrman.mapAddr :
          /\ addrman.mapAddr[host] \in DOMAIN addrman.mapInfo
          /\ HostOf(addrman.mapInfo[addrman.mapAddr[host]].service) = host

\* No bucket outgrows its size.  Evicting a tried entry relies on it: when
\* the entry's own new bucket is full it goes to the bucket the newcomer left,
\* where "there is certainly place" (MakeTried), without a check.  Add_ relies
\* on it too: it makes room when the size equals the limit, not above it.
BucketsBounded ==
    /\ \A b \in NewBuckets : Cardinality(addrman.vvNew[b]) <= NEW_BUCKET_SIZE
    /\ \A b \in TriedBuckets : Len(addrman.vvTried[b]) <= TRIED_BUCKET_SIZE

TriedHosts(t) == {HostOf(t.mapInfo[n].service) : n \in {m \in DOMAIN t.mapInfo : t.mapInfo[m].fInTried}}

\* "Elements are never deleted while in the tried table, only possibly evicted
\* back to the new table": no method, and no restart, makes the node forget a
\* host that is tried, whoever takes its place.
TriedKept == [][TriedHosts(addrman) \subseteq DOMAIN addrman'.mapAddr]_vars

\* What a table holds, whatever the numbering of its entries.
Contents(t) ==
    LET Entry(n) == <<t.mapInfo[n].service, t.mapInfo[n].source, t.mapInfo[n].nLastSuccess>>
    IN  [new   |-> [b \in NewBuckets |-> {Entry(n) : n \in t.vvNew[b]}],
         tried |-> [b \in TriedBuckets |-> {Entry(n) : n \in ToSet(t.vvTried[b])}]]

\* A dump of peers.dat taken at any moment, read back, gives the same entries
\* in the same buckets: the indices the buckets are written with (mapUnkIds)
\* name the right entries, no reference is dropped at the limit per address
\* and no tried entry is lost for want of place.
SavedExactly == Contents(Unserialize(Serialize(addrman))) = Contents(addrman)

\* SelectTried, "find the least recently tried among them": of the entries of
\* a full bucket that it inspects, none succeeded longer ago than the one at
\* the position it returns.
EvictsOldest ==
    \A b \in TriedBuckets :
        LET vTried == addrman.vvTried[b]
            k      == Inspected(vTried)
        IN  Len(vTried) = TRIED_BUCKET_SIZE =>
            \A draw \in Draws(k, Len(vTried)) :
                LET sel == SelectTried(addrman, vTried, draw)
                IN  \A i \in 1..k :
                      addrman.mapInfo[sel.vTried[sel.nOldestPos]].nLastSuccess
                          <= addrman.mapInfo[sel.vTried[i]].nLastSuccess
=============================================================================
