-------------------------------- MODULE KeyPool --------------------------------
(***************************************************************************)
(* The key pool of the wallet (wallet.cpp): setKeyPool, the indices of the   *)
(* entries that may be handed out, in memory, and the entries themselves in  *)
(* the wallet database.  Users (a CReserveKey: a miner, a transaction that   *)
(* is being built) reserve an entry, and keep or return it later; other      *)
(* calls take a key at once.  A key is used when it is kept: whoever         *)
(* publishes it keeps it first.                                              *)
(*                                                                           *)
(* Everything but KeepKey runs under cs_wallet.  A write to the database is  *)
(* in its log when the call returns, so that a crash of the process loses    *)
(* memory only; of the writes of a top-up a crash may find the first ones    *)
(* done, which is what a top-up to a smaller size does.  The wallet is one   *)
(* that this version made: the first load of an encrypted wallet of version  *)
(* 0.4 or 0.5, which rewrites the file without the pool, is left out.        *)
(***************************************************************************)
EXTENDS Integers, FiniteSets

CONSTANTS Users,        \* the CReserveKey objects
          KeyPoolSize,  \* -keypool
          Refills,      \* the sizes that keypoolrefill is called with
          MaxKeys       \* bound on the number of keys made

ASSUME SizeAssumption == KeyPoolSize \in Nat /\ Refills \subseteq Nat \ {0} /\ MaxKeys \in Nat

VARIABLES setKeyPool,
          db,         \* the entries of the database: index -> key
          nextKey,    \* keys are numbered in the order GenerateNewKey makes them
          nIndex,     \* of each CReserveKey; -1 if it has no entry
          vchPubKey,  \* of each CReserveKey; 0 if it has none
          used,       \* keys that were kept, so that the world may know them
          encrypted, locked,
          collision,  \* history: a new entry has taken the place of an existing one since the wallet was loaded
          old         \* history: the keys that NewKeyPool was to mark as used

userVars == <<nIndex, vchPubKey>>
history == <<collision, old>>
vars == <<setKeyPool, db, nextKey, userVars, used, encrypted, locked, history>>

LastIndex(S) == CHOOSE i \in S : \A j \in S : j <= i
FirstIndex(S) == CHOOSE i \in S : \A j \in S : i <= j

\* fault: no entry above the size asked for
NewIndicesExact(S, size) ==
    LET last == IF S = {} THEN 0 ELSE LastIndex(S)
    IN last + 1 .. last + (size - Cardinality(S))

\* The indices that TopUpKeyPool adds.
NewIndices(S, size) ==
    LET last == IF S = {} THEN 0 ELSE LastIndex(S)
    IN last + 1 .. last + (size + 1 - Cardinality(S))

\* The entries after WritePool of a new key for each of the indices in new, from the
\* first one on.
Written(entries, new) ==
    [i \in DOMAIN entries \cup new |-> IF i \in new THEN nextKey + i - FirstIndex(new) ELSE entries[i]]

Erased(entries, gone) == [i \in DOMAIN entries \ gone |-> entries[i]]

\* GenerateNewKey for each of the indices in new.
Generate(entries, new) ==
    /\ nextKey + Cardinality(new) <= MaxKeys + 1
    /\ nextKey' = nextKey + Cardinality(new)
    /\ collision' = (collision \/ new \cap DOMAIN entries # {})

Init ==
    /\ setKeyPool = {} /\ db = [i \in {} |-> 0] /\ nextKey = 1
    /\ nIndex = [u \in Users |-> -1] /\ vchPubKey = [u \in Users |-> 0]
    /\ used = {} /\ old = {}
    /\ encrypted = FALSE /\ locked = FALSE /\ collision = FALSE
--------------------------------------------------------------------------------
\* TopUpKeyPool(kpSize)
TopUp(size) ==
    /\ ~locked
    /\ LET new == NewIndices(setKeyPool, size)
       IN /\ Generate(db, new)
          /\ setKeyPool' = setKeyPool \cup new
          /\ db' = Written(db, new)
    /\ UNCHANGED <<userVars, used, encrypted, locked, old>>

\* The top-up that starts ReserveKeyFromKeyPool.
ToppedUp == IF locked THEN {} ELSE NewIndices(setKeyPool, KeyPoolSize)

\* CReserveKey::GetReservedKey
Reserve(u) ==
    LET new == ToppedUp
        pool == setKeyPool \cup new
        first == FirstIndex(pool)
        entries == Written(db, new)
    IN /\ nIndex[u] = -1 /\ pool # {}
       /\ Generate(db, new)
       /\ db' = entries
       /\ IF first \in DOMAIN entries
            THEN /\ setKeyPool' = pool \ {first}
                 /\ nIndex' = [nIndex EXCEPT ![u] = first]
                 /\ vchPubKey' = [vchPubKey EXCEPT ![u] = entries[first]]
            \* "read failed": nIndex is set, and ~CReserveKey returns it
            ELSE /\ setKeyPool' = pool
                 /\ UNCHANGED userVars
       /\ UNCHANGED <<used, encrypted, locked, old>>

\* GetKeyFromPool; an entry that cannot be read is dropped
Take ==
    LET new == ToppedUp
        pool == setKeyPool \cup new
        first == FirstIndex(pool)
        entries == Written(db, new)
    IN /\ pool # {}
       /\ Generate(db, new)
       /\ setKeyPool' = pool \ {first}
       /\ used' = used \cup {entries[i] : i \in DOMAIN entries \cap {first}}
       /\ db' = Erased(entries, {first})
       /\ UNCHANGED <<userVars, encrypted, locked, old>>

Forget(u) ==
    /\ nIndex' = [nIndex EXCEPT ![u] = -1]
    /\ vchPubKey' = [vchPubKey EXCEPT ![u] = 0]

\* fault: the key is kept out of the pool in memory only
KeepKeyInMemory(u) ==
    /\ nIndex[u] # -1
    /\ used' = used \cup {vchPubKey[u]}
    /\ Forget(u)
    /\ UNCHANGED <<db, setKeyPool, nextKey, encrypted, locked, history>>

\* CReserveKey::KeepKey
KeepKey(u) ==
    /\ nIndex[u] # -1
    /\ db' = Erased(db, {nIndex[u]})
    /\ used' = used \cup {vchPubKey[u]}
    /\ Forget(u)
    /\ UNCHANGED <<setKeyPool, nextKey, encrypted, locked, history>>

\* fault: the object does not forget the entry, and returns or keeps it again
ReturnKeyAgain(u) ==
    /\ nIndex[u] # -1
    /\ setKeyPool' = setKeyPool \cup {nIndex[u]}
    /\ UNCHANGED <<userVars, db, nextKey, used, encrypted, locked, history>>

\* CReserveKey::ReturnKey, also by its destructor
ReturnKey(u) ==
    /\ nIndex[u] # -1
    /\ setKeyPool' = setKeyPool \cup {nIndex[u]}
    /\ Forget(u)
    /\ UNCHANGED <<db, nextKey, used, encrypted, locked, history>>

\* NewKeyPool, from EncryptWallet, which leaves the wallet locked.
Encrypt ==
    LET new == 1 .. KeyPoolSize
        kept == Erased(db, setKeyPool)
    IN /\ ~encrypted
       /\ Generate(kept, new)
       /\ db' = Written(kept, new)
       /\ setKeyPool' = new
       /\ encrypted' = TRUE /\ locked' = TRUE
       /\ old' = 1 .. nextKey - 1
       /\ UNCHANGED <<userVars, used>>

Lock ==
    /\ encrypted /\ ~locked
    /\ locked' = TRUE
    /\ UNCHANGED <<setKeyPool, db, nextKey, userVars, used, encrypted, history>>

Unlock ==
    /\ locked
    /\ locked' = FALSE
    /\ UNCHANGED <<setKeyPool, db, nextKey, userVars, used, encrypted, history>>

\* The process dies; the next one reads the entries of the pool (ReadKeyValue).  A wallet
\* that is encrypted starts locked.
Restart ==
    /\ setKeyPool' = DOMAIN db
    /\ nIndex' = [u \in Users |-> -1] /\ vchPubKey' = [u \in Users |-> 0]
    /\ locked' = encrypted /\ collision' = FALSE
    /\ UNCHANGED <<db, nextKey, used, encrypted, old>>

Next ==
    \/ Take \/ Encrypt \/ Lock \/ Unlock \/ Restart
    \/ \E size \in Refills \cup {KeyPoolSize} : TopUp(size)
    \/ \E u \in Users : Reserve(u) \/ KeepKey(u) \/ ReturnKey(u)

Spec == Init /\ [][Next]_vars
--------------------------------------------------------------------------------
(* Properties *)

TypeOK ==
    /\ setKeyPool \subseteq Nat \ {0}
    /\ IsFiniteSet(setKeyPool) /\ IsFiniteSet(DOMAIN db)
    /\ DOMAIN db \subseteq Nat \ {0}
    /\ db \in [DOMAIN db -> Nat \ {0}]
    /\ nextKey \in Nat \ {0}
    /\ nIndex \in [Users -> Nat \cup {-1}]
    /\ vchPubKey \in [Users -> Nat]
    /\ used \subseteq Nat /\ old \subseteq Nat
    /\ encrypted \in BOOLEAN /\ locked \in BOOLEAN /\ collision \in BOOLEAN

Reserving == {u \in Users : nIndex[u] # -1}

(* A new entry does not take the place of one that is reserved, although           *)
(* TopUpKeyPool counts on from the last index that is not reserved: in a wallet    *)
(* that was never encrypted, with -keypool at least 1, the last index never is.    *)
(* (Encryption makes a new pool and leaves the wallet locked, and every later      *)
(* start finds it locked; what can happen then is left out here.)                  *)
EntriesKept == ~encrypted /\ KeyPoolSize >= 1 => ~collision

(* As long as no entry was overwritten, no two users have the same key, no user    *)
(* has a key that was kept, and each index of the pool has an entry that           *)
(* ReserveKeyFromKeyPool can read, whatever is reserved, kept, returned, locked    *)
(* and restarted in between.                                                       *)
SingleUser ==
    ~collision =>
        /\ \A u, v \in Reserving : u # v => vchPubKey[u] # vchPubKey[v]
        /\ \A u \in Reserving : vchPubKey[u] \notin used /\ nIndex[u] \notin setKeyPool
        /\ setKeyPool \subseteq DOMAIN db

(* A key that was kept is in no entry, so that neither this process nor the one    *)
(* after a crash hands it out later, even if entries were overwritten.             *)
UsedNeverPooled == \A i \in DOMAIN db : db[i] \notin used

(* "Mark old keypool keys as used, and generate all new keys" (wallet.cpp,         *)
(* NewKeyPool): no entry of the pool holds a key from before.  An entry that is    *)
(* reserved at that time is left alone, and may be returned later.                 *)
OldKeysUsed == \A i \in setKeyPool \cap DOMAIN db : db[i] \notin old
================================================================================
