----------------------------- MODULE KeyPoolProofs -----------------------------
(***************************************************************************)
(* What KeyPool promises, for every number of users, every -keypool, every   *)
(* sequence of top-ups, reservations, returns, locks and restarts.           *)
(***************************************************************************)
EXTENDS KeyPool, FiniteSetTheorems, WellFoundedInduction, TLAPS

Indices == Nat \ {0}

--------------------------------------------------------------------------------
(* The first and the last of a set of indices *)

\* A set of indices that is not empty has a first one.
LEMMA LeastNat == ASSUME NEW S, S \subseteq Nat, S # {} PROVE \E i \in S : \A j \in S : i <= j
  <1>1. PICK i \in S : \A j \in S : ~(<<j, i>> \in OpToRel(<, Nat))
    BY Zenon, NatLessThanWellFounded, WFMin
  <1>2. \A j \in S : ~(j < i)
    BY Zenon, <1>1 DEF OpToRel
  <1>3. QED  BY <1>2

\* What FirstIndex chooses.
LEMMA FirstFacts ==
    ASSUME NEW S, S \subseteq Indices, S # {}
    PROVE  FirstIndex(S) \in S /\ \A j \in S : FirstIndex(S) <= j
  BY Zenon, LeastNat DEF FirstIndex, Indices

\* The first index of those that a top-up adds.
LEMMA IntervalFirst ==
    ASSUME NEW a \in Nat, NEW b \in Int, a <= b
    PROVE  FirstIndex(a .. b) = a
  <1>1. a \in a .. b /\ \A j \in a .. b : a <= j
    OBVIOUS
  <1>2. \A i \in a .. b : (\A j \in a .. b : i <= j) => i = a
    OBVIOUS
  <1>3. QED  BY <1>1, <1>2 DEF FirstIndex

\* A finite set of numbers is bounded, and the least bound is its last element.
LEMMA Bounded ==
    ASSUME NEW S, S \subseteq Indices, IsFiniteSet(S)
    PROVE  \E b \in Nat : \A j \in S : j <= b
  <1> DEFINE HasBound(X) == \E b \in Nat : \A j \in X : j <= b
             R == StrictSubsetOrdering(Indices)
             T == {X \in FiniteSubsetsOf(Indices) : ~HasBound(X)}
  <1>1. SUFFICES ASSUME T # {} PROVE FALSE
    BY DEF FiniteSubsetsOf
  <1>2. PICK X \in T : \A Y \in T : ~(<<Y, X>> \in R)
    <2>1. T \subseteq FiniteSubsetsOf(Indices)
      OBVIOUS
    <2>2. IsWellFoundedOn(R, FiniteSubsetsOf(Indices))
      BY FS_StrictSubsetOrderingWellFounded
    <2> HIDE DEF T, R
    <2>3. QED  BY <1>1, <2>1, <2>2, WFMin
  <1>3. X \subseteq Indices /\ IsFiniteSet(X) /\ ~HasBound(X)
    BY DEF FiniteSubsetsOf
  <1>4. X # {}
    BY <1>3 DEF Indices
  <1>5. PICK x \in X : TRUE
    BY <1>4
  <1>6. IsFiniteSet(X \ {x}) /\ X \ {x} \subseteq Indices
    BY <1>3, FS_RemoveElement
  <1>7. <<X \ {x}, X>> \in R
    BY <1>3, <1>5 DEF StrictSubsetOrdering
  <1>8. HasBound(X \ {x})
    BY <1>2, <1>6, <1>7 DEF FiniteSubsetsOf
  <1>9. PICK b \in Nat : \A j \in X \ {x} : j <= b
    BY <1>8
  <1>10. x \in Nat
    BY <1>3, <1>5 DEF Indices
  <1>11. \A j \in X : j <= b + x
    BY <1>3, <1>9, <1>10 DEF Indices
  <1>12. QED  BY <1>3, <1>9, <1>10, <1>11

\* What LastIndex chooses.
LEMMA LastFacts ==
    ASSUME NEW S, S \subseteq Indices, IsFiniteSet(S), S # {}
    PROVE  LastIndex(S) \in S /\ \A j \in S : j <= LastIndex(S)
  <1> DEFINE B == {b \in Nat : \A j \in S : j <= b}
  <1>1. B \subseteq Nat /\ B # {}
    BY Bounded
  <1>2. PICK b \in B : \A c \in B : b <= c
    <2> HIDE DEF B
    <2>1. QED  BY Zenon, <1>1, LeastNat
  <1>3. b \in S
    <2>1. SUFFICES ASSUME b \notin S PROVE FALSE
      OBVIOUS
    <2>2. \A j \in S : j <= b - 1 /\ b - 1 >= 1
      BY <1>2, <2>1 DEF Indices
    <2>3. b - 1 \in B
      BY <1>2, <2>2
    <2>4. QED  BY <1>2, <2>3
  <1>4. QED  BY Zenon, <1>2, <1>3 DEF LastIndex

\* The indices that a top-up adds follow all indices of the pool.
LEMMA NewFacts ==
    ASSUME NEW S, S \subseteq Indices, IsFiniteSet(S), NEW size \in Nat
    PROVE  /\ \E a \in Indices, b \in Int : NewIndices(S, size) = a .. b
           /\ \A i \in NewIndices(S, size), j \in S : j < i
           /\ S = {} => NewIndices(S, size) = 1 .. size + 1
           /\ Cardinality(S) <= size => NewIndices(S, size) # {}
  <1>1. Cardinality(S) \in Nat
    BY FS_CardinalityType
  <1>2. CASE S = {}
    <2>1. NewIndices(S, size) = 1 .. size + 1
      BY <1>2, FS_EmptySet DEF NewIndices
    <2>2. 1 \in Indices /\ size + 1 \in Int /\ 1 \in 1 .. size + 1
      BY DEF Indices
    <2>3. \E a \in Indices, b \in Int : NewIndices(S, size) = a .. b
      BY <2>1, <2>2
    <2>4. QED  BY <1>2, <2>1, <2>2, <2>3
  <1>3. CASE S # {}
    <2>1. LastIndex(S) \in Indices /\ \A j \in S : j <= LastIndex(S)
      BY <1>3, LastFacts
    <2>2. NewIndices(S, size) = LastIndex(S) + 1 .. LastIndex(S) + (size + 1 - Cardinality(S))
      BY <1>3 DEF NewIndices
    <2> DEFINE last == LastIndex(S)
    <2>3. last + 1 \in Indices /\ last + (size + 1 - Cardinality(S)) \in Int
      BY <1>1, <2>1 DEF Indices
    <2>4. \A i \in NewIndices(S, size), j \in S : j < i
      BY <1>1, <2>1, <2>2 DEF Indices
    <2>5. Cardinality(S) <= size => last + 1 \in NewIndices(S, size)
      BY <1>1, <2>1, <2>2 DEF Indices
    <2>6. \E a \in Indices, b \in Int : NewIndices(S, size) = a .. b
      BY <2>2, <2>3
    <2>7. QED  BY <1>3, <2>4, <2>5, <2>6
  <1>4. QED  BY <1>2, <1>3
--------------------------------------------------------------------------------
(* The entries *)

\* Entries as they can be: the keys are different, and were made before.
EntriesOK(entries) ==
    /\ DOMAIN entries \subseteq Indices /\ IsFiniteSet(DOMAIN entries)
    /\ \A i \in DOMAIN entries : entries[i] \in Indices /\ entries[i] < nextKey
    /\ \A i, j \in DOMAIN entries : entries[i] = entries[j] => i = j

\* What WritePool makes of the entries: the new ones have new keys, all different.
WrittenOK(entries, new) ==
    /\ DOMAIN Written(entries, new) = DOMAIN entries \cup new
    /\ DOMAIN Written(entries, new) \subseteq Indices
    /\ IsFiniteSet(DOMAIN Written(entries, new))
    /\ Written(entries, new) \in [DOMAIN Written(entries, new) -> Indices]
    /\ nextKey + Cardinality(new) \in Indices
    /\ nextKey <= nextKey + Cardinality(new)
    /\ \A i \in DOMAIN Written(entries, new) : Written(entries, new)[i] < nextKey + Cardinality(new)
    /\ \A i \in new : Written(entries, new)[i] >= nextKey
    /\ \A i \in DOMAIN entries \ new : Written(entries, new)[i] = entries[i]
    /\ \A i, j \in DOMAIN Written(entries, new) :
          Written(entries, new)[i] = Written(entries, new)[j] => i = j

\* What the database holds after the writes of a top-up.
LEMMA WrittenFacts ==
    ASSUME NEW entries, EntriesOK(entries), nextKey \in Indices,
           NEW a \in Indices, NEW b \in Int, NEW new, new = a .. b
    PROVE  WrittenOK(entries, new)
  <1> USE DEF EntriesOK
  <1>1. IsFiniteSet(new) /\ Cardinality(new) \in Nat /\ (a <= b => Cardinality(new) = b - a + 1)
    BY FS_Interval, FS_CardinalityType DEF Indices
  <1>2. DOMAIN Written(entries, new) = DOMAIN entries \cup new
    BY DEF Written
  <1>3. IsFiniteSet(DOMAIN entries \cup new) /\ DOMAIN entries \cup new \subseteq Indices
    <2>1. IsFiniteSet(DOMAIN entries \cup new)
      BY Zenon, <1>1, FS_Union
    <2>2. new \subseteq Indices
      BY DEF Indices
    <2>3. QED  BY <2>1, <2>2
  <1>4. ASSUME NEW i \in new
        PROVE  /\ Written(entries, new)[i] = nextKey + i - a
               /\ i \in a .. b /\ i - a < Cardinality(new)
    <2>1. a <= b /\ i \in Nat
      BY <1>4 DEF Indices
    <2>2. FirstIndex(new) = a
      BY <2>1, IntervalFirst DEF Indices
    <2>3. Written(entries, new)[i] = nextKey + i - a
      BY <1>4, <2>2 DEF Written
    <2>4. i \in a .. b /\ i - a < Cardinality(new)
      BY <1>1, <1>4, <2>1 DEF Indices
    <2>5. QED  BY <2>3, <2>4
  <1>5. ASSUME NEW i \in DOMAIN entries \ new PROVE Written(entries, new)[i] = entries[i]
    BY <1>5 DEF Written
  <1>6. \A i \in new : Written(entries, new)[i] \in Indices /\ Written(entries, new)[i] >= nextKey
                      /\ Written(entries, new)[i] < nextKey + Cardinality(new)
    BY <1>1, <1>4 DEF Indices
  <1>7. \A i \in DOMAIN entries \ new : Written(entries, new)[i] \in Indices /\ Written(entries, new)[i] < nextKey
    BY <1>5
  <1>8. Written(entries, new) \in [DOMAIN entries \cup new -> Indices]
    BY Zenon, <1>2, <1>6, <1>7 DEF Written
  <1>9. \A i, j \in DOMAIN entries \cup new :
           Written(entries, new)[i] = Written(entries, new)[j] => i = j
    <2>1. \A i, j \in new : Written(entries, new)[i] = Written(entries, new)[j] => i = j
      BY <1>4 DEF Indices
    <2>2. \A i, j \in DOMAIN entries \ new : Written(entries, new)[i] = Written(entries, new)[j] => i = j
      BY <1>5
    <2>3. \A i \in new, j \in DOMAIN entries \ new : Written(entries, new)[i] # Written(entries, new)[j]
      BY <1>6, <1>7 DEF Indices
    <2>4. QED  BY <2>1, <2>2, <2>3
  <1>10. nextKey + Cardinality(new) \in Indices /\ nextKey <= nextKey + Cardinality(new)
    BY <1>1 DEF Indices
  <1>11. \A i \in DOMAIN entries \cup new : Written(entries, new)[i] < nextKey + Cardinality(new)
    BY <1>1, <1>6, <1>7 DEF Indices
  <1>12. QED  BY <1>2, <1>3, <1>5, <1>6, <1>8, <1>9, <1>10, <1>11 DEF WrittenOK
--------------------------------------------------------------------------------
(* The inductive invariant *)

\* Keys are never made twice and have one entry at most; a user's key can only be in
\* the entry that the user has the index of, and a key that was kept in none.
KeyInv ==
    /\ TypeOK
    /\ \A i \in DOMAIN db : db[i] < nextKey /\ db[i] \notin used
    /\ \A i, j \in DOMAIN db : db[i] = db[j] => i = j
    /\ \A u \in Reserving : nIndex[u] \in Indices /\ vchPubKey[u] < nextKey
    /\ \A u \in Reserving, i \in DOMAIN db : db[i] = vchPubKey[u] => i = nIndex[u]
    /\ \A k \in used : k < nextKey

\* As long as no entry was overwritten, entries are reserved by one user or in the pool.
EntryInv ==
    ~collision =>
        /\ \A u \in Reserving :
              nIndex[u] \in DOMAIN db \ setKeyPool /\ db[nIndex[u]] = vchPubKey[u]
        /\ \A u, v \in Reserving : nIndex[u] = nIndex[v] => u = v
        /\ setKeyPool \subseteq DOMAIN db

\* In a wallet that was never encrypted the last entry is in the pool, so that the entries
\* that are added next are new.
LastInv ==
    /\ (locked => encrypted)
    /\ ~encrypted /\ KeyPoolSize >= 1 =>
         /\ ~collision
         /\ \A i \in DOMAIN db : \E j \in setKeyPool : i <= j

IInv == KeyInv /\ EntryInv /\ LastInv

--------------------------------------------------------------------------------
(* The top-up *)

\* What holds of the pool and the entries W after a top-up by the indices in new.
ToppedOK(new, W) ==
    /\ setKeyPool \cup new \subseteq Indices /\ IsFiniteSet(setKeyPool \cup new)
    /\ DOMAIN W = DOMAIN db \cup new /\ DOMAIN W \subseteq Indices /\ IsFiniteSet(DOMAIN W)
    /\ W \in [DOMAIN W -> Indices]
    /\ nextKey' \in Indices /\ nextKey <= nextKey'
    /\ \A i \in DOMAIN W : W[i] < nextKey' /\ W[i] \notin used
    /\ \A i, j \in DOMAIN W : W[i] = W[j] => i = j
    /\ \A u \in Reserving, i \in DOMAIN W : W[i] = vchPubKey[u] => i = nIndex[u]
    /\ collision' \in BOOLEAN
    /\ ~collision' =>
         /\ ~collision /\ new \cap DOMAIN db = {}
         /\ \A i \in DOMAIN db : W[i] = db[i]
    /\ ~encrypted /\ KeyPoolSize >= 1 =>
         /\ ~collision'
         /\ \A i \in DOMAIN W : \E j \in setKeyPool \cup new : i <= j

\* A top-up writes new keys under indices behind those of the pool.
LEMMA Topping ==
    ASSUME IInv, NEW new, Generate(db, new),
           NEW a \in Indices, NEW b \in Int, new = a .. b,
           \A i \in new, j \in setKeyPool : j < i
    PROVE  ToppedOK(new, Written(db, new))
  <1> DEFINE W == Written(db, new)
  <1>1. /\ EntriesOK(db) /\ nextKey \in Indices
        /\ setKeyPool \subseteq Indices /\ IsFiniteSet(setKeyPool)
    BY DEF IInv, KeyInv, TypeOK, Indices, EntriesOK
  <1>2. /\ DOMAIN W = DOMAIN db \cup new /\ DOMAIN W \subseteq Indices /\ IsFiniteSet(DOMAIN W)
        /\ W \in [DOMAIN W -> Indices]
        /\ nextKey + Cardinality(new) \in Indices /\ nextKey <= nextKey + Cardinality(new)
        /\ \A i \in DOMAIN W : W[i] < nextKey + Cardinality(new)
        /\ \A i \in new : W[i] >= nextKey
        /\ \A i \in DOMAIN db \ new : W[i] = db[i]
        /\ \A i, j \in DOMAIN W : W[i] = W[j] => i = j
    <2>1. WrittenOK(db, new)
      BY <1>1, WrittenFacts
    <2>2. QED  BY <2>1 DEF WrittenOK
  <1> HIDE DEF W
  <1>3. IsFiniteSet(new)
    BY FS_Interval DEF Indices
  <1>4. new \subseteq Indices
    BY DEF Indices
  <1>5. setKeyPool \cup new \subseteq Indices /\ IsFiniteSet(setKeyPool \cup new)
    BY Zenon, <1>1, <1>3, <1>4, FS_Union
  <1>6. nextKey' = nextKey + Cardinality(new)
    BY DEF Generate
  <1>7. \A i \in DOMAIN W : W[i] \notin used
    BY <1>1, <1>2 DEF IInv, KeyInv, TypeOK, Indices, EntriesOK
  <1>8. \A u \in Reserving, i \in DOMAIN W : W[i] = vchPubKey[u] => i = nIndex[u]
    BY <1>1, <1>2 DEF IInv, KeyInv, TypeOK, Indices, EntriesOK, Reserving
  <1>9. collision \in BOOLEAN /\ collision' = (collision \/ new \cap DOMAIN db # {})
    BY DEF IInv, KeyInv, TypeOK, Generate
  <1>10. ~collision' => ~collision /\ new \cap DOMAIN db = {} /\ \A i \in DOMAIN db : W[i] = db[i]
    BY Zenon, <1>2, <1>9
  <1>11. ASSUME ~encrypted, KeyPoolSize >= 1
         PROVE  ~collision' /\ \A i \in DOMAIN W : \E j \in setKeyPool \cup new : i <= j
    <2>1. ~collision /\ \A i \in DOMAIN db : \E j \in setKeyPool : i <= j
      BY <1>11 DEF IInv, LastInv
    <2>2. new \cap DOMAIN db = {}
      BY <1>1, <1>4, <2>1 DEF Indices, EntriesOK
    <2>3. \A i \in DOMAIN W : \E j \in setKeyPool \cup new : i <= j
      BY <1>1, <1>2, <1>4, <2>1 DEF Indices, EntriesOK
    <2>4. QED  BY <1>9, <2>1, <2>2, <2>3
  <1>12. QED
    BY <1>2, <1>5, <1>6, <1>7, <1>8, <1>9, <1>10, <1>11 DEF ToppedOK, W

\* The top-up of a reservation: afterwards an entry is left when the first one is gone.
LEMMA ToppedUpFacts ==
    ASSUME IInv, Generate(db, ToppedUp)
    PROVE  /\ ToppedOK(ToppedUp, Written(db, ToppedUp))
           /\ ~locked /\ KeyPoolSize >= 1 =>
                \A i \in setKeyPool \cup ToppedUp : \E j \in setKeyPool \cup ToppedUp : j # i
  <1>1. setKeyPool \subseteq Indices /\ IsFiniteSet(setKeyPool)
    BY DEF IInv, KeyInv, TypeOK, Indices
  <1>2. CASE locked
    <2>1. ToppedUp = 1 .. 0 /\ 1 \in Indices /\ 0 \in Int
      BY <1>2 DEF ToppedUp, Indices
    <2>2. QED  BY <1>2, <2>1, Topping
  <1>3. CASE ~locked
    <2> DEFINE S == setKeyPool
    <2>1. ToppedUp = NewIndices(S, KeyPoolSize)
      BY <1>3 DEF ToppedUp
    <2>2. /\ \E a \in Indices, b \in Int : ToppedUp = a .. b
          /\ \A i \in ToppedUp, j \in S : j < i
          /\ S = {} => ToppedUp = 1 .. KeyPoolSize + 1
          /\ Cardinality(S) <= KeyPoolSize => ToppedUp # {}
      BY <1>1, <2>1, NewFacts, SizeAssumption
    <2>3. ToppedOK(ToppedUp, Written(db, ToppedUp))
      BY Zenon, <2>2, Topping
    <2>4. ASSUME KeyPoolSize >= 1, NEW i \in S \cup ToppedUp PROVE \E j \in S \cup ToppedUp : j # i
      <3>1. CASE S = {}
        <4>1. 1 \in ToppedUp /\ 2 \in ToppedUp
          <5>1. KeyPoolSize \in Nat /\ ToppedUp = 1 .. KeyPoolSize + 1
            BY <2>2, <3>1, SizeAssumption
          <5>2. QED  BY <5>1, <2>4
        <4>2. QED  BY <4>1
      <3>2. CASE S # {} /\ ToppedUp # {}
        <4>1. PICK s \in S, t \in ToppedUp : s < t /\ s \in Nat
          BY Zenon, <1>1, <2>2, <3>2 DEF Indices
        <4>2. s # t
          BY <4>1
        <4>3. QED  BY <4>2
      <3>3. CASE S # {} /\ ToppedUp = {}
        <4>1. Cardinality(S) \in Nat /\ Cardinality(S) >= 2
          BY <1>1, <2>2, <2>4, <3>3, FS_CardinalityType, SizeAssumption
        <4>2. IsFiniteSet(S \ {i}) /\ Cardinality(S \ {i}) >= 1
          <5>1. i \in S
            BY <3>3
          <5>2. IsFiniteSet(S \ {i}) /\ Cardinality(S \ {i}) = Cardinality(S) - 1
            BY <1>1, <5>1, FS_RemoveElement
          <5>3. QED  BY <4>1, <5>2
        <4>3. S \ {i} # {}
          BY <4>2, FS_EmptySet
        <4>4. QED  BY <4>3
      <3>4. QED  BY <3>1, <3>2, <3>3
    <2>5. QED  BY <2>3, <2>4
  <1>4. QED  BY <1>2, <1>3
--------------------------------------------------------------------------------
(* The steps *)

\* TopUpKeyPool.
LEMMA TopUpInv == ASSUME IInv, NEW size \in Nat, TopUp(size) PROVE IInv'
  <1> DEFINE new == NewIndices(setKeyPool, size)
             W == Written(db, new)
  <1>1. setKeyPool \subseteq Indices /\ IsFiniteSet(setKeyPool)
    BY DEF IInv, KeyInv, TypeOK, Indices
  <1>2. ToppedOK(new, W) /\ db' = W /\ setKeyPool' = setKeyPool \cup new
    BY <1>1, NewFacts, Topping DEF TopUp
  <1> HIDE DEF new, W
  <1>3. UNCHANGED <<nIndex, vchPubKey, used, encrypted, locked, old>> /\ Reserving' = Reserving
    BY DEF TopUp, userVars, Reserving
  <1>4. KeyInv'
    BY <1>2, <1>3 DEF IInv, KeyInv, TypeOK, ToppedOK, Indices, Reserving
  <1>5. EntryInv'
    BY <1>2, <1>3 DEF IInv, EntryInv, ToppedOK
  <1>6. LastInv'
    BY <1>2, <1>3 DEF IInv, LastInv, ToppedOK
  <1>7. QED  BY <1>4, <1>5, <1>6 DEF IInv

\* CReserveKey::GetReservedKey.
LEMMA ReserveInv == ASSUME IInv, NEW u \in Users, Reserve(u) PROVE IInv'
  <1> DEFINE new == ToppedUp
             W == Written(db, new)
             pool == setKeyPool \cup new
             first == FirstIndex(pool)
  <1>1. Generate(db, new) /\ db' = W /\ pool # {} /\ nIndex[u] = -1
    BY DEF Reserve
  <1>2. ToppedOK(new, W)
    BY <1>1, ToppedUpFacts
  <1>3. ~locked /\ KeyPoolSize >= 1 => \A i \in pool : \E j \in pool : j # i
    BY <1>1, ToppedUpFacts
  <1>4. first \in pool /\ \A j \in pool : first <= j
    BY <1>1, <1>2, FirstFacts DEF ToppedOK
  <1>5. UNCHANGED <<used, encrypted, locked, old>>
    BY DEF Reserve
  <1>6. CASE first \in DOMAIN W
    <2>1. /\ setKeyPool' = pool \ {first}
          /\ nIndex' = [nIndex EXCEPT ![u] = first]
          /\ vchPubKey' = [vchPubKey EXCEPT ![u] = W[first]]
      BY <1>6 DEF Reserve
    <2> HIDE DEF new, W, pool, first
    <2>2. /\ first \in Indices /\ W[first] \in Indices /\ u \notin Reserving
          /\ Reserving' = Reserving \cup {u}
          /\ nIndex'[u] = first /\ vchPubKey'[u] = W[first]
          /\ \A v \in Reserving : nIndex'[v] = nIndex[v] /\ vchPubKey'[v] = vchPubKey[v]
      BY <1>1, <1>2, <1>6, <2>1 DEF IInv, KeyInv, TypeOK, Reserving, ToppedOK, Indices
    <2>3. TypeOK'
      <3>1. pool \ {first} \subseteq Indices /\ IsFiniteSet(pool \ {first})
        BY <1>2, FS_RemoveElement DEF ToppedOK, pool
      <3>2. nIndex' \in [Users -> Nat \cup {-1}] /\ vchPubKey' \in [Users -> Nat]
        BY <2>1, <2>2 DEF IInv, KeyInv, TypeOK, Indices
      <3>3. QED  BY <1>1, <1>2, <1>5, <2>1, <3>1, <3>2 DEF IInv, KeyInv, TypeOK, ToppedOK, Indices
    <2>4. KeyInv'
      <3>1. \A v \in Reserving' : nIndex'[v] \in Indices /\ vchPubKey'[v] < nextKey'
        BY <1>2, <1>6, <2>2 DEF IInv, KeyInv, TypeOK, ToppedOK, Indices, Reserving
      <3>2. \A v \in Reserving', i \in DOMAIN W : W[i] = vchPubKey'[v] => i = nIndex'[v]
        BY <1>2, <1>6, <2>2 DEF ToppedOK
      <3>3. \A k \in used : k < nextKey'
        BY <1>2 DEF IInv, KeyInv, TypeOK, ToppedOK, Indices
      <3>4. QED  BY <1>1, <1>2, <1>5, <2>3, <3>1, <3>2, <3>3 DEF KeyInv, ToppedOK
    <2>5. EntryInv'
      <3>1. SUFFICES ASSUME ~collision'
                     PROVE  /\ \A v \in Reserving' :
                                 /\ nIndex'[v] \in DOMAIN W \ setKeyPool'
                                 /\ W[nIndex'[v]] = vchPubKey'[v]
                            /\ \A v, w \in Reserving' : nIndex'[v] = nIndex'[w] => v = w
                            /\ setKeyPool' \subseteq DOMAIN W
        BY <1>1 DEF EntryInv
      <3>2. ~collision /\ new \cap DOMAIN db = {} /\ \A i \in DOMAIN db : W[i] = db[i]
        BY <1>2, <3>1 DEF ToppedOK
      <3>3. /\ \A v \in Reserving : nIndex[v] \in DOMAIN db \ pool /\ W[nIndex[v]] = vchPubKey[v]
            /\ \A v, w \in Reserving : nIndex[v] = nIndex[w] => v = w
            /\ pool \subseteq DOMAIN W
        BY <1>2, <3>2 DEF IInv, EntryInv, ToppedOK, pool
      <3>4. QED  BY <1>2, <1>4, <1>6, <2>1, <2>2, <3>3 DEF ToppedOK
    <2>6. LastInv'
      <3>1. ASSUME ~encrypted, KeyPoolSize >= 1
            PROVE  ~collision' /\ \A i \in DOMAIN W : \E j \in setKeyPool' : i <= j
        <4>1. ~collision' /\ \A i \in DOMAIN W : \E j \in pool : i <= j
          BY <1>2, <3>1 DEF ToppedOK, pool
        <4>2. ~locked
          BY <3>1 DEF IInv, LastInv
        <4>3. PICK k \in pool : k # first
          BY <1>3, <1>4, <3>1, <4>2
        <4>4. first \in Nat /\ pool \subseteq Nat /\ first <= k /\ DOMAIN W \subseteq Nat
          BY <1>2, <1>4 DEF ToppedOK, Indices, pool
        <4>5. ASSUME NEW i \in DOMAIN W PROVE \E j \in pool \ {first} : i <= j
          <5>1. PICK j \in pool : i <= j
            BY <4>1
          <5>2. CASE j = first
            BY <4>3, <4>4, <5>1, <5>2
          <5>3. CASE j # first
            BY <5>1, <5>3
          <5>4. QED  BY <5>2, <5>3
        <4>6. QED  BY <2>1, <4>1, <4>5
      <3>2. QED  BY <1>1, <1>5, <3>1 DEF IInv, LastInv
    <2>7. QED  BY <2>4, <2>5, <2>6 DEF IInv
  <1>7. CASE first \notin DOMAIN W
    <2>1. setKeyPool' = pool /\ UNCHANGED <<nIndex, vchPubKey>> /\ Reserving' = Reserving
      BY <1>7 DEF Reserve, userVars, Reserving
    <2> HIDE DEF new, W, first
    <2>2. KeyInv'
      BY <1>1, <1>2, <1>5, <2>1 DEF IInv, KeyInv, TypeOK, ToppedOK, Indices, Reserving
    <2>3. EntryInv'
      BY <1>1, <1>2, <1>5, <2>1 DEF IInv, EntryInv, ToppedOK
    <2>4. LastInv'
      BY <1>1, <1>2, <1>5, <2>1 DEF IInv, LastInv, ToppedOK
    <2>5. QED  BY <2>2, <2>3, <2>4 DEF IInv
  <1>8. QED  BY <1>6, <1>7
\* GetKeyFromPool.
LEMMA TakeInv == ASSUME IInv, Take PROVE IInv'
  <1> DEFINE new == ToppedUp
             W == Written(db, new)
             pool == setKeyPool \cup new
             first == FirstIndex(pool)
  <1>1. /\ Generate(db, new) /\ pool # {} /\ setKeyPool' = pool \ {first}
        /\ db' = Erased(W, {first})
        /\ used' = used \cup {W[i] : i \in DOMAIN W \cap {first}}
    BY DEF Take
  <1>2. ToppedOK(new, W)
    BY <1>1, ToppedUpFacts
  <1>3. ~locked /\ KeyPoolSize >= 1 => \A i \in pool : \E j \in pool : j # i
    BY <1>1, ToppedUpFacts
  <1>4. first \in pool /\ \A j \in pool : first <= j
    BY <1>1, <1>2, FirstFacts DEF ToppedOK
  <1>5. UNCHANGED <<nIndex, vchPubKey, encrypted, locked, old>> /\ Reserving' = Reserving
    BY DEF Take, userVars, Reserving
  <1> HIDE DEF new, W, pool, first
  <1>6. DOMAIN db' = DOMAIN W \ {first} /\ \A i \in DOMAIN db' : db'[i] = W[i]
    BY <1>1 DEF Erased
  <1>7. TypeOK'
    <2>1. pool \ {first} \subseteq Indices /\ IsFiniteSet(pool \ {first})
      BY <1>2, FS_RemoveElement DEF ToppedOK, pool
    <2>2. IsFiniteSet(DOMAIN db') /\ DOMAIN db' \subseteq Indices
      BY <1>2, <1>6, FS_RemoveElement DEF ToppedOK
    <2>3. db' \in [DOMAIN db' -> Indices]
      BY <1>1, <1>2, <1>6 DEF ToppedOK, Erased
    <2>4. used' \subseteq Nat
      BY <1>1, <1>2 DEF IInv, KeyInv, TypeOK, ToppedOK, Indices
    <2>5. QED  BY Zenon, <1>1, <1>2, <1>5, <2>1, <2>2, <2>3, <2>4 DEF IInv, KeyInv, TypeOK, ToppedOK, Indices
  <1>8. KeyInv'
    <2>1. \A i \in DOMAIN db' : db'[i] < nextKey' /\ db'[i] \notin used'
      <3>1. SUFFICES ASSUME NEW i \in DOMAIN db' PROVE db'[i] < nextKey' /\ db'[i] \notin used'
        OBVIOUS
      <3>2. i \in DOMAIN W /\ i # first /\ db'[i] = W[i]
        BY <1>6
      <3>3. W[i] < nextKey' /\ W[i] \notin used
        BY <1>2, <3>2 DEF ToppedOK
      <3>4. \A j \in DOMAIN W \cap {first} : W[j] # W[i]
        BY <1>2, <3>2 DEF ToppedOK
      <3>5. QED  BY <1>1, <3>2, <3>3, <3>4
    <2>2. \A i, j \in DOMAIN db' : db'[i] = db'[j] => i = j
      BY <1>2, <1>6 DEF ToppedOK
    <2>3. \A u \in Reserving : nIndex[u] \in Indices /\ vchPubKey[u] < nextKey'
      BY <1>2 DEF IInv, KeyInv, TypeOK, ToppedOK, Indices, Reserving
    <2>4. \A u \in Reserving, i \in DOMAIN db' : db'[i] = vchPubKey[u] => i = nIndex[u]
      BY <1>2, <1>6 DEF ToppedOK
    <2>5. \A k \in used' : k < nextKey'
      BY <1>1, <1>2 DEF IInv, KeyInv, TypeOK, ToppedOK, Indices
    <2>6. QED  BY <1>5, <1>7, <2>1, <2>2, <2>3, <2>4, <2>5 DEF KeyInv
  <1>9. EntryInv'
    <2>1. SUFFICES ASSUME ~collision'
                   PROVE  /\ \A u \in Reserving :
                               nIndex[u] \in DOMAIN db' \ setKeyPool' /\ db'[nIndex[u]] = vchPubKey[u]
                          /\ \A u, v \in Reserving : nIndex[u] = nIndex[v] => u = v
                          /\ setKeyPool' \subseteq DOMAIN db'
      BY <1>5 DEF EntryInv
    <2>2. /\ new \cap DOMAIN db = {} /\ (\A i \in DOMAIN db : W[i] = db[i])
          /\ DOMAIN W = DOMAIN db \cup new
          /\ \A u \in Reserving : nIndex[u] \in DOMAIN db \ setKeyPool /\ db[nIndex[u]] = vchPubKey[u]
          /\ \A u, v \in Reserving : nIndex[u] = nIndex[v] => u = v
          /\ setKeyPool \subseteq DOMAIN db
      BY <1>2, <2>1 DEF IInv, EntryInv, ToppedOK
    <2>3. setKeyPool' = pool \ {first} /\ pool = setKeyPool \cup new
      BY <1>1 DEF pool
    <2>4. \A u \in Reserving : nIndex[u] \in DOMAIN W \ pool
      BY <2>2, <2>3
    <2>5. \A u \in Reserving : nIndex[u] \in DOMAIN db' \ setKeyPool' /\ db'[nIndex[u]] = vchPubKey[u]
      BY <1>4, <1>6, <2>2, <2>3, <2>4
    <2>6. QED  BY <1>6, <2>2, <2>3, <2>5
  <1>10. LastInv'
    <2>1. ASSUME ~encrypted, KeyPoolSize >= 1
          PROVE  ~collision' /\ \A i \in DOMAIN db' : \E j \in setKeyPool' : i <= j
      <3>1. ~collision' /\ \A i \in DOMAIN W : \E j \in pool : i <= j
        BY <1>2, <2>1 DEF ToppedOK, pool
      <3>2. ~locked
        BY <2>1 DEF IInv, LastInv
      <3>3. PICK k \in pool : k # first
        BY <1>3, <1>4, <2>1, <3>2
      <3>4. first \in Nat /\ pool \subseteq Nat /\ first <= k /\ DOMAIN W \subseteq Nat
        BY <1>2, <1>4 DEF ToppedOK, Indices, pool
      <3>5. ASSUME NEW i \in DOMAIN W PROVE \E j \in pool \ {first} : i <= j
        <4>1. PICK j \in pool : i <= j
          BY <3>1
        <4>2. CASE j = first
          BY <3>3, <3>4, <4>1, <4>2
        <4>3. CASE j # first
          BY <4>1, <4>3
        <4>4. QED  BY <4>2, <4>3
      <3>6. QED  BY <1>1, <1>6, <3>1, <3>5
    <2>2. QED  BY <1>5, <2>1 DEF IInv, LastInv
  <1>11. QED  BY <1>8, <1>9, <1>10 DEF IInv

\* CReserveKey::KeepKey.
LEMMA KeepKeyInv == ASSUME IInv, NEW u \in Users, KeepKey(u) PROVE IInv'
  <1>1. /\ u \in Reserving /\ db' = Erased(db, {nIndex[u]}) /\ used' = used \cup {vchPubKey[u]}
        /\ UNCHANGED <<setKeyPool, nextKey, encrypted, locked, collision, old>>
    BY DEF KeepKey, Reserving, history
  <1>2. /\ nIndex' = [nIndex EXCEPT ![u] = -1] /\ vchPubKey' = [vchPubKey EXCEPT ![u] = 0]
        /\ Reserving' = Reserving \ {u}
        /\ \A v \in Reserving' : nIndex'[v] = nIndex[v] /\ vchPubKey'[v] = vchPubKey[v]
    BY DEF KeepKey, Forget, Reserving, IInv, KeyInv, TypeOK
  <1>3. DOMAIN db' = DOMAIN db \ {nIndex[u]} /\ \A i \in DOMAIN db' : db'[i] = db[i]
    BY <1>1 DEF Erased
  <1>4. TypeOK'
    <2>1. IsFiniteSet(DOMAIN db')
      <3>1. IsFiniteSet(DOMAIN db)
        BY DEF IInv, KeyInv, TypeOK
      <3>2. QED  BY <1>3, <3>1, FS_RemoveElement
    <2>2. db' \in [DOMAIN db' -> Nat \ {0}]
      BY <1>1, <1>3 DEF IInv, KeyInv, TypeOK, Erased
    <2>3. used' \subseteq Nat /\ nIndex' \in [Users -> Nat \cup {-1}] /\ vchPubKey' \in [Users -> Nat]
      BY <1>1, <1>2 DEF IInv, KeyInv, TypeOK
    <2>4. QED  BY Zenon, <1>1, <1>3, <2>1, <2>2, <2>3 DEF IInv, KeyInv, TypeOK
  <1>5. KeyInv'
    <2>1. \A i \in DOMAIN db' : db'[i] < nextKey' /\ db'[i] \notin used'
      BY <1>1, <1>3 DEF IInv, KeyInv
    <2>2. \A i, j \in DOMAIN db' : db'[i] = db'[j] => i = j
      BY <1>3 DEF IInv, KeyInv
    <2>3. \A v \in Reserving' : nIndex'[v] \in Indices /\ vchPubKey'[v] < nextKey'
      BY <1>1, <1>2 DEF IInv, KeyInv
    <2>4. \A v \in Reserving', i \in DOMAIN db' : db'[i] = vchPubKey'[v] => i = nIndex'[v]
      BY <1>2, <1>3 DEF IInv, KeyInv
    <2>5. \A k \in used' : k < nextKey'
      BY <1>1 DEF IInv, KeyInv
    <2>6. QED  BY <1>4, <2>1, <2>2, <2>3, <2>4, <2>5 DEF KeyInv
  <1>6. EntryInv'
    <2>1. SUFFICES ASSUME ~collision
                   PROVE  /\ \A v \in Reserving' :
                               nIndex[v] \in DOMAIN db' \ setKeyPool /\ db'[nIndex[v]] = vchPubKey[v]
                          /\ \A v, w \in Reserving' : nIndex[v] = nIndex[w] => v = w
                          /\ setKeyPool \subseteq DOMAIN db'
      BY <1>1, <1>2 DEF EntryInv
    <2>2. /\ \A v \in Reserving : nIndex[v] \in DOMAIN db \ setKeyPool /\ db[nIndex[v]] = vchPubKey[v]
          /\ \A v, w \in Reserving : nIndex[v] = nIndex[w] => v = w
          /\ setKeyPool \subseteq DOMAIN db
      BY <2>1 DEF IInv, EntryInv
    <2>3. QED  BY Zenon, <1>1, <1>2, <1>3, <2>2
  <1>7. LastInv'
    BY <1>1, <1>3 DEF IInv, LastInv
  <1>8. QED  BY <1>5, <1>6, <1>7 DEF IInv

\* CReserveKey::ReturnKey.
LEMMA ReturnKeyInv == ASSUME IInv, NEW u \in Users, ReturnKey(u) PROVE IInv'
  <1>1. /\ u \in Reserving /\ setKeyPool' = setKeyPool \cup {nIndex[u]}
        /\ UNCHANGED <<db, nextKey, used, encrypted, locked, collision, old>>
    BY DEF ReturnKey, Reserving, history
  <1>2. /\ nIndex' = [nIndex EXCEPT ![u] = -1] /\ vchPubKey' = [vchPubKey EXCEPT ![u] = 0]
        /\ Reserving' = Reserving \ {u}
        /\ \A v \in Reserving' : nIndex'[v] = nIndex[v] /\ vchPubKey'[v] = vchPubKey[v]
    BY DEF ReturnKey, Forget, Reserving, IInv, KeyInv, TypeOK
  <1>3. TypeOK'
    <2>1. IsFiniteSet(setKeyPool') /\ setKeyPool' \subseteq Nat \ {0}
      <3>1. IsFiniteSet(setKeyPool) /\ setKeyPool \subseteq Nat \ {0} /\ nIndex[u] \in Nat \ {0}
        BY <1>1 DEF IInv, KeyInv, TypeOK, Indices
      <3>2. IsFiniteSet(setKeyPool \cup {nIndex[u]})
        BY <3>1, FS_AddElement
      <3>3. QED  BY Zenon, <1>1, <3>1, <3>2
    <2>2. nIndex' \in [Users -> Nat \cup {-1}] /\ vchPubKey' \in [Users -> Nat]
      BY <1>2 DEF IInv, KeyInv, TypeOK
    <2>3. QED  BY <1>1, <2>1, <2>2 DEF IInv, KeyInv, TypeOK
  <1>4. KeyInv'
    BY <1>1, <1>2, <1>3 DEF IInv, KeyInv
  <1>5. EntryInv'
    BY <1>1, <1>2 DEF IInv, EntryInv
  <1>6. LastInv'
    BY <1>1 DEF IInv, LastInv
  <1>7. QED  BY <1>4, <1>5, <1>6 DEF IInv

\* EncryptWallet with NewKeyPool.
LEMMA EncryptInv == ASSUME IInv, Encrypt PROVE IInv'
  <1> DEFINE new == 1 .. KeyPoolSize
             kept == Erased(db, setKeyPool)
             W == Written(kept, new)
  <1>1. /\ Generate(kept, new) /\ db' = W /\ setKeyPool' = new
        /\ encrypted' = TRUE /\ locked' = TRUE /\ old' = 1 .. nextKey - 1
        /\ UNCHANGED <<nIndex, vchPubKey, used>> /\ Reserving' = Reserving
    BY DEF Encrypt, userVars, Reserving
  <1>2. DOMAIN kept = DOMAIN db \ setKeyPool /\ \A i \in DOMAIN kept : kept[i] = db[i]
    BY DEF Erased
  <1>3. EntriesOK(kept) /\ nextKey \in Indices
    <2>1. DOMAIN kept \in SUBSET DOMAIN db /\ IsFiniteSet(DOMAIN db)
      BY <1>2 DEF IInv, KeyInv, TypeOK
    <2>2. IsFiniteSet(DOMAIN kept)
      BY <2>1, FS_Subset
    <2> HIDE DEF kept
    <2>3. QED  BY <1>2, <2>2 DEF EntriesOK, IInv, KeyInv, TypeOK, Indices
  <1> HIDE DEF kept
  <1>4. WrittenOK(kept, new)
    <2>1. 1 \in Indices /\ KeyPoolSize \in Int
      BY SizeAssumption DEF Indices
    <2>2. QED  BY <1>3, <2>1, WrittenFacts
  <1>5. IsFiniteSet(new) /\ new \subseteq Indices /\ nextKey' = nextKey + Cardinality(new)
    BY <1>1, FS_Interval, SizeAssumption DEF Indices, Generate
  <1> HIDE DEF new
  <1>6. /\ DOMAIN W = DOMAIN kept \cup new /\ DOMAIN W \subseteq Indices /\ IsFiniteSet(DOMAIN W)
        /\ W \in [DOMAIN W -> Indices] /\ nextKey' \in Indices /\ nextKey <= nextKey'
        /\ \A i \in DOMAIN W : W[i] < nextKey'
        /\ \A i \in new : W[i] >= nextKey
        /\ \A i \in DOMAIN kept \ new : W[i] = db[i]
        /\ \A i, j \in DOMAIN W : W[i] = W[j] => i = j
    BY <1>2, <1>4, <1>5 DEF WrittenOK
  <1> HIDE DEF W
  <1>7. collision' \in BOOLEAN /\ (~collision' => ~collision /\ new \cap DOMAIN kept = {})
    BY Zenon, <1>1 DEF IInv, KeyInv, TypeOK, Generate
  <1>8. TypeOK'
    BY <1>1, <1>3, <1>5, <1>6, <1>7 DEF IInv, KeyInv, TypeOK, Indices
  <1>9. KeyInv'
    <2>1. \A i \in DOMAIN W : W[i] \notin used
      BY <1>2, <1>3, <1>6 DEF IInv, KeyInv, TypeOK, Indices
    <2>2. \A u \in Reserving, i \in DOMAIN W : W[i] = vchPubKey[u] => i = nIndex[u]
      BY <1>2, <1>3, <1>6 DEF IInv, KeyInv, TypeOK, Indices, Reserving
    <2>3. \A u \in Reserving : nIndex[u] \in Indices /\ vchPubKey[u] < nextKey'
      BY <1>3, <1>6 DEF IInv, KeyInv, TypeOK, Indices, Reserving
    <2>4. \A k \in used : k < nextKey'
      BY <1>3, <1>6 DEF IInv, KeyInv, TypeOK, Indices
    <2>5. QED  BY <1>1, <1>6, <1>8, <2>1, <2>2, <2>3, <2>4 DEF KeyInv
  <1>10. EntryInv'
    BY <1>1, <1>2, <1>6, <1>7 DEF IInv, EntryInv
  <1>11. LastInv'
    BY <1>1 DEF LastInv
  <1>12. QED  BY <1>9, <1>10, <1>11 DEF IInv

\* The death of the process and the next load of the wallet.
LEMMA RestartInv == ASSUME IInv, Restart PROVE IInv'
  <1>1. /\ setKeyPool' = DOMAIN db /\ Reserving' = {}
        /\ nIndex' \in [Users -> Nat \cup {-1}] /\ vchPubKey' \in [Users -> Nat]
        /\ locked' = encrypted /\ collision' = FALSE
        /\ UNCHANGED <<db, nextKey, used, encrypted, old>>
    BY DEF Restart, Reserving
  <1>2. KeyInv'
    BY Zenon, <1>1 DEF IInv, KeyInv, TypeOK
  <1>3. EntryInv'
    BY <1>1 DEF EntryInv
  <1>4. LastInv'
    BY <1>1 DEF IInv, KeyInv, TypeOK, LastInv
  <1>5. QED  BY <1>2, <1>3, <1>4 DEF IInv

\* Locking and unlocking change nothing the invariant speaks of.
LEMMA SameInv ==
    ASSUME IInv, UNCHANGED <<setKeyPool, db, nextKey, nIndex, vchPubKey, used, encrypted, collision, old>>,
           locked' \in BOOLEAN, locked' => encrypted
    PROVE  IInv'
  BY DEF IInv, KeyInv, TypeOK, EntryInv, LastInv, Reserving

--------------------------------------------------------------------------------
(* The theorems *)

\* The invariant holds at the start.
LEMMA InitInv == Init => IInv
  <1> SUFFICES ASSUME Init PROVE IInv
    OBVIOUS
  <1>1. DOMAIN db = {} /\ setKeyPool = {} /\ Reserving = {} /\ used = {}
    BY DEF Init, Reserving
  <1>2. TypeOK
    <2>1. db \in [DOMAIN db -> Nat \ {0}]
      BY DEF Init
    <2>2. IsFiniteSet(setKeyPool) /\ IsFiniteSet(DOMAIN db)
      BY <1>1, FS_EmptySet
    <2>3. nextKey \in Nat \ {0} /\ used \subseteq Nat /\ old \subseteq Nat
      BY DEF Init
    <2>4. nIndex \in [Users -> Nat \cup {-1}] /\ vchPubKey \in [Users -> Nat]
      BY DEF Init
    <2>5. encrypted \in BOOLEAN /\ locked \in BOOLEAN /\ collision \in BOOLEAN
      BY Zenon DEF Init
    <2>6. QED  BY <1>1, <2>1, <2>2, <2>3, <2>4, <2>5 DEF TypeOK
  <1>3. QED  BY <1>1, <1>2 DEF Init, IInv, KeyInv, EntryInv, LastInv

\* Every step keeps the invariant.
LEMMA StepInv == IInv /\ [Next]_vars => IInv'
  <1> SUFFICES ASSUME IInv, [Next]_vars PROVE IInv'
    OBVIOUS
  <1>1. CASE Lock \/ Unlock \/ UNCHANGED vars
    <2>1. UNCHANGED <<setKeyPool, db, nextKey, nIndex, vchPubKey, used, encrypted, collision, old>>
      BY <1>1 DEF Lock, Unlock, vars, userVars, history
    <2>2. locked' \in BOOLEAN /\ (locked' => encrypted)
      <3>1. locked \in BOOLEAN /\ (locked => encrypted)
        BY DEF IInv, KeyInv, TypeOK, LastInv
      <3>2. CASE Lock
        BY <3>2 DEF Lock
      <3>3. CASE Unlock
        BY Zenon, <3>3 DEF Unlock
      <3>4. CASE UNCHANGED vars
        BY <3>1, <3>4 DEF vars
      <3>5. QED  BY <1>1, <3>2, <3>3, <3>4
    <2>3. QED  BY <2>1, <2>2, SameInv
  <1>2. ASSUME NEW size \in Refills \cup {KeyPoolSize}, TopUp(size) PROVE IInv'
    BY <1>2, TopUpInv, SizeAssumption
  <1>3. ASSUME NEW u \in Users, Reserve(u) \/ KeepKey(u) \/ ReturnKey(u) PROVE IInv'
    BY <1>3, ReserveInv, KeepKeyInv, ReturnKeyInv
  <1>4. CASE Take \/ Encrypt \/ Restart
    BY <1>4, TakeInv, EncryptInv, RestartInv
  <1>5. QED  BY <1>1, <1>2, <1>3, <1>4 DEF Next

(* The invariant holds in every reachable state.                                   *)
THEOREM Invariance == Spec => []IInv
  BY InitInv, StepInv, PTL DEF Spec

(* For every -keypool from 1 on, TopUpKeyPool never overwrites an entry in a       *)
(* wallet that was never encrypted.                                               *)
THEOREM EntriesSafe == Spec => []EntriesKept
  <1>1. IInv => EntriesKept
    BY DEF IInv, LastInv, EntriesKept
  <1>2. QED  BY <1>1, Invariance, PTL

(* While no entry was overwritten no two users share a key and none has a key that *)
(* was kept, for any number of users and any interleaving of their calls.          *)
THEOREM UsersSafe == Spec => []SingleUser
  <1>1. IInv => SingleUser
    BY DEF IInv, KeyInv, EntryInv, SingleUser
  <1>2. QED  BY <1>1, Invariance, PTL

(* A key that was kept is never in the pool again, after any crash.                *)
THEOREM UsedSafe == Spec => []UsedNeverPooled
  <1>1. IInv => UsedNeverPooled
    BY DEF IInv, KeyInv, UsedNeverPooled
  <1>2. QED  BY <1>1, Invariance, PTL
================================================================================
