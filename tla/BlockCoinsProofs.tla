--------------------------- MODULE BlockCoinsProofs ---------------------------
(***************************************************************************)
(* Connecting and undoing blocks keeps the coin set equal to that of the     *)
(* chain, for every tree of blocks, every set of transactions, and any       *)
(* order of connecting, rejecting, disconnecting, flushing and crashing.     *)
(*                                                                         *)
(* The argument: at every step of ConnectBlock and of DisconnectBlock the    *)
(* view is the coin set of the parent with a part of the block applied       *)
(* (Part), the same on the way down as on the way up, because the undo data  *)
(* of a block are those that its inputs left (UndoOf).                       *)
(*                                                                         *)
(* The coins are worth no more than the subsidies of the chain: while a block  *)
(* connects, its fees and its coinbase account for the difference (Balance).  *)
(***************************************************************************)
EXTENDS BlockCoins, FiniteSetTheorems, WellFoundedInduction, TLAPS

\* The leaves below are for Zenon, and those that say so for SMT.
USE Zenon

-------------------------------------------------------------------------------
(* Sums over finite sets, as the community modules define them *)

LEMMA LeastNat == ASSUME NEW S, S \subseteq Nat, S # {} PROVE \E i \in S : \A j \in S : i <= j
  <1>1. PICK i \in S : \A j \in S : ~(<<j, i>> \in OpToRel(<, Nat))
    BY NatLessThanWellFounded, WFMin
  <1>2. \A j \in S : ~(j < i)
    BY <1>1 DEF OpToRel
  <1>3. QED  BY SMT, <1>2

\* The sum of the community modules goes through the elements in the order that CHOOSE picks
\* them.  It is 0 for no element, an element more than that of some rest, and depends on the
\* values of the elements only.
LEMMA SumFacts ==
    ASSUME NEW w, NEW U, IsFiniteSet(U)
    PROVE  /\ U = {} => SumFunctionOnSet(w, U) = 0
           /\ U # {} => \E x \in U : SumFunctionOnSet(w, U) = w[x] + SumFunctionOnSet(w, U \ {x})
           /\ \A g : (\A x \in U : w[x] = g[x]) => SumFunctionOnSet(w, U) = SumFunctionOnSet(g, U)
  <1> DEFINE Pick(s) == CHOOSE x \in s : TRUE
             Rest(s) == s \ {Pick(s)}
             Turn(h, g, s) == IF s = {} THEN 0 ELSE h[Pick(s)] + g[Rest(s)]
             Iter(h, T) == CHOOSE g : g = [s \in SUBSET T |-> Turn(h, g, s)]
  <1> HIDE DEF Pick, Rest, Turn, Iter
  <1>1. ASSUME NEW f, NEW S PROVE SumFunctionOnSet(f, S) = Iter(f, S)[S]
    BY DEF SumFunctionOnSet, FoldFunctionOnSet, MapThenFoldSet, Iter, Turn, Pick, Rest
  <1>2. ASSUME NEW s, s # {}, IsFiniteSet(s)
        PROVE  /\ Pick(s) \in s /\ Rest(s) \subseteq s /\ IsFiniteSet(Rest(s))
               /\ Cardinality(s) \in Nat /\ Cardinality(Rest(s)) \in Nat
               /\ Cardinality(Rest(s)) = Cardinality(s) - 1
    <2> USE <1>2
    <2>1. Pick(s) \in s
      BY DEF Pick
    <2>2. Rest(s) \subseteq s
      BY DEF Rest
    <2>3. IsFiniteSet(Rest(s)) /\ Cardinality(Rest(s)) = Cardinality(s) - 1
      BY <2>1, FS_RemoveElement DEF Rest
    <2>4. Cardinality(s) \in Nat /\ Cardinality(Rest(s)) \in Nat
      BY <2>3, FS_CardinalityType
    <2>5. QED  BY <2>1, <2>2, <2>3, <2>4
  <1>3. ASSUME NEW f, NEW S, IsFiniteSet(S)
        PROVE  \E g : g = [s \in SUBSET S |-> Turn(f, g, s)]
    <2> USE <1>3
    <2> DEFINE D(n) == {s \in SUBSET S : Cardinality(s) <= n}
               Claim(n) == \E g : \A s \in D(n) : g[s] = Turn(f, g, s)
               Bad == {n \in Nat : ~Claim(n)}
    <2>0. \A s \in SUBSET S : /\ IsFiniteSet(s) /\ Cardinality(s) \in Nat
                              /\ Cardinality(s) <= Cardinality(S)
      BY FS_Subset, FS_CardinalityType
    <2>1. \A n \in Nat : Claim(n)
      <3>1. SUFFICES ASSUME Bad # {} PROVE FALSE
        OBVIOUS
      <3>2. PICK n \in Bad : \A m \in Bad : n <= m
        <4> HIDE DEF Claim
        <4>1. QED  BY <3>1, LeastNat
      <3>3. CASE n = 0
        <4> DEFINE g == [s \in D(0) |-> 0]
        <4>1. ASSUME NEW s \in D(0) PROVE g[s] = Turn(f, g, s)
          <5>1. s = {}
            <6>1. Cardinality(s) = 0 /\ IsFiniteSet(s)
              BY SMT, <2>0, <4>1
            <6>2. QED  BY <6>1, FS_EmptySet
          <5>2. QED  BY <4>1, <5>1 DEF Turn
        <4>2. Claim(0)
          BY <4>1
        <4>3. QED  BY <3>2, <3>3, <4>2
      <3>4. CASE n # 0
        <4>1. n \in Nat /\ n - 1 \in Nat /\ ~(n <= n - 1)
          <5>1. n \in Nat
            BY <3>2
          <5>2. QED  BY SMT, <5>1, <3>4
        <4>2. Claim(n - 1)
          BY <3>2, <4>1
        <4>3. PICK g : \A s \in D(n - 1) : g[s] = Turn(f, g, s)
          BY <4>2
        <4> DEFINE h == [s \in D(n) |-> Turn(f, g, s)]
        <4>4. ASSUME NEW s \in D(n) PROVE h[s] = Turn(f, h, s)
          <5>1. h[s] = Turn(f, g, s)
            OBVIOUS
          <5>2. CASE s = {}
            BY <5>1, <5>2 DEF Turn
          <5>3. CASE s # {}
            <6>1. Rest(s) \in SUBSET S /\ Cardinality(Rest(s)) <= n - 1
              <7>1. /\ Rest(s) \subseteq s /\ Cardinality(Rest(s)) = Cardinality(s) - 1
                    /\ Cardinality(s) \in Nat
                BY <5>3, <2>0, <1>2
              <7>2. Cardinality(s) <= n
                OBVIOUS
              <7>3. QED  BY SMT, <7>1, <7>2, <4>1
            <6>2. Cardinality(Rest(s)) <= n
              <7>1. Cardinality(Rest(s)) \in Nat
                BY <6>1, <2>0
              <7>2. QED  BY SMT, <6>1, <7>1, <4>1
            <6>3. Rest(s) \in D(n - 1) /\ Rest(s) \in D(n)
              BY <6>1, <6>2
            <6>4. h[Rest(s)] = Turn(f, g, Rest(s)) /\ g[Rest(s)] = Turn(f, g, Rest(s))
              BY <6>3, <4>3
            <6>5. QED  BY <5>1, <5>3, <6>4 DEF Turn
          <5>4. QED  BY <5>2, <5>3
        <4>5. Claim(n)
          BY <4>4
        <4>6. QED  BY <3>2, <4>5
      <3>5. QED  BY <3>3, <3>4
    <2>2. PICK g : \A s \in D(Cardinality(S)) : g[s] = Turn(f, g, s)
      <3>1. Cardinality(S) \in Nat
        BY <2>0
      <3>2. QED  BY <2>1, <3>1
    <2> DEFINE h == [s \in SUBSET S |-> g[s]]
    <2>3. \A s \in SUBSET S : h[s] = Turn(f, h, s)
      <3> TAKE s \in SUBSET S
      <3>1. h[s] = Turn(f, g, s)
        BY <2>0, <2>2
      <3>2. CASE s = {}
        BY <3>1, <3>2 DEF Turn
      <3>3. CASE s # {}
        <4>1. Rest(s) \in SUBSET S
          BY DEF Rest
        <4>2. QED  BY <3>1, <3>3, <4>1 DEF Turn
      <3>4. QED  BY <3>2, <3>3
    <2>4. h = [s \in SUBSET S |-> Turn(f, h, s)]
      BY <2>3
    <2>5. QED  BY <2>4
  <1>4. ASSUME NEW f, NEW S, IsFiniteSet(S)
        PROVE  \A s \in SUBSET S : Iter(f, S)[s] = Turn(f, Iter(f, S), s)
    <2> USE <1>4
    <2>1. Iter(f, S) = [s \in SUBSET S |-> Turn(f, Iter(f, S), s)]
      BY <1>3 DEF Iter
    <2> HIDE DEF Iter
    <2>2. QED  BY <2>1
  <1>5. ASSUME NEW f, NEW g, NEW S, NEW T, IsFiniteSet(S), IsFiniteSet(T),
               NEW R, R \subseteq S, R \subseteq T, \A x \in R : f[x] = g[x]
        PROVE  Iter(f, S)[R] = Iter(g, T)[R]
    <2> USE <1>5
    <2> DEFINE Odd == {s \in SUBSET R : Iter(f, S)[s] # Iter(g, T)[s]}
               Size == {Cardinality(s) : s \in Odd}
    <2>1. SUFFICES ASSUME Odd # {} PROVE FALSE
      OBVIOUS
    <2>2. \A s \in SUBSET R :
             s \in SUBSET S /\ s \in SUBSET T /\ IsFiniteSet(s) /\ Cardinality(s) \in Nat
      BY FS_Subset, FS_CardinalityType
    <2>3. Size \subseteq Nat /\ Size # {}
      BY SMT, <2>1, <2>2
    <2>4. PICK k \in Size : \A m \in Size : k <= m
      BY <2>3, LeastNat
    <2>5. PICK s \in Odd : k = Cardinality(s)
      BY <2>4
    <2>6. /\ Iter(f, S)[s] = Turn(f, Iter(f, S), s) /\ Iter(g, T)[s] = Turn(g, Iter(g, T), s)
          /\ Iter(f, S)[s] # Iter(g, T)[s] /\ \A x \in s : f[x] = g[x]
      <3>1. s \in SUBSET S /\ s \in SUBSET T /\ s \in SUBSET R
        BY <2>2
      <3>2. Iter(f, S)[s] = Turn(f, Iter(f, S), s)
        BY <3>1, <1>4
      <3>3. Iter(g, T)[s] = Turn(g, Iter(g, T), s)
        BY <3>1, <1>4
      <3>4. QED  BY <3>1, <3>2, <3>3
    <2>7. s # {}
      BY <2>6 DEF Turn
    <2>8. /\ Pick(s) \in s /\ Rest(s) \subseteq s
          /\ Cardinality(Rest(s)) = Cardinality(s) - 1 /\ Cardinality(s) \in Nat
      BY <2>2, <2>5, <2>7, <1>2
    <2>9. Iter(f, S)[Rest(s)] # Iter(g, T)[Rest(s)]
      BY <2>6, <2>7, <2>8 DEF Turn
    <2>10. Rest(s) \in Odd
      <3>1. Rest(s) \in SUBSET R
        BY <2>5, <2>8
      <3>2. QED  BY <2>6, <2>8, <2>9, <3>1
    <2>11. k <= Cardinality(s) - 1
      BY <2>4, <2>8, <2>10
    <2>12. QED  BY SMT, <2>5, <2>8, <2>11
  <1>6. U = {} => SumFunctionOnSet(w, U) = 0
    <2>1. SUFFICES ASSUME U = {} PROVE SumFunctionOnSet(w, U) = 0
      OBVIOUS
    <2>2. Iter(w, U)[U] = Turn(w, Iter(w, U), U)
      BY <1>4
    <2>3. QED  BY <1>1, <2>1, <2>2 DEF Turn
  <1>7. U # {} => \E x \in U : SumFunctionOnSet(w, U) = w[x] + SumFunctionOnSet(w, U \ {x})
    <2>1. SUFFICES ASSUME U # {}
                   PROVE  SumFunctionOnSet(w, U) = w[Pick(U)] + SumFunctionOnSet(w, U \ {Pick(U)})
      BY <1>2
    <2>2. Rest(U) \subseteq U /\ IsFiniteSet(Rest(U))
      BY <1>2, <2>1
    <2>3. Iter(w, U)[U] = w[Pick(U)] + Iter(w, U)[Rest(U)]
      <3>1. Iter(w, U)[U] = Turn(w, Iter(w, U), U)
        BY <1>4
      <3>2. QED  BY <2>1, <3>1 DEF Turn
    <2>4. Iter(w, U)[Rest(U)] = Iter(w, Rest(U))[Rest(U)]
      BY SMT, <1>5, <2>2
    <2>5. QED  BY <1>1, <2>3, <2>4 DEF Rest
  <1>8. ASSUME NEW g, \A x \in U : w[x] = g[x]
        PROVE  SumFunctionOnSet(w, U) = SumFunctionOnSet(g, U)
    <2>1. Iter(w, U)[U] = Iter(g, U)[U]
      BY SMT, <1>5, <1>8
    <2>2. QED  BY <1>1, <2>1
  <1>9. QED  BY <1>6, <1>7, <1>8

LEMMA SumEmpty == ASSUME NEW f PROVE SumFunctionOnSet(f, {}) = 0
  BY FS_EmptySet, SumFacts

LEMMA SumSame ==
    ASSUME NEW f, NEW g, NEW S, IsFiniteSet(S), \A x \in S : f[x] = g[x]
    PROVE  SumFunctionOnSet(f, S) = SumFunctionOnSet(g, S)
  BY SumFacts

Summable(f, S) == IsFiniteSet(S) /\ \A x \in S : f[x] \in Int

LEMMA SumInt ==
    ASSUME NEW f, NEW S, Summable(f, S)
    PROVE  SumFunctionOnSet(f, S) \in Int
  <1> DEFINE Odd == {s \in SUBSET S : SumFunctionOnSet(f, s) \notin Int}
             Size == {Cardinality(s) : s \in Odd}
  <1>1. SUFFICES ASSUME Odd # {} PROVE FALSE
    OBVIOUS
  <1>2. \A s \in SUBSET S : IsFiniteSet(s) /\ Cardinality(s) \in Nat
    BY FS_Subset, FS_CardinalityType DEF Summable
  <1>3. Size \subseteq Nat /\ Size # {}
    BY SMT, <1>1, <1>2
  <1>4. PICK k \in Size : \A m \in Size : k <= m
    BY <1>3, LeastNat
  <1>5. PICK s \in Odd : k = Cardinality(s)
    BY <1>4
  <1>6. s # {}
    <2>1. SumFunctionOnSet(f, {}) \in Int
      BY SMT, SumEmpty
    <2>2. QED  BY <1>5, <2>1
  <1>7. PICK x \in s : SumFunctionOnSet(f, s) = f[x] + SumFunctionOnSet(f, s \ {x})
    BY <1>2, <1>5, <1>6, SumFacts
  <1>8. s \ {x} \in Odd
    <2>1. /\ SumFunctionOnSet(f, s) \notin Int /\ s \ {x} \in SUBSET S /\ f[x] \in Int
      BY <1>5, <1>7 DEF Summable
    <2>2. SumFunctionOnSet(f, s \ {x}) \notin Int
      BY SMT, <1>7, <2>1
    <2>3. QED  BY <2>1, <2>2
  <1>9. Cardinality(s \ {x}) = Cardinality(s) - 1 /\ Cardinality(s) \in Nat
    BY <1>2, <1>5, <1>7, FS_RemoveElement
  <1>10. k <= Cardinality(s) - 1
    BY <1>4, <1>8, <1>9
  <1>11. QED  BY SMT, <1>5, <1>9, <1>10

\* Any element may be taken out first.
LEMMA SumRemove ==
    ASSUME NEW f, NEW S, Summable(f, S), NEW a \in S
    PROVE  SumFunctionOnSet(f, S) = f[a] + SumFunctionOnSet(f, S \ {a})
  <1> DEFINE Fine(s) == \A x \in s : SumFunctionOnSet(f, s) = f[x] + SumFunctionOnSet(f, s \ {x})
             Odd == {s \in SUBSET S : ~Fine(s)}
             Size == {Cardinality(s) : s \in Odd}
  <1>1. SUFFICES ASSUME Odd # {} PROVE FALSE
    OBVIOUS
  <1>2. \A s \in SUBSET S : IsFiniteSet(s) /\ Cardinality(s) \in Nat /\ Summable(f, s)
    BY FS_Subset, FS_CardinalityType DEF Summable
  <1>3. Size \subseteq Nat /\ Size # {}
    BY <1>1, <1>2
  <1>4. PICK k \in Size : \A m \in Size : k <= m
    BY <1>3, LeastNat
  <1>5. PICK s \in Odd : k = Cardinality(s)
    BY <1>4
  <1>6. PICK x \in s : SumFunctionOnSet(f, s) # f[x] + SumFunctionOnSet(f, s \ {x})
    BY <1>5
  <1>7. PICK y \in s : SumFunctionOnSet(f, s) = f[y] + SumFunctionOnSet(f, s \ {y})
    <2>1. s # {} /\ IsFiniteSet(s)
      BY <1>2, <1>5, <1>6
    <2>2. QED  BY <2>1, SumFacts
  <1>8. x # y
    BY <1>6, <1>7
  <1>9. ASSUME NEW z \in s PROVE Fine(s \ {z})
    <2>1. /\ s \ {z} \in SUBSET S /\ Cardinality(s) \in Nat
          /\ Cardinality(s \ {z}) = Cardinality(s) - 1
      BY <1>2, <1>5, FS_RemoveElement
    <2>2. ~(k <= Cardinality(s \ {z}))
      BY SMT, <1>5, <2>1
    <2>3. s \ {z} \notin Odd
      BY <1>4, <2>2
    <2>4. QED  BY <2>1, <2>3
  <1>10. /\ SumFunctionOnSet(f, s \ {y}) = f[x] + SumFunctionOnSet(f, (s \ {y}) \ {x})
         /\ SumFunctionOnSet(f, s \ {x}) = f[y] + SumFunctionOnSet(f, (s \ {x}) \ {y})
    <2>1. x \in s \ {y} /\ y \in s \ {x}
      BY <1>6, <1>7, <1>8
    <2>2. Fine(s \ {y}) /\ Fine(s \ {x})
      BY <1>6, <1>7, <1>9
    <2>3. QED  BY <2>1, <2>2
  <1>11. (s \ {y}) \ {x} = (s \ {x}) \ {y}
    BY SMT
  <1>12. f[x] \in Int /\ f[y] \in Int /\ SumFunctionOnSet(f, (s \ {x}) \ {y}) \in Int
    <2>1. x \in S /\ y \in S /\ (s \ {x}) \ {y} \in SUBSET S
      BY <1>5, <1>6, <1>7
    <2>2. SumFunctionOnSet(f, (s \ {x}) \ {y}) \in Int
      BY <1>2, <2>1, SumInt
    <2>3. QED  BY <2>1, <2>2 DEF Summable
  <1> DEFINE r == SumFunctionOnSet(f, (s \ {x}) \ {y})
  <1>13. SumFunctionOnSet(f, s) = f[y] + (f[x] + r) /\ SumFunctionOnSet(f, s \ {x}) = f[y] + r
    BY <1>7, <1>10, <1>11
  <1> HIDE DEF r
  <1>14. f[y] + (f[x] + r) = f[x] + (f[y] + r)
    BY SMT, <1>12 DEF r
  <1>15. QED  BY <1>6, <1>13, <1>14

\* The sum of a part of natural numbers is at most that of all.
LEMMA SumPart ==
    ASSUME NEW f, NEW S, Summable(f, S), \A x \in S : f[x] >= 0, NEW T, T \subseteq S
    PROVE  SumFunctionOnSet(f, T) <= SumFunctionOnSet(f, S)
  <1> DEFINE Odd == {s \in SUBSET S :
                        T \subseteq s /\ ~(SumFunctionOnSet(f, T) <= SumFunctionOnSet(f, s))}
             Size == {Cardinality(s) : s \in Odd}
  <1>1. SUFFICES ASSUME Odd # {} PROVE FALSE
    OBVIOUS
  <1>2. \A s \in SUBSET S : /\ IsFiniteSet(s) /\ Cardinality(s) \in Nat
                            /\ Summable(f, s)
    BY FS_Subset, FS_CardinalityType DEF Summable
  <1>3. Size \subseteq Nat /\ Size # {}
    BY <1>1, <1>2
  <1>4. PICK k \in Size : \A m \in Size : k <= m
    BY <1>3, LeastNat
  <1>5. PICK s \in Odd : k = Cardinality(s)
    BY <1>4
  <1>6. SumFunctionOnSet(f, T) \in Int
    BY <1>2, SumInt
  <1>7. s # T
    <2>1. SumFunctionOnSet(f, T) <= SumFunctionOnSet(f, T)
      BY SMT, <1>6
    <2>2. QED  BY <1>5, <2>1
  <1>8. PICK x \in s : x \notin T
    BY <1>5, <1>7
  <1>9. /\ SumFunctionOnSet(f, s) = f[x] + SumFunctionOnSet(f, s \ {x})
        /\ f[x] \in Int /\ f[x] >= 0
        /\ SumFunctionOnSet(f, s \ {x}) \in Int
    <2>1. s \in SUBSET S /\ s \ {x} \in SUBSET S
      BY <1>5
    <2>2. SumFunctionOnSet(f, s) = f[x] + SumFunctionOnSet(f, s \ {x})
      BY SMT, <1>2, <2>1, SumRemove
    <2>3. SumFunctionOnSet(f, s \ {x}) \in Int
      BY <1>2, <2>1, SumInt
    <2>4. QED  BY <2>1, <2>2, <2>3 DEF Summable
  <1>10. s \ {x} \in Odd
    <2>1. ~(SumFunctionOnSet(f, T) <= SumFunctionOnSet(f, s))
      BY <1>5
    <2>2. ~(SumFunctionOnSet(f, T) <= SumFunctionOnSet(f, s \ {x}))
      BY SMT, <1>6, <1>9, <2>1
    <2>3. s \ {x} \in SUBSET S /\ T \subseteq s \ {x}
      BY <1>5, <1>8
    <2>4. QED  BY <2>2, <2>3
  <1>11. Cardinality(s \ {x}) = Cardinality(s) - 1 /\ Cardinality(s) \in Nat
    BY <1>2, <1>5, <1>8, FS_RemoveElement
  <1>12. k <= Cardinality(s \ {x})
    BY <1>4, <1>10
  <1>13. QED  BY SMT, <1>5, <1>11, <1>12

-------------------------------------------------------------------------------
(* The part of a block that comes before input j of its transaction i *)

MadeBefore(b, i, t) == \E k \in DOMAIN Vtx[b] : k < i /\ Vtx[b][k] = t

SpentUpTo(b, i, j, t, n) ==
    \E k \in DOMAIN Vtx[b] : \E m \in DOMAIN Ins[Vtx[b][k]] :
        (k < i \/ (k = i /\ m <= j)) /\ Ins[Vtx[b][k]][m] = <<t, n>>

Origin(b, i, t) ==
    IF MadeBefore(b, i, t) THEN FromTx(t, Height(b)) ELSE CoinsAt[Parent[b]][t]

Part(b, i, j) ==
    [t \in Txids |->
        Normal([Origin(b, i, t) EXCEPT !.vout = {n \in @ : ~SpentUpTo(b, i, j, t, n)}])]

\* What ConnectBlock has checked when it comes to input j of transaction i.
Checked(b, i, j) ==
    /\ i > 1 \/ j > 0 => /\ CheckBlock(b)
                         /\ \A k \in DOMAIN Vtx[b] : IsPruned(CoinsAt[Parent[b]][Vtx[b][k]])
    /\ \A k \in DOMAIN Vtx[b] :
          k < i \/ (k = i /\ j > 0) => HaveInputs(Part(b, k, 0), Vtx[b][k])

\* The undo data of input m of transaction k, and of the transactions up to number k.
UndoOfInput(b, k, m) ==
    LET p == Ins[Vtx[b][k]][m]
        c == Part(b, k, m - 1)[p[1]]
    IN  TxInUndo(c, c.vout \ {p[2]})

UndoOfTx(b, k, j) == [m \in 1..j |-> UndoOfInput(b, k, m)]

UndoOf(b, k) == [l \in 1..(k - 1) |-> UndoOfTx(b, l + 1, Len(Ins[Vtx[b][l + 1]]))]

-------------------------------------------------------------------------------
(* The inductive invariant *)

Position(b, i, j) ==
    /\ j \in Nat
    /\ IF i \in DOMAIN Vtx[b] THEN j <= Len(Ins[Vtx[b][i]]) ELSE j = 0

MapType == [coins : [Txids -> CoinType], best : Blocks]

TypeInv ==
    /\ disk \in MapType /\ tip \in MapType /\ view \in MapType
    /\ open \in BOOLEAN /\ (open <=> job.kind # "idle")
    /\ ~open => view = tip
    /\ DOMAIN job = DOMAIN Idle /\ job.clean = TRUE
    /\ job.kind \in {"idle", "connect", "disconnect", "flush"}
    /\ DOMAIN undo = Blocks

\* A part of job.block has been applied.
ConnectInv ==
    job.kind = "connect" =>
        /\ job.block \in Blocks \ {Genesis} /\ Parent[job.block] = tip.best
        /\ job.i \in 1..(Len(Vtx[job.block]) + 1) /\ Position(job.block, job.i, job.j)
        /\ Checked(job.block, job.i, job.j)
        /\ view.coins = Part(job.block, job.i, job.j)
        /\ job.txundo = UndoOfTx(job.block, job.i, job.j)
        /\ job.blockundo = UndoOf(job.block, job.i - 1)

\* A part of job.block is left: its transactions up to number i with j = 0, and without the
\* outputs of the last and with its first j inputs otherwise.
DisconnectInv ==
    job.kind = "disconnect" =>
        /\ job.block = tip.best /\ tip.best # Genesis /\ undo[tip.best] # NoUndo
        /\ job.i \in 0..Len(Vtx[job.block]) /\ Position(job.block, job.i, job.j)
        /\ view.coins = IF job.j = 0 THEN Part(job.block, job.i + 1, 0)
                                     ELSE Part(job.block, job.i, job.j)

\* A block with undo data was connected once, and they are what its inputs left.
UndoInv ==
    \A b \in Blocks : undo[b] # NoUndo =>
        /\ b # Genesis
        /\ Checked(b, Len(Vtx[b]) + 1, 0)
        /\ undo[b] = UndoOf(b, Len(Vtx[b]))

\* m is the coin set of its best block, which can be undone down to Genesis with undo data
\* for the blocks in have.
Sound(m, have) == m.coins = CoinsAt[m.best] /\ Chain[m.best] \ {Genesis} \subseteq have

IInv ==
    /\ TypeInv
    /\ ConnectInv
    /\ DisconnectInv
    /\ UndoInv
    /\ Sound(tip, Indexed)
    /\ Sound(disk, dUndo) /\ dUndo \subseteq Indexed
    /\ job.kind = "flush" => Sound(view, Indexed)

-------------------------------------------------------------------------------
(* The chain of a block *)

LEMMA HeightFacts ==
    ASSUME NEW b \in Blocks
    PROVE  /\ b \in Chain[b] /\ Chain[b] \subseteq Blocks
           /\ Height(b) \in Nat
           /\ b # Genesis => Parent[b] \in Blocks /\ Height(b) = Height(Parent[b]) + 1
           /\ b # Genesis => Chain[b] \ {b} = Chain[Parent[b]] /\ Height(b) > 0
  <1>0. \A c \in Blocks \ {Genesis} :
           Parent[c] \in Blocks /\ Chain[c] = {c} \cup Chain[Parent[c]] /\ c \notin Chain[Parent[c]]
    <2>1. \A c \in Blocks \ {Genesis} : Parent[c] \in Blocks
      BY BlockAssumption
    <2>2. QED  BY <2>1, TreeAssumption
  <1>1. \A c \in Blocks : c \in Chain[c] /\ Chain[c] \subseteq Blocks /\ IsFiniteSet(Chain[c])
    <2>1. \A c \in Blocks : c \in Chain[c]
      <3>1. Genesis \in Chain[Genesis]
        BY TreeAssumption
      <3>2. QED  BY SMT, <1>0, <3>1
    <2>2. \A c \in Blocks : Chain[c] \subseteq Blocks
      BY TreeAssumption
    <2>3. QED  BY <2>1, <2>2, TreeAssumption
  <1>2. \A c \in Blocks : Cardinality(Chain[c]) \in Nat /\ Cardinality(Chain[c]) # 0
    BY <1>1, FS_CardinalityType, FS_EmptySet
  <1>3. \A c \in Blocks : Height(c) \in Nat
    BY SMT, <1>2 DEF Height
  <1>4. CASE b = Genesis
    BY <1>1, <1>3, <1>4
  <1>5. CASE b # Genesis
    <2>1. /\ Parent[b] \in Blocks /\ Chain[b] = Chain[Parent[b]] \cup {b}
          /\ b \notin Chain[Parent[b]] /\ Chain[b] \ {b} = Chain[Parent[b]]
      BY SMT, <1>0, <1>5
    <2>2. Cardinality(Chain[b]) = Cardinality(Chain[Parent[b]]) + 1
      BY <1>1, <2>1, FS_AddElement
    <2>3. QED  BY SMT, <1>1, <1>2, <1>3, <2>1, <2>2 DEF Height
  <1>6. QED  BY <1>4, <1>5

\* The chain of a block contains the chains of its blocks.
LEMMA ChainTransitive ==
    ASSUME NEW b \in Blocks, NEW c \in Chain[b]
    PROVE  Chain[c] \subseteq Chain[b]
  <1> DEFINE Odd == {a \in Blocks : \E d \in Chain[a] : ~(Chain[d] \subseteq Chain[a])}
             H == {Height(a) : a \in Odd}
  <1>1. SUFFICES ASSUME Odd # {} PROVE FALSE
    BY SMT
  <1>2. H \subseteq Nat /\ H # {}
    <2>1. \A a \in Odd : Height(a) \in Nat
      BY HeightFacts
    <2>2. QED  BY <1>1, <2>1
  <1>3. PICK h \in H : \A g \in H : h <= g
    BY <1>2, LeastNat
  <1>4. PICK a \in Odd : h = Height(a)
    BY <1>3
  <1>5. PICK d \in Chain[a] : ~(Chain[d] \subseteq Chain[a])
    BY <1>4
  <1>6. a # Genesis /\ d # a
    BY <1>5, TreeAssumption
  <1>7. d \in Chain[Parent[a]] /\ Parent[a] \in Blocks /\ Chain[Parent[a]] \subseteq Chain[a]
    BY <1>4, <1>5, <1>6, HeightFacts
  <1>8. Parent[a] \in Odd
    BY <1>5, <1>7
  <1>9. Height(Parent[a]) < Height(a) /\ Height(Parent[a]) \in Nat
    BY SMT, <1>4, <1>6, <1>7, HeightFacts
  <1>10. QED  BY SMT, <1>2, <1>3, <1>4, <1>8, <1>9

\* The block itself is the highest of its chain.
LEMMA Highest ==
    ASSUME NEW b \in Blocks, NEW c \in Chain[b]
    PROVE  c \in Blocks /\ Height(c) <= Height(b) /\ (c # b => Height(c) < Height(b))
  <1>1. c \in Blocks /\ Height(c) \in Nat /\ Height(b) \in Nat
    BY HeightFacts
  <1>2. \A a \in Blocks : c \in Chain[a] => Height(c) <= Height(a)
    <2> TAKE a \in Blocks
    <2> HAVE c \in Chain[a]
    <2>1. Chain[c] \subseteq Chain[a] /\ IsFiniteSet(Chain[a])
      BY ChainTransitive, TreeAssumption
    <2>2. Cardinality(Chain[c]) <= Cardinality(Chain[a])
      BY <2>1, FS_Subset
    <2>3. Cardinality(Chain[c]) \in Nat /\ Cardinality(Chain[a]) \in Nat
      BY <1>1, TreeAssumption, FS_CardinalityType
    <2>4. QED  BY SMT, <2>2, <2>3 DEF Height
  <1>3. ASSUME c # b PROVE Height(c) < Height(b)
    <2>1. b # Genesis
      BY <1>3, TreeAssumption
    <2>2. c \in Chain[Parent[b]] /\ Parent[b] \in Blocks /\ Height(b) = Height(Parent[b]) + 1
      BY <1>3, <2>1, HeightFacts
    <2>3. Height(c) <= Height(Parent[b]) /\ Height(Parent[b]) \in Nat
      BY <1>2, <2>2, HeightFacts
    <2>4. QED  BY SMT, <1>1, <2>2, <2>3
  <1>4. QED  BY <1>1, <1>2, <1>3

-------------------------------------------------------------------------------
(* Coins *)

\* What a map may hold for t: CCoins that Cleanup has been over, made by a block.
Tidy(t) ==
    {c \in CoinType : /\ c.vout \subseteq DOMAIN Outs[t]
                      /\ IsPruned(c) => c = Pruned
                      /\ ~IsPruned(c) => c.height > 0}

LEMMA CoinShape ==
    ASSUME NEW c \in CoinType
    PROVE  c \in [vout : SUBSET Nat, height : Nat, coinbase : BOOLEAN]
  <1>1. UNION {DOMAIN Outs[t] : t \in Txids} \subseteq Nat
    <2>1. \A t \in Txids : DOMAIN Outs[t] \subseteq Nat
      BY SMT, TransactionAssumption
    <2>2. QED  BY <2>1
  <1>2. {Height(b) : b \in Blocks} \subseteq Nat
    BY HeightFacts
  <1>3. QED  BY <1>1, <1>2 DEF CoinType

LEMMA PrunedTidy == \A t \in Txids : Pruned \in Tidy(t)
  <1>1. Height(Genesis) = 0 /\ Genesis \in Blocks
    <2>1. Cardinality(Chain[Genesis]) = 1
      BY TreeAssumption, FS_Singleton
    <2>2. QED  BY SMT, <2>1, BlockAssumption DEF Height
  <1>2. 0 \in {Height(b) : b \in Blocks}
    BY <1>1
  <1>3. QED  BY <1>2 DEF Tidy, CoinType, Pruned, IsPruned

\* Cleanup of what is left of a coin.
LEMMA NormalTidy ==
    ASSUME NEW t \in Txids, NEW c \in CoinType, NEW W \in SUBSET c.vout,
           c.vout \subseteq DOMAIN Outs[t], IsPruned(c) \/ c.height > 0
    PROVE  /\ Normal([c EXCEPT !.vout = W]) \in Tidy(t)
           /\ Normal([c EXCEPT !.vout = W]).vout = W
  <1> DEFINE d == [c EXCEPT !.vout = W]
  <1>1. d \in CoinType /\ d.vout = W /\ d.height = c.height
    BY DEF CoinType
  <1>2. CASE W = {}
    <2>1. Normal(d) = Pruned
      BY <1>1, <1>2 DEF Normal, IsPruned
    <2>2. QED  BY SMT, <1>2, <2>1, PrunedTidy DEF Pruned
  <1>3. CASE W # {}
    <2>1. Normal(d) = d /\ ~IsPruned(c) /\ ~IsPruned(d)
      BY <1>1, <1>3 DEF Normal, IsPruned
    <2>2. QED  BY <1>1, <2>1 DEF Tidy
  <1>4. QED  BY <1>2, <1>3

\* Two changes in a row, with Cleanup after each, are one.
LEMMA NormalTwice ==
    ASSUME NEW c \in CoinType, NEW W \in SUBSET c.vout, NEW V \in SUBSET W
    PROVE  Normal([Normal([c EXCEPT !.vout = W]) EXCEPT !.vout = V]) = Normal([c EXCEPT !.vout = V])
  <1>1. CASE W = {}
    <2>1. V = {}
      BY <1>1
    <2>2. \A x \in {c, Pruned} : Normal([x EXCEPT !.vout = V]) = Pruned
      BY <2>1 DEF Normal, IsPruned, CoinType, Pruned
    <2>3. Normal([c EXCEPT !.vout = W]) = Pruned
      BY <1>1 DEF Normal, IsPruned, CoinType
    <2>4. QED  BY <2>2, <2>3
  <1>2. CASE W # {}
    <2>1. Normal([c EXCEPT !.vout = W]) = [c EXCEPT !.vout = W]
      BY <1>2 DEF Normal, IsPruned, CoinType
    <2>2. [[c EXCEPT !.vout = W] EXCEPT !.vout = V] = [c EXCEPT !.vout = V]
      BY DEF CoinType
    <2>3. QED  BY <2>1, <2>2
  <1>3. QED  BY <1>1, <1>2

\* A tidy coin is left as it is.
LEMMA NormalSame ==
    ASSUME NEW t \in Txids, NEW c \in Tidy(t)
    PROVE  Normal(c) = c /\ Normal([c EXCEPT !.vout = c.vout]) = c
  <1>1. Normal(c) = c
    BY DEF Normal, Tidy
  <1>2. [c EXCEPT !.vout = c.vout] = c
    BY DEF Tidy, CoinType
  <1>3. QED  BY <1>1, <1>2

LEMMA FromTxTidy ==
    ASSUME NEW t \in Txids, NEW b \in Blocks \ {Genesis}
    PROVE  FromTx(t, Height(b)) \in Tidy(t)
  <1> DEFINE c == [vout |-> DOMAIN Outs[t] \ Unspendable[t], height |-> Height(b),
                   coinbase |-> t \in CoinBases]
  <1>1. c \in CoinType /\ c.vout \subseteq DOMAIN Outs[t] /\ c.height > 0
    BY SMT, HeightFacts DEF CoinType
  <1>2. c = [c EXCEPT !.vout = c.vout]
    BY SMT
  <1>3. Normal([c EXCEPT !.vout = c.vout]) \in Tidy(t)
    BY <1>1, NormalTidy
  <1>4. QED  BY <1>2, <1>3 DEF FromTx

-------------------------------------------------------------------------------
(* The coin set of a chain *)

\* Creator chooses the highest block that has t.
LEMMA CreatorFacts ==
    ASSUME NEW b \in Blocks, NEW t, Creators(b, t) # {}
    PROVE  /\ Creator(b, t) \in Creators(b, t)
           /\ Creator(b, t) \in Chain[b] /\ Creator(b, t) \in Blocks \ {Genesis}
           /\ \A d \in Creators(b, t) : Height(d) <= Height(Creator(b, t))
  <1> DEFINE C == Creators(b, t)
             D == {Height(b) - Height(c) : c \in C}
  <1>1. \A c \in C : /\ c \in Chain[b] /\ c \in Blocks \ {Genesis}
                     /\ Height(c) \in Nat /\ Height(c) <= Height(b)
    <2>1. \A c \in C : c \in Chain[b] /\ c # Genesis
      BY DEF Creators
    <2>2. QED  BY <2>1, Highest, HeightFacts
  <1>2. Height(b) \in Nat
    BY HeightFacts
  <1>3. D \subseteq Nat /\ D # {}
    BY SMT, <1>1, <1>2
  <1>4. PICK x \in D : \A y \in D : x <= y
    BY <1>3, LeastNat
  <1>5. PICK c \in C : x = Height(b) - Height(c)
    BY <1>4
  <1>6. \A d \in C : Height(d) <= Height(c)
    <2>1. \A d \in C : x <= Height(b) - Height(d)
      BY <1>4
    <2> HIDE DEF C
    <2>2. QED  BY SMT, <1>1, <1>2, <1>5, <2>1
  <1>7. /\ Creator(b, t) \in C
        /\ \A d \in C : Height(d) <= Height(Creator(b, t))
    BY <1>5, <1>6 DEF Creator
  <1>8. QED  BY <1>1, <1>7

\* The outputs of t that the chain to b has not spent since it made them.
Unspent(b, t) ==
    {n \in FromTx(t, Height(Creator(b, t))).vout : ~SpentSince(b, Creator(b, t), t, n)}

LEMMA CoinsAtFacts ==
    ASSUME NEW b \in Blocks, NEW t \in Txids
    PROVE  /\ CoinsAt[b][t] \in Tidy(t)
           /\ Creators(b, t) = {} => CoinsAt[b][t] = Pruned
           /\ Creators(b, t) # {} =>
                 /\ CoinsAt[b][t] =
                       Normal([FromTx(t, Height(Creator(b, t))) EXCEPT !.vout = Unspent(b, t)])
                 /\ CoinsAt[b][t].vout = Unspent(b, t)
  <1>1. CoinsAt[b] = CoinsOf(b)
    BY DEF CoinsAt
  <1>2. CASE Creators(b, t) = {}
    <2>1. CoinsOf(b)[t] = Pruned
      BY <1>2 DEF CoinsOf
    <2>2. QED  BY <1>1, <1>2, <2>1, PrunedTidy
  <1>3. CASE Creators(b, t) # {}
    <2> DEFINE f == FromTx(t, Height(Creator(b, t)))
    <2>1. f \in Tidy(t)
      BY <1>3, CreatorFacts, FromTxTidy
    <2>2. CoinsOf(b)[t] = Normal([f EXCEPT !.vout = Unspent(b, t)])
      BY <1>3 DEF CoinsOf, Unspent
    <2>3. Unspent(b, t) \subseteq f.vout /\ f \in CoinType
          /\ f.vout \subseteq DOMAIN Outs[t] /\ (IsPruned(f) \/ f.height > 0)
      BY <2>1 DEF Unspent, Tidy
    <2> HIDE DEF f
    <2>4. QED  BY SMT, <1>1, <1>3, <2>2, <2>3, NormalTidy DEF f
  <1>4. QED  BY <1>2, <1>3

-------------------------------------------------------------------------------
(* Parts of a block *)

\* The outputs of t that are left in the part of b before input j of transaction i.
Left(b, i, j, t) == {n \in Origin(b, i, t).vout : ~SpentUpTo(b, i, j, t, n)}

LEMMA OriginTidy ==
    ASSUME NEW b \in Blocks \ {Genesis}, NEW i, NEW t \in Txids
    PROVE  Origin(b, i, t) \in Tidy(t)
  BY CoinsAtFacts, FromTxTidy, HeightFacts DEF Origin

LEMMA PartIs ==
    ASSUME NEW b \in Blocks \ {Genesis}, NEW i, NEW j, NEW t \in Txids
    PROVE  Part(b, i, j)[t] = Normal([Origin(b, i, t) EXCEPT !.vout = Left(b, i, j, t)])
  BY DEF Part, Left

LEMMA PartTidy ==
    ASSUME NEW b \in Blocks \ {Genesis}, NEW i, NEW j, NEW t \in Txids
    PROVE  Part(b, i, j)[t] \in Tidy(t)
  <1> DEFINE o == Origin(b, i, t)
             W == Left(b, i, j, t)
  <1>1. /\ o \in CoinType /\ W \in SUBSET o.vout /\ o.vout \subseteq DOMAIN Outs[t]
        /\ IsPruned(o) \/ o.height > 0
    BY OriginTidy DEF Left, Tidy
  <1>2. Part(b, i, j)[t] = Normal([o EXCEPT !.vout = W])
    BY PartIs
  <1> HIDE DEF o, W
  <1>3. QED  BY SMT, <1>1, <1>2, NormalTidy

LEMMA PartVout ==
    ASSUME NEW b \in Blocks \ {Genesis}, NEW i, NEW j, NEW t \in Txids
    PROVE  Part(b, i, j)[t].vout = Left(b, i, j, t)
  <1> DEFINE o == Origin(b, i, t)
             W == Left(b, i, j, t)
  <1>1. /\ o \in CoinType /\ W \in SUBSET o.vout /\ o.vout \subseteq DOMAIN Outs[t]
        /\ IsPruned(o) \/ o.height > 0
    BY OriginTidy DEF Left, Tidy
  <1>2. Part(b, i, j)[t] = Normal([o EXCEPT !.vout = W])
    BY PartIs
  <1> HIDE DEF o, W
  <1>3. Part(b, i, j)[t].vout = W
    BY SMT, <1>1, <1>2, NormalTidy
  <1>4. QED  BY <1>3 DEF W

\* Before the first transaction the view is the coin set of the parent.
LEMMA PartStart ==
    ASSUME NEW b \in Blocks \ {Genesis}
    PROVE  Part(b, 1, 0) = CoinsAt[Parent[b]]
  <1>1. \A t \in Txids : Part(b, 1, 0)[t] = CoinsAt[Parent[b]][t]
    <2> TAKE t \in Txids
    <2>1. DOMAIN Vtx[b] \subseteq Nat \ {0}
      BY SMT, BlockAssumption
    <2>2. ~MadeBefore(b, 1, t)
      BY SMT, <2>1 DEF MadeBefore
    <2>3. Origin(b, 1, t) = CoinsAt[Parent[b]][t]
      BY <2>2 DEF Origin
    <2>4. \A k \in DOMAIN Vtx[b] : DOMAIN Ins[Vtx[b][k]] \subseteq Nat \ {0}
      BY SMT, BlockAssumption, TransactionAssumption
    <2>5. \A n : ~SpentUpTo(b, 1, 0, t, n)
      BY SMT, <2>1, <2>4 DEF SpentUpTo
    <2>6. Left(b, 1, 0, t) = Origin(b, 1, t).vout
      BY <2>5 DEF Left
    <2>7. /\ Origin(b, 1, t) \in Tidy(t)
          /\ Part(b, 1, 0)[t] = Normal([Origin(b, 1, t) EXCEPT !.vout = Left(b, 1, 0, t)])
      BY OriginTidy, PartIs
    <2>8. QED  BY <2>3, <2>6, <2>7, NormalSame
  <1>2. DOMAIN Part(b, 1, 0) = Txids /\ DOMAIN CoinsAt[Parent[b]] = Txids
    BY HeightFacts DEF Part, CoinsAt, CoinsOf
  <1>3. Part(b, 1, 0) = [t \in Txids |-> Part(b, 1, 0)[t]]
        /\ CoinsAt[Parent[b]] = [t \in Txids |-> CoinsAt[Parent[b]][t]]
    BY HeightFacts DEF Part, CoinsAt, CoinsOf
  <1>4. QED  BY <1>1, <1>3

LEMMA IndexFacts ==
    ASSUME NEW b \in Blocks
    PROVE  /\ Len(Vtx[b]) \in Nat /\ DOMAIN Vtx[b] = 1..Len(Vtx[b])
           /\ \A k \in DOMAIN Vtx[b] : Vtx[b][k] \in Txids
           /\ \A t \in Txids : Len(Ins[t]) \in Nat /\ DOMAIN Ins[t] = 1..Len(Ins[t])
           /\ \A t \in Txids : \A m \in DOMAIN Ins[t] :
                 Ins[t][m][1] \in Txids /\ Ins[t][m] = <<Ins[t][m][1], Ins[t][m][2]>>
  <1>1. Vtx[b] \in Seq(Txids)
    BY BlockAssumption
  <1>2. \A t \in Txids : Ins[t] \in Seq(Txids \X (Nat \ {0}))
    BY TransactionAssumption
  <1>3. \A t \in Txids : \A m \in DOMAIN Ins[t] : Ins[t][m] \in Txids \X (Nat \ {0})
    BY SMT, <1>2
  <1>4. QED  BY SMT, <1>1, <1>2, <1>3

\* Input j + 1 of transaction i of b is output n of t.
Input(b, i, j, t, n) ==
    /\ b \in Blocks \ {Genesis} /\ i \in DOMAIN Vtx[b] /\ j \in Nat
    /\ j < Len(Ins[Vtx[b][i]]) /\ t \in Txids /\ Ins[Vtx[b][i]][j + 1] = <<t, n>>

\* CCoins::Spend
Spent(c, n) == [c EXCEPT !.vout = c.vout \ {n}]

\* One input more is spent.
LEMMA PartSpend ==
    ASSUME NEW b, NEW i, NEW j, NEW t, NEW n, Input(b, i, j, t, n)
    PROVE  Part(b, i, j + 1) = [Part(b, i, j) EXCEPT ![t] = Normal(Spent(Part(b, i, j)[t], n))]
  <1>0. /\ b \in Blocks \ {Genesis} /\ i \in DOMAIN Vtx[b] /\ j \in Nat
        /\ j < Len(Ins[Vtx[b][i]]) /\ t \in Txids /\ Ins[Vtx[b][i]][j + 1] = <<t, n>>
    BY DEF Input
  <1> USE <1>0
  <1>1. j + 1 \in DOMAIN Ins[Vtx[b][i]]
    BY SMT, IndexFacts
  <1>2. ASSUME NEW u, NEW x
        PROVE  SpentUpTo(b, i, j + 1, u, x) <=> SpentUpTo(b, i, j, u, x) \/ (u = t /\ x = n)
    <2>1. \A k \in DOMAIN Vtx[b] : k \in Nat /\ \A m \in DOMAIN Ins[Vtx[b][k]] : m \in Nat
      BY SMT, IndexFacts
    <2>2. ASSUME NEW k \in DOMAIN Vtx[b], NEW m \in DOMAIN Ins[Vtx[b][k]]
          PROVE  (k < i \/ (k = i /\ m <= j + 1)) <=>
                    ((k < i \/ (k = i /\ m <= j)) \/ (k = i /\ m = j + 1))
      BY SMT, <2>1
    <2>3. <<u, x>> = <<t, n>> <=> u = t /\ x = n
      BY SMT
    <2>4. SpentUpTo(b, i, j + 1, u, x) <=> SpentUpTo(b, i, j, u, x) \/ <<u, x>> = <<t, n>>
      BY <1>1, <2>2 DEF SpentUpTo
    <2>5. QED  BY <2>3, <2>4
  <1>3. \A u \in Txids : \A y :
           Part(b, i, y)[u] = Normal([Origin(b, i, u) EXCEPT !.vout = Left(b, i, y, u)])
    BY PartIs
  <1>4. \A u \in Txids \ {t} : Part(b, i, j + 1)[u] = Part(b, i, j)[u]
    <2> TAKE u \in Txids \ {t}
    <2>1. Left(b, i, j + 1, u) = Left(b, i, j, u)
      BY <1>2 DEF Left
    <2>2. QED  BY <1>3, <2>1
  <1>5. Left(b, i, j + 1, t) = Left(b, i, j, t) \ {n}
    BY <1>2 DEF Left
  <1>6. Part(b, i, j + 1)[t] = Normal([Part(b, i, j)[t] EXCEPT !.vout = Left(b, i, j, t) \ {n}])
    <2> DEFINE o == Origin(b, i, t)
               W == Left(b, i, j, t)
               V == Left(b, i, j, t) \ {n}
    <2>1. W \in SUBSET o.vout /\ V \in SUBSET W
      BY DEF Left
    <2>2. o \in CoinType
      <3>1. o \in Tidy(t)
        BY OriginTidy
      <3>2. QED  BY <3>1 DEF Tidy
    <2>3. /\ Part(b, i, j)[t] = Normal([o EXCEPT !.vout = W])
          /\ Part(b, i, j + 1)[t] = Normal([o EXCEPT !.vout = V])
      BY <1>3, <1>5
    <2> HIDE DEF o, W, V
    <2>4. Normal([Normal([o EXCEPT !.vout = W]) EXCEPT !.vout = V]) = Normal([o EXCEPT !.vout = V])
      BY <2>1, <2>2, NormalTwice
    <2>5. Part(b, i, j + 1)[t] = Normal([Part(b, i, j)[t] EXCEPT !.vout = V])
      BY <2>3, <2>4
    <2>6. QED  BY <2>5 DEF V
  <1>7. Part(b, i, j)[t].vout = Left(b, i, j, t)
    BY PartVout
  <1>8. /\ Part(b, i, j) = [u \in Txids |-> Part(b, i, j)[u]]
        /\ Part(b, i, j + 1) = [u \in Txids |-> Part(b, i, j + 1)[u]]
    BY DEF Part
  <1>9. Part(b, i, j + 1)[t] = Normal(Spent(Part(b, i, j)[t], n))
    BY <1>6, <1>7 DEF Spent
  <1>10. QED  BY <1>4, <1>8, <1>9

\* A transaction whose inputs were found has none from the block that are spent before it.
LEMMA CheckedInput ==
    ASSUME NEW b \in Blocks \ {Genesis}, NEW k \in DOMAIN Vtx[b], NEW t \in Txids, NEW n,
           HaveInputs(Part(b, k, 0), Vtx[b][k]),
           NEW m \in DOMAIN Ins[Vtx[b][k]], Ins[Vtx[b][k]][m] = <<t, n>>
    PROVE  n \in Origin(b, k, t).vout /\ ~SpentUpTo(b, k, 0, t, n)
  <1>1. n \in Part(b, k, 0)[t].vout
    BY SMT DEF HaveInputs, IsAvailable
  <1>2. Part(b, k, 0)[t].vout = Left(b, k, 0, t)
    BY PartVout
  <1>3. QED  BY <1>1, <1>2 DEF Left

\* The transactions of a block are different: BIP30 does not see it, CheckInputs does.
LEMMA DistinctTx ==
    ASSUME NEW b \in Blocks \ {Genesis}, NEW i \in DOMAIN Vtx[b], Checked(b, i + 1, 0),
           NEW k \in DOMAIN Vtx[b], k < i
    PROVE  Vtx[b][k] # Vtx[b][i]
  <1>1. SUFFICES ASSUME Vtx[b][k] = Vtx[b][i] PROVE FALSE
    BY SMT
  <1>2. k \in Nat /\ i \in Nat /\ k >= 1 /\ i < i + 1 /\ i + 1 > 1
    BY SMT, IndexFacts
  <1>3. CheckBlock(b) /\ HaveInputs(Part(b, i, 0), Vtx[b][i])
    BY <1>2 DEF Checked
  <1>4. CheckTransaction(Vtx[b][i]) /\ Vtx[b][i] \notin CoinBases /\ Vtx[b][i] \in Txids
    BY SMT, <1>2, <1>3, IndexFacts DEF CheckBlock
  <1>5. 1 \in DOMAIN Ins[Vtx[b][i]]
    BY SMT, <1>4, IndexFacts DEF CheckTransaction
  <1>6. PICK t \in Txids : \E n : Ins[Vtx[b][i]][1] = <<t, n>>
    BY SMT, <1>4, <1>5, IndexFacts
  <1>7. PICK n : Ins[Vtx[b][i]][1] = <<t, n>>
    BY <1>6
  <1>8. SpentUpTo(b, i, 0, t, n)
    BY <1>1, <1>5, <1>7 DEF SpentUpTo
  <1>9. QED  BY <1>3, <1>5, <1>7, <1>8, CheckedInput

\* Up to a transaction of a block nothing is spent of what it makes.
LEMMA NoEarlySpend ==
    ASSUME NEW b \in Blocks \ {Genesis}, NEW i \in DOMAIN Vtx[b], Checked(b, i + 1, 0),
           NEW j, NEW n
    PROVE  ~SpentUpTo(b, i, j, Vtx[b][i], n)
  <1>1. SUFFICES ASSUME SpentUpTo(b, i, j, Vtx[b][i], n) PROVE FALSE
    BY SMT
  <1> DEFINE t == Vtx[b][i]
  <1>2. PICK k \in DOMAIN Vtx[b] : \E m \in DOMAIN Ins[Vtx[b][k]] :
               (k < i \/ k = i) /\ Ins[Vtx[b][k]][m] = <<t, n>>
    BY <1>1 DEF SpentUpTo
  <1>3. PICK m \in DOMAIN Ins[Vtx[b][k]] : Ins[Vtx[b][k]][m] = <<t, n>>
    BY <1>2
  <1>4. k \in Nat /\ i \in Nat /\ k < i + 1 /\ i + 1 > 1
    BY SMT, <1>2, IndexFacts
  <1>5. IsPruned(CoinsAt[Parent[b]][t]) /\ HaveInputs(Part(b, k, 0), Vtx[b][k])
    BY <1>4 DEF Checked
  <1>6. ~MadeBefore(b, k, t)
    <2>1. \A l \in DOMAIN Vtx[b] : l < k => Vtx[b][l] # t
      <3> TAKE l \in DOMAIN Vtx[b]
      <3> HAVE l < k
      <3>1. l < i
        BY SMT, <1>2, <1>4, IndexFacts
      <3>2. QED  BY <3>1, DistinctTx
    <2>2. QED  BY <2>1 DEF MadeBefore
  <1>7. n \in Origin(b, k, t).vout /\ t \in Txids
    <2>1. t \in Txids
      BY IndexFacts
    <2> HIDE DEF t
    <2>2. QED  BY <1>3, <1>5, <2>1, CheckedInput
  <1>8. QED  BY <1>5, <1>6, <1>7 DEF Origin, IsPruned

\* The outputs of a transaction are added.
LEMMA PartAdd ==
    ASSUME NEW b \in Blocks \ {Genesis}, NEW i \in DOMAIN Vtx[b], Checked(b, i + 1, 0),
           NEW t, t = Vtx[b][i]
    PROVE  /\ Part(b, i + 1, 0)[t] = FromTx(t, Height(b))
           /\ Part(b, i + 1, 0) = [Part(b, i, Len(Ins[t])) EXCEPT ![t] = FromTx(t, Height(b))]
           /\ Part(b, i, Len(Ins[t])) = [Part(b, i + 1, 0) EXCEPT ![t] = Pruned]
  <1> DEFINE l == Len(Ins[t])
             P == Part(b, i, l)
             Q == Part(b, i + 1, 0)
  <1>1. t \in Txids /\ i \in Nat /\ i + 1 > 1
    BY SMT, IndexFacts
  <1>2. ASSUME NEW u, NEW n PROVE SpentUpTo(b, i + 1, 0, u, n) <=> SpentUpTo(b, i, l, u, n)
    <2>1. ASSUME NEW k \in DOMAIN Vtx[b], NEW m \in DOMAIN Ins[Vtx[b][k]]
          PROVE  (k < i + 1 \/ (k = i + 1 /\ m <= 0)) <=> (k < i \/ (k = i /\ m <= l))
      BY SMT, IndexFacts
    <2>2. QED  BY <2>1 DEF SpentUpTo
  <1>3. ASSUME NEW u PROVE MadeBefore(b, i + 1, u) <=> MadeBefore(b, i, u) \/ u = t
    <2>1. \A k \in DOMAIN Vtx[b] : k < i + 1 <=> k < i \/ k = i
      BY SMT, IndexFacts
    <2>2. QED  BY <2>1 DEF MadeBefore
  <1>4. ~MadeBefore(b, i, t)
    <2>1. \A k \in DOMAIN Vtx[b] : k < i => Vtx[b][k] # t
      BY DistinctTx
    <2>2. QED  BY <2>1 DEF MadeBefore
  <1>5. \A n : ~SpentUpTo(b, i, l, t, n) /\ ~SpentUpTo(b, i + 1, 0, t, n)
    BY <1>2, NoEarlySpend
  <1>6. P[t] = Pruned
    <2>1. Origin(b, i, t) = CoinsAt[Parent[b]][t]
      BY <1>4 DEF Origin
    <2>2. IsPruned(CoinsAt[Parent[b]][t])
      BY <1>1 DEF Checked
    <2>3. Left(b, i, l, t) = {}
      BY <2>1, <2>2 DEF Left, IsPruned
    <2>4. P[t] \in Tidy(t) /\ P[t].vout = Left(b, i, l, t)
      <3>1. Part(b, i, l)[t] \in Tidy(t)
        BY <1>1, PartTidy
      <3>2. Part(b, i, l)[t].vout = Left(b, i, l, t)
        BY <1>1, PartVout
      <3>3. QED  BY <3>1, <3>2
    <2>5. QED  BY <2>3, <2>4 DEF Tidy, IsPruned
  <1>7. Q[t] = FromTx(t, Height(b))
    <2>1. Origin(b, i + 1, t) = FromTx(t, Height(b))
      BY <1>3 DEF Origin
    <2>2. Left(b, i + 1, 0, t) = Origin(b, i + 1, t).vout
      BY <1>5 DEF Left
    <2>3. Origin(b, i + 1, t) \in Tidy(t)
      BY <1>1, OriginTidy
    <2>4. Q[t] = Normal([Origin(b, i + 1, t) EXCEPT !.vout = Left(b, i + 1, 0, t)])
      <3>1. \A u \in Txids :
               Q[u] = Normal([Origin(b, i + 1, u) EXCEPT !.vout = Left(b, i + 1, 0, u)])
        BY PartIs
      <3>2. QED  BY <1>1, <3>1
    <2>5. QED  BY <1>1, <2>1, <2>2, <2>3, <2>4, NormalSame
  <1>8. \A u \in Txids \ {t} : Q[u] = P[u]
    <2> TAKE u \in Txids \ {t}
    <2>1. Origin(b, i + 1, u) = Origin(b, i, u)
      BY <1>3 DEF Origin
    <2>2. Left(b, i + 1, 0, u) = Left(b, i, l, u)
      BY <1>2, <2>1 DEF Left
    <2>3. Q[u] = Normal([Origin(b, i + 1, u) EXCEPT !.vout = Left(b, i + 1, 0, u)])
      BY PartIs
    <2>4. P[u] = Normal([Origin(b, i, u) EXCEPT !.vout = Left(b, i, l, u)])
      BY PartIs
    <2>5. QED  BY <2>1, <2>2, <2>3, <2>4
  <1>9. P = [u \in Txids |-> P[u]] /\ Q = [u \in Txids |-> Q[u]]
    BY DEF Part
  <1> HIDE DEF P, Q
  <1>10. Q = [P EXCEPT ![t] = FromTx(t, Height(b))] /\ P = [Q EXCEPT ![t] = Pruned]
    BY <1>1, <1>6, <1>7, <1>8, <1>9
  <1>11. QED  BY <1>7, <1>10 DEF P, Q

\* The whole block makes the coin set of its chain.
LEMMA PartEnd ==
    ASSUME NEW b \in Blocks \ {Genesis}
    PROVE  Part(b, Len(Vtx[b]) + 1, 0) = CoinsAt[b]
  <1> DEFINE a == Parent[b]
             e == Len(Vtx[b]) + 1
             Spends(t, n) == \E k \in DOMAIN Vtx[b] : \E m \in DOMAIN Ins[Vtx[b][k]] :
                                Ins[Vtx[b][k]][m] = <<t, n>>
             Makes(t) == \E k \in DOMAIN Vtx[b] : Vtx[b][k] = t
  <1>1. /\ a \in Blocks /\ Chain[b] \ {b} = Chain[a] /\ b \in Chain[b]
        /\ Height(b) = Height(a) + 1 /\ Height(a) \in Nat /\ Height(b) \in Nat
    BY HeightFacts
  <1>2. \A k \in DOMAIN Vtx[b] : k < e
    BY SMT, IndexFacts
  <1>3. \A t, n : SpentUpTo(b, e, 0, t, n) <=> Spends(t, n)
    BY <1>2 DEF SpentUpTo
  <1>4. \A t : MadeBefore(b, e, t) <=> Makes(t)
    BY <1>2 DEF MadeBefore
  <1>5. \A t : Creators(b, t) = Creators(a, t) \cup (IF Makes(t) THEN {b} ELSE {})
    BY <1>1 DEF Creators
  <1> HIDE DEF e
  <1>6. ASSUME NEW t \in Txids PROVE Part(b, e, 0)[t] = CoinsAt[b][t]
    <2> DEFINE P == Part(b, e, 0)[t]
    <2>1. P = Normal([Origin(b, e, t) EXCEPT !.vout = Left(b, e, 0, t)])
      BY PartIs
    <2>2. CASE Makes(t)
      <3>1. b \in Creators(b, t)
        BY <1>5, <2>2
      <3>2. Creator(b, t) = b
        <4>1. Creator(b, t) \in Chain[b] /\ Height(b) <= Height(Creator(b, t))
          BY <3>1, CreatorFacts
        <4>2. Creator(b, t) # b => Height(Creator(b, t)) < Height(b)
          BY <4>1, Highest
        <4>3. Height(Creator(b, t)) \in Nat
          BY <4>1, HeightFacts, Highest
        <4>4. QED  BY SMT, <1>1, <4>1, <4>2, <4>3
      <3>3. \A n : SpentSince(b, b, t, n) <=> Spends(t, n)
        <4>1. \A d \in Chain[b] \ {Genesis} : Height(d) >= Height(b) <=> d = b
          <5>1. \A d \in Chain[b] : Height(d) \in Nat /\ (d # b => Height(d) < Height(b))
            BY HeightFacts, Highest
          <5>2. QED  BY SMT, <1>1, <5>1
        <4>2. QED  BY <1>1, <4>1 DEF SpentSince
      <3>4. Origin(b, e, t) = FromTx(t, Height(b))
        BY <1>4, <2>2 DEF Origin
      <3>5. Unspent(b, t) = Left(b, e, 0, t)
        BY <1>3, <3>2, <3>3, <3>4 DEF Unspent, Left
      <3>6. CoinsAt[b][t] = Normal([FromTx(t, Height(b)) EXCEPT !.vout = Unspent(b, t)])
        BY <3>1, <3>2, CoinsAtFacts
      <3>7. QED  BY <2>1, <3>4, <3>5, <3>6
    <2>3. CASE ~Makes(t)
      <3>1. Creators(b, t) = Creators(a, t) /\ Creator(b, t) = Creator(a, t)
        BY <1>5, <2>3 DEF Creator
      <3>2. Origin(b, e, t) = CoinsAt[a][t]
        BY <1>4, <2>3 DEF Origin
      <3>3. CASE Creators(a, t) = {}
        <4>1. CoinsAt[a][t] = Pruned /\ CoinsAt[b][t] = Pruned
          BY <1>1, <3>1, <3>3, CoinsAtFacts
        <4>2. Left(b, e, 0, t) = {}
          BY SMT, <3>2, <4>1 DEF Left, Pruned
        <4>3. P \in Tidy(t)
          BY PartTidy
        <4>4. P.vout = Left(b, e, 0, t)
          BY PartVout
        <4>5. QED  BY <4>1, <4>2, <4>3, <4>4 DEF Tidy, IsPruned
      <3>4. CASE Creators(a, t) # {}
        <4> DEFINE c == Creator(a, t)
                   f == FromTx(t, Height(c))
                   W == Unspent(a, t)
                   V == Unspent(b, t)
        <4>1. c \in Chain[a] /\ c \in Blocks \ {Genesis}
          BY <1>1, <3>4, CreatorFacts
        <4>2. Height(b) >= Height(c)
          <5>1. Height(c) <= Height(a) /\ Height(c) \in Nat
            BY <1>1, <4>1, Highest, HeightFacts
          <5>2. QED  BY SMT, <1>1, <5>1
        <4>3. \A n : SpentSince(b, c, t, n) <=> SpentSince(a, c, t, n) \/ Spends(t, n)
          BY <1>1, <4>2 DEF SpentSince
        <4>4. V = {n \in W : ~Spends(t, n)}
          BY <3>1, <4>3 DEF Unspent
        <4>5. /\ CoinsAt[a][t] = Normal([f EXCEPT !.vout = W]) /\ CoinsAt[a][t].vout = W
          BY <1>1, <3>4, CoinsAtFacts
        <4>6. CoinsAt[b][t] = Normal([f EXCEPT !.vout = V])
          BY <3>1, <3>4, CoinsAtFacts
        <4>7. Left(b, e, 0, t) = V
          BY <1>3, <3>2, <4>4, <4>5 DEF Left
        <4>8. f \in CoinType /\ W \in SUBSET f.vout /\ V \in SUBSET W
          <5>1. f \in Tidy(t)
            BY <4>1, FromTxTidy
          <5>2. QED  BY <4>4, <5>1 DEF Unspent, Tidy
        <4> HIDE DEF c, f, W, V
        <4>9. Normal([Normal([f EXCEPT !.vout = W]) EXCEPT !.vout = V]) = Normal([f EXCEPT !.vout = V])
          BY <4>8, NormalTwice
        <4>10. QED  BY <2>1, <3>2, <4>5, <4>6, <4>7, <4>9
      <3>5. QED  BY <3>3, <3>4
    <2>4. QED  BY <2>2, <2>3
  <1>7. /\ Part(b, e, 0) = [t \in Txids |-> Part(b, e, 0)[t]]
        /\ CoinsAt[b] = [t \in Txids |-> CoinsAt[b][t]]
    BY DEF Part, CoinsAt, CoinsOf
  <1>8. QED  BY <1>6, <1>7 DEF e

\* Every input is there when its turn comes, also after other inputs of its transaction.
LEMMA InputThere ==
    ASSUME NEW b, NEW i, NEW j, NEW t, NEW n, Input(b, i, j, t, n),
           CheckTransaction(Vtx[b][i]), HaveInputs(Part(b, i, 0), Vtx[b][i])
    PROVE  n \in Part(b, i, j)[t].vout
  <1> DEFINE x == Vtx[b][i]
  <1>0. /\ b \in Blocks \ {Genesis} /\ i \in DOMAIN Vtx[b] /\ j \in Nat
        /\ j < Len(Ins[Vtx[b][i]]) /\ t \in Txids /\ Ins[Vtx[b][i]][j + 1] = <<t, n>>
    BY DEF Input
  <1> USE <1>0
  <1>1. j + 1 \in DOMAIN Ins[x] /\ \A m \in DOMAIN Ins[x] : m \in Nat \ {0}
    BY SMT, IndexFacts
  <1>2. n \in Origin(b, i, t).vout /\ ~SpentUpTo(b, i, 0, t, n)
    BY <1>1, CheckedInput
  <1>3. \A m \in DOMAIN Ins[x] : Ins[x][m] = <<t, n>> => m = j + 1
    BY <1>1 DEF CheckTransaction, IsInjective
  <1>4. ~SpentUpTo(b, i, j, t, n)
    <2>1. \A m \in DOMAIN Ins[x] : Ins[x][m] = <<t, n>> => ~(m <= j)
      BY SMT, <1>1, <1>3
    <2>2. \A k \in DOMAIN Vtx[b] : \A m \in DOMAIN Ins[Vtx[b][k]] :
             ~(k < i /\ Ins[Vtx[b][k]][m] = <<t, n>>)
      BY <1>2 DEF SpentUpTo
    <2>3. QED  BY <2>1, <2>2 DEF SpentUpTo
  <1>5. n \in Left(b, i, j, t)
    BY <1>2, <1>4 DEF Left
  <1>6. Part(b, i, j)[t].vout = Left(b, i, j, t)
    BY PartVout
  <1>7. QED  BY <1>5, <1>6

\* ApplyTxInUndo brings back what SpendInput took, and finds what it expects.
LEMMA RestoreFacts ==
    ASSUME NEW t \in Txids, NEW c \in Tidy(t), NEW n \in c.vout,
           NEW d, d = Normal(Spent(c, n)),
           NEW u, u = TxInUndo(c, c.vout \ {n})
    PROVE  /\ Normal(Restored(d, u, n)) = c
           /\ u.height # 0 <=> IsPruned(d)
           /\ ~IsAvailable(d, n)
  <1>1. /\ c \in [vout : SUBSET Nat, height : Nat, coinbase : BOOLEAN]
        /\ ~IsPruned(c) /\ c.height > 0 /\ Normal(c) = c
    <2>1. c \in CoinType
      BY DEF Tidy
    <2>2. c \in [vout : SUBSET Nat, height : Nat, coinbase : BOOLEAN]
      BY <2>1, CoinShape
    <2>3. QED  BY <2>2 DEF Tidy, IsPruned, Normal
  <1>2. CASE c.vout \ {n} = {}
    <2>1. d = Pruned /\ u = [height |-> c.height, coinbase |-> c.coinbase] /\ c.vout = {n}
      BY <1>1, <1>2 DEF Normal, IsPruned, TxInUndo, Spent
    <2>2. Restored(d, u, n) = [vout |-> {n}, height |-> c.height, coinbase |-> c.coinbase]
      BY SMT, <1>1, <2>1 DEF Restored
    <2>3. Restored(d, u, n) = c
      BY <1>1, <2>1, <2>2
    <2>4. QED  BY SMT, <1>1, <2>1, <2>3 DEF Pruned, IsPruned, IsAvailable
  <1>3. CASE c.vout \ {n} # {}
    <2>1. d = [c EXCEPT !.vout = c.vout \ {n}] /\ u = [height |-> 0, coinbase |-> FALSE]
      BY <1>1, <1>3 DEF Normal, IsPruned, TxInUndo, Spent
    <2>2. Restored(d, u, n) = [d EXCEPT !.vout = d.vout \cup {n}]
      BY SMT, <2>1 DEF Restored
    <2>3. Restored(d, u, n) = c
      <3>1. (c.vout \ {n}) \cup {n} = c.vout
        BY SMT
      <3>2. d.vout = c.vout \ {n} /\ d.height = c.height /\ d.coinbase = c.coinbase
        BY <1>1, <2>1
      <3>3. QED  BY <1>1, <2>1, <2>2, <3>1, <3>2
    <2>4. QED  BY SMT, <1>1, <1>3, <2>1, <2>3 DEF IsPruned, IsAvailable
  <1>4. QED  BY <1>2, <1>3

-------------------------------------------------------------------------------
(* Undo data *)

UndoRecord == [height : Nat, coinbase : BOOLEAN]

LEMMA UndoStart ==
    ASSUME NEW b, NEW i
    PROVE  UndoOfTx(b, i, 0) = <<>> /\ UndoOf(b, 0) = <<>> /\ UndoOf(b, 1) = <<>>
  BY SMT DEF UndoOfTx, UndoOf

LEMMA UndoOfInputIs ==
    ASSUME NEW b, NEW i, NEW j, NEW t, NEW n, Input(b, i, j, t, n), NEW c, c = Part(b, i, j)[t]
    PROVE  UndoOfInput(b, i, j + 1) = TxInUndo(c, c.vout \ {n})
  <1>1. (j + 1) - 1 = j
    BY SMT DEF Input
  <1>2. Ins[Vtx[b][i]][j + 1][1] = t /\ Ins[Vtx[b][i]][j + 1][2] = n
    BY SMT DEF Input
  <1>3. QED  BY <1>1, <1>2 DEF UndoOfInput

LEMMA UndoInputType ==
    ASSUME NEW b \in Blocks \ {Genesis}, NEW i \in DOMAIN Vtx[b], NEW m \in DOMAIN Ins[Vtx[b][i]]
    PROVE  UndoOfInput(b, i, m) \in UndoRecord
  <1> DEFINE t == Ins[Vtx[b][i]][m][1]
             n == Ins[Vtx[b][i]][m][2]
             c == Part(b, i, m - 1)[t]
  <1>1. t \in Txids
    BY IndexFacts
  <1>2. c \in CoinType
    <2>1. c \in Tidy(t)
      BY <1>1, PartTidy
    <2>2. QED  BY <2>1 DEF Tidy
  <1>3. c \in [vout : SUBSET Nat, height : Nat, coinbase : BOOLEAN]
    BY <1>2, CoinShape
  <1>4. UndoOfInput(b, i, m) = TxInUndo(c, c.vout \ {n})
    BY DEF UndoOfInput
  <1> HIDE DEF c, n
  <1>5. QED  BY SMT, <1>3, <1>4 DEF TxInUndo, UndoRecord

LEMMA UndoTxType ==
    ASSUME NEW b \in Blocks \ {Genesis}, NEW i \in DOMAIN Vtx[b],
           NEW j \in Nat, j <= Len(Ins[Vtx[b][i]])
    PROVE  UndoOfTx(b, i, j) \in Seq(UndoRecord)
  <1>1. \A m \in 1..j : UndoOfInput(b, i, m) \in UndoRecord
    <2>1. \A m \in 1..j : m \in DOMAIN Ins[Vtx[b][i]]
      BY SMT, IndexFacts
    <2>2. QED  BY <2>1, UndoInputType
  <1>2. QED  BY SMT, <1>1 DEF UndoOfTx

LEMMA UndoType ==
    ASSUME NEW b \in Blocks \ {Genesis}, NEW k \in Nat, k <= Len(Vtx[b])
    PROVE  UndoOf(b, k) \in Seq(Seq(UndoRecord)) /\ UndoOf(b, k) # NoUndo
  <1>1. \A l \in 1..(k - 1) : UndoOfTx(b, l + 1, Len(Ins[Vtx[b][l + 1]])) \in Seq(UndoRecord)
    <2>1. \A l \in 1..(k - 1) : /\ l + 1 \in DOMAIN Vtx[b]
                               /\ Len(Ins[Vtx[b][l + 1]]) \in Nat
                               /\ Len(Ins[Vtx[b][l + 1]]) <= Len(Ins[Vtx[b][l + 1]])
      BY SMT, IndexFacts
    <2>2. QED  BY <2>1, UndoTxType
  <1>2. CASE k = 0
    <2>1. UndoOf(b, k) = <<>>
      BY <1>2, UndoStart
    <2>2. <<>> \in Seq(Seq(UndoRecord))
      BY SMT
    <2>3. QED  BY <2>1, <2>2, NoUndoAssumption DEF UndoRecord
  <1>3. CASE k # 0
    <2>1. k - 1 \in Nat
      BY SMT, <1>3
    <2>2. UndoOf(b, k) \in Seq(Seq(UndoRecord))
      BY SMT, <1>1, <2>1 DEF UndoOf
    <2>3. QED  BY <2>2, NoUndoAssumption DEF UndoRecord
  <1>4. QED  BY <1>2, <1>3

\* One input, and one transaction, more.
LEMMA UndoAppend ==
    ASSUME NEW b \in Blocks \ {Genesis}, NEW i \in DOMAIN Vtx[b]
    PROVE  /\ \A j \in Nat : j < Len(Ins[Vtx[b][i]]) =>
                 UndoOfTx(b, i, j + 1) = Append(UndoOfTx(b, i, j), UndoOfInput(b, i, j + 1))
           /\ i > 1 => UndoOf(b, i) = Append(UndoOf(b, i - 1), UndoOfTx(b, i, Len(Ins[Vtx[b][i]])))
  <1>1. ASSUME NEW j \in Nat, j < Len(Ins[Vtx[b][i]])
        PROVE  UndoOfTx(b, i, j + 1) = Append(UndoOfTx(b, i, j), UndoOfInput(b, i, j + 1))
    <2>1. UndoOfTx(b, i, j) \in Seq(UndoRecord)
      BY SMT, <1>1, UndoTxType, IndexFacts
    <2>2. Len(UndoOfTx(b, i, j)) = j
      BY SMT, <2>1 DEF UndoOfTx
    <2>3. QED  BY SMT, <2>1, <2>2 DEF UndoOfTx
  <1>2. ASSUME i > 1
        PROVE  UndoOf(b, i) = Append(UndoOf(b, i - 1), UndoOfTx(b, i, Len(Ins[Vtx[b][i]])))
    <2>1. i - 1 \in Nat /\ i - 1 <= Len(Vtx[b]) /\ (i - 1) - 1 \in Nat /\ ((i - 1) - 1) + 1 = i - 1
          /\ i \in Nat /\ (i - 1) + 1 = i
      BY SMT, <1>2, IndexFacts
    <2>2. UndoOf(b, i - 1) \in Seq(Seq(UndoRecord))
      BY <2>1, UndoType
    <2>3. Len(UndoOf(b, i - 1)) = (i - 1) - 1
      BY SMT, <2>1, <2>2 DEF UndoOf
    <2>4. QED  BY SMT, <2>1, <2>2, <2>3 DEF UndoOf
  <1>3. QED  BY <1>1, <1>2

LEMMA PartType ==
    ASSUME NEW b \in Blocks \ {Genesis}, NEW i, NEW j
    PROVE  Part(b, i, j) \in [Txids -> CoinType]
  <1>1. \A t \in Txids : Part(b, i, j)[t] \in Tidy(t)
    BY PartTidy
  <1>2. \A t \in Txids : Part(b, i, j)[t] \in CoinType
    BY <1>1 DEF Tidy
  <1>3. Part(b, i, j) = [t \in Txids |-> Part(b, i, j)[t]]
    BY DEF Part
  <1>4. QED  BY <1>2, <1>3

-------------------------------------------------------------------------------
(* The steps *)

LEMMA InitStep == Init => IInv
  <1> SUFFICES ASSUME Init PROVE IInv
    BY SMT
  <1>1. Genesis \in Blocks /\ Chain[Genesis] = {Genesis}
    BY BlockAssumption, TreeAssumption
  <1>2. \A t \in Txids : Pruned \in CoinType
    BY PrunedTidy DEF Tidy
  <1>3. CoinsAt[Genesis] = [t \in Txids |-> Pruned]
    <2>1. \A t : Creators(Genesis, t) = {}
      BY <1>1 DEF Creators
    <2>2. CoinsOf(Genesis) = [t \in Txids |-> Pruned]
      BY <2>1 DEF CoinsOf
    <2>3. QED  BY <1>1, <2>2 DEF CoinsAt
  <1>4. TypeInv
    <2>1. disk \in MapType
      BY <1>1, <1>2 DEF Init, MapType
    <2>2. QED  BY <2>1 DEF Init, TypeInv, Idle
  <1>5. Sound(tip, Indexed) /\ Sound(disk, dUndo)
    BY <1>1, <1>3 DEF Init, Sound
  <1>6. job.kind = "idle" /\ dUndo = {} /\ \A b \in Blocks : undo[b] = NoUndo
    BY DEF Init, Idle
  <1>7. UndoInv
    BY <1>6 DEF UndoInv
  <1>8. QED  BY <1>4, <1>5, <1>6, <1>7 DEF IInv, ConnectInv, DisconnectInv

\* The block file and the block index are left alone by every step but two.
LEMMA UndoSame ==
    ASSUME UndoInv, UNCHANGED undo
    PROVE  UndoInv' /\ Indexed' = Indexed
  BY DEF UndoInv, Indexed

LEMMA BeginConnectStep ==
    ASSUME IInv, NEW b \in Blocks, BeginConnect(b)
    PROVE  IInv'
  <1>1. /\ b # Genesis /\ Parent[b] = tip.best /\ ~open
        /\ job' = [Idle EXCEPT !.kind = "connect", !.block = b, !.i = 1]
        /\ open' = TRUE /\ UNCHANGED <<disk, tip, view, undo, dUndo>>
    BY DEF BeginConnect
  <1>2. /\ DOMAIN job' = DOMAIN Idle /\ job'.kind = "connect" /\ job'.block = b
        /\ job'.i = 1 /\ job'.j = 0 /\ job'.txundo = <<>> /\ job'.blockundo = <<>>
        /\ job'.clean = TRUE
    BY <1>1 DEF Idle
  <1>3. TypeInv'
    BY <1>1, <1>2 DEF IInv, TypeInv
  <1>4. view'.coins = Part(b, 1, 0)
    <2>1. view = tip /\ tip.coins = CoinsAt[tip.best]
      BY <1>1 DEF IInv, TypeInv, Sound
    <2>2. QED  BY <1>1, <2>1, PartStart
  <1>5. Checked(b, 1, 0) /\ Position(b, 1, 0) /\ 1 \in 1..(Len(Vtx[b]) + 1)
    <2>1. \A k \in DOMAIN Vtx[b] : ~(k < 1)
      BY SMT, IndexFacts
    <2>2. 1 \in DOMAIN Vtx[b] => 0 <= Len(Ins[Vtx[b][1]])
      BY SMT, IndexFacts
    <2>3. QED  BY SMT, <2>1, <2>2, IndexFacts DEF Checked, Position
  <1>6. ConnectInv'
    <2>1. UndoOfTx(b, 1, 0) = <<>> /\ UndoOf(b, 1 - 1) = <<>>
      BY SMT, UndoStart
    <2>2. QED  BY <1>1, <1>2, <1>4, <1>5, <2>1 DEF ConnectInv
  <1>7. UndoInv' /\ Indexed' = Indexed
    BY <1>1, UndoSame DEF IInv
  <1>8. QED  BY <1>1, <1>2, <1>3, <1>6, <1>7 DEF IInv, DisconnectInv, Sound

\* What has been checked when a transaction makes its first change, and later.
LEMMA TurnChecked ==
    ASSUME IInv, job.kind = "connect", job.i <= Len(Vtx[job.block]), job.j = 0 => TxOK
    PROVE  /\ job.block \in Blocks \ {Genesis} /\ job.i \in DOMAIN Vtx[job.block]
           /\ Checked(job.block, job.i + 1, 0)
           /\ CheckTransaction(Tx) /\ HaveInputs(Part(job.block, job.i, 0), Tx)
  <1> DEFINE b == job.block
             i == job.i
             j == job.j
  <1>1. /\ b \in Blocks \ {Genesis} /\ Parent[b] = tip.best /\ i \in 1..(Len(Vtx[b]) + 1)
        /\ j \in Nat /\ Checked(b, i, j) /\ view.coins = Part(b, i, j)
    BY DEF IInv, ConnectInv, Position
  <1>2. i \in DOMAIN Vtx[b] /\ i \in Nat /\ i >= 1
    BY SMT, <1>1, IndexFacts
  <1>3. CheckBlock(b) /\ \A k \in DOMAIN Vtx[b] : IsPruned(CoinsAt[Parent[b]][Vtx[b][k]])
    <2>1. CASE i > 1 \/ j > 0
      BY <1>1, <2>1 DEF Checked
    <2>2. CASE i = 1 /\ j = 0
      <3>1. CheckBlock(b) /\ BIP30(b) /\ view.coins = Part(b, 1, 0)
        BY <1>1, <2>2 DEF TxOK
      <3>2. view.coins = CoinsAt[Parent[b]]
        BY <1>1, <3>1, PartStart
      <3>3. QED  BY <3>1, <3>2 DEF BIP30
    <2>3. QED  BY SMT, <1>1, <1>2, <2>1, <2>2
  <1>4. HaveInputs(Part(b, i, 0), Tx)
    <2>1. CASE j > 0
      BY <1>1, <1>2, <2>1 DEF Checked, Tx
    <2>2. CASE j = 0 /\ Tx \notin CoinBases
      BY <1>1, <2>2 DEF TxOK, CheckInputs
    <2>3. CASE Tx \in CoinBases
      <3>1. DOMAIN Ins[Tx] = {}
        BY SMT, <2>3, TransactionAssumption
      <3>2. QED  BY <3>1 DEF HaveInputs
    <2>4. QED  BY SMT, <1>1, <2>1, <2>2, <2>3
  <1>5. \A k \in DOMAIN Vtx[b] : k < i \/ k = i => HaveInputs(Part(b, k, 0), Vtx[b][k])
    BY <1>1, <1>4 DEF Checked, Tx
  <1>6. \A k \in DOMAIN Vtx[b] : k < i + 1 \/ (k = i + 1 /\ 0 > 0) => k < i \/ k = i
    BY SMT, <1>1, <1>2, IndexFacts
  <1>7. Checked(b, i + 1, 0)
    BY <1>3, <1>5, <1>6 DEF Checked
  <1>8. CheckTransaction(Tx)
    BY <1>2, <1>3 DEF CheckBlock, Tx
  <1>9. QED  BY <1>1, <1>2, <1>4, <1>7, <1>8

\* The input in turn.
LEMMA TurnInput ==
    ASSUME IInv, job.kind = "connect", job.i <= Len(Vtx[job.block]),
           job.j < Len(Ins[Tx]), job.j = 0 => TxOK
    PROVE  Input(job.block, job.i, job.j, Ins[Tx][job.j + 1][1], Ins[Tx][job.j + 1][2])
  <1> DEFINE b == job.block
             i == job.i
             j == job.j
  <1>1. b \in Blocks \ {Genesis} /\ i \in DOMAIN Vtx[b] /\ Tx = Vtx[b][i]
    BY TurnChecked DEF Tx
  <1>2. j \in Nat
    BY DEF IInv, ConnectInv, Position
  <1>3. j + 1 \in DOMAIN Ins[Tx] /\ Tx \in Txids
    <2>1. Tx \in Txids /\ DOMAIN Ins[Tx] = 1..Len(Ins[Tx]) /\ Len(Ins[Tx]) \in Nat
      BY <1>1, IndexFacts
    <2>2. QED  BY SMT, <1>2, <2>1
  <1>4. /\ Ins[Tx][j + 1][1] \in Txids
        /\ Ins[Vtx[b][i]][j + 1] = <<Ins[Tx][j + 1][1], Ins[Tx][j + 1][2]>>
    BY <1>1, <1>3, IndexFacts
  <1>5. QED  BY <1>1, <1>2, <1>4 DEF Input

LEMMA CheckedWithin ==
    ASSUME NEW b \in Blocks \ {Genesis}, NEW i \in DOMAIN Vtx[b], NEW e \in Nat,
           Checked(b, e, 0), i < e
    PROVE  /\ CheckBlock(b) /\ Checked(b, i + 1, 0)
           /\ \A j \in Nat : Checked(b, i, j)
           /\ HaveInputs(Part(b, i, 0), Vtx[b][i])
  <1>1. /\ CheckBlock(b) /\ \A k \in DOMAIN Vtx[b] : IsPruned(CoinsAt[Parent[b]][Vtx[b][k]])
        /\ \A k \in DOMAIN Vtx[b] : k < e => HaveInputs(Part(b, k, 0), Vtx[b][k])
    <2>1. e > 1
      BY SMT, IndexFacts
    <2>2. QED  BY <2>1 DEF Checked
  <1>2. \A k \in DOMAIN Vtx[b] : k < i + 1 \/ k < i \/ k = i => k < e
    BY SMT, IndexFacts
  <1>3. ~(0 > 0)
    BY SMT
  <1>4. QED  BY <1>1, <1>2, <1>3 DEF Checked

\* SetCoins changes the coins of one transaction in the view.
LEMMA SetCoinsIs ==
    ASSUME view \in MapType, NEW t, NEW c, SetCoins(t, c)
    PROVE  view' = [coins |-> [view.coins EXCEPT ![t] = Normal(c)], best |-> view.best]
  BY DEF SetCoins, MapType

\* The view after a step is a part of the block, so it has the right type.
LEMMA ViewIsPart ==
    ASSUME view \in MapType, NEW t, NEW c, SetCoins(t, c),
           NEW P \in [Txids -> CoinType], [view.coins EXCEPT ![t] = Normal(c)] = P
    PROVE  view' \in MapType /\ view'.coins = P
  <1>1. view' = [coins |-> P, best |-> view.best]
    BY SetCoinsIs
  <1>2. QED  BY <1>1 DEF MapType

LEMMA SpendInputStep ==
    ASSUME IInv, SpendInput
    PROVE  IInv'
  <1> DEFINE b == job.block
             i == job.i
             j == job.j
             t == Ins[Tx][job.j + 1][1]
             n == Ins[Tx][job.j + 1][2]
             c == view.coins[t]
             u == TxInUndo(c, c.vout \ {n})
  <1>1. /\ job.kind = "connect" /\ i <= Len(Vtx[b]) /\ j < Len(Ins[Tx]) /\ (j = 0 => TxOK)
        /\ UNCHANGED <<disk, tip, open, undo, dUndo>>
    BY DEF SpendInput
  <1>2. SetCoins(t, Spent(c, n))
    BY DEF SpendInput, Spent
  <1>3. /\ TypeInv /\ Parent[b] = tip.best /\ i \in 1..(Len(Vtx[b]) + 1) /\ j \in Nat
        /\ view.coins = Part(b, i, j) /\ job.txundo = UndoOfTx(b, i, j)
        /\ job.blockundo = UndoOf(b, i - 1)
    BY <1>1 DEF IInv, ConnectInv, Position
  <1>4. /\ DOMAIN job' = DOMAIN Idle /\ job'.kind = "connect" /\ job'.block = b
        /\ job'.i = i /\ job'.j = j + 1 /\ job'.txundo = Append(job.txundo, u)
        /\ job'.blockundo = job.blockundo /\ job'.clean = TRUE
    <2>1. \E f : job' = [job EXCEPT !.j = @ + 1, !.fees = f, !.txundo = Append(@, u)]
      BY DEF SpendInput
    <2>2. QED  BY <1>1, <1>3, <2>1 DEF TypeInv, Idle
  <1>5. /\ b \in Blocks \ {Genesis} /\ i \in DOMAIN Vtx[b] /\ Checked(b, i + 1, 0)
    BY <1>1, TurnChecked
  <1> HIDE DEF t, n, c
  <1>6. i + 1 \in Nat /\ i < i + 1 /\ j + 1 \in Nat
    <2>1. i \in Nat /\ j \in Nat
      BY SMT, <1>3
    <2>2. QED  BY SMT, <2>1
  <1>7. Input(b, i, j, t, n)
    BY <1>1, TurnInput DEF t, n
  <1>8. [view.coins EXCEPT ![t] = Normal(Spent(c, n))] = Part(b, i, j + 1)
    <2>2. Part(b, i, j + 1) = [Part(b, i, j) EXCEPT ![t] = Normal(Spent(Part(b, i, j)[t], n))]
      BY SMT, <1>7, PartSpend
    <2>3. QED  BY <1>3, <2>2 DEF c
  <1>9. view' \in MapType /\ view'.coins = Part(b, i, j + 1)
    <2>1. view \in MapType
      BY <1>3 DEF TypeInv
    <2>2. Part(b, i, j + 1) \in [Txids -> CoinType]
      BY <1>5, PartType
    <2>3. QED  BY <1>2, <1>8, <2>1, <2>2, ViewIsPart
  <1>10. TypeInv'
    BY <1>1, <1>3, <1>4, <1>9 DEF TypeInv
  <1>11. Checked(b, i, j + 1)
    BY <1>5, <1>6, CheckedWithin
  <1>12. Position(b, i, j + 1)
    <2>1. i \in DOMAIN Vtx[b] /\ j \in Nat /\ j < Len(Ins[Vtx[b][i]])
      BY <1>7 DEF Input
    <2>2. Len(Ins[Vtx[b][i]]) \in Nat
      BY <1>5, IndexFacts
    <2>3. QED  BY SMT, <2>1, <2>2 DEF Position
  <1>13. job'.txundo = UndoOfTx(b, i, j + 1)
    <2>1. UndoOfInput(b, i, j + 1) = u
      <3>1. c = Part(b, i, j)[t]
        BY <1>3 DEF c
      <3>2. QED  BY SMT, <1>7, <3>1, UndoOfInputIs
    <2>2. UndoOfTx(b, i, j + 1) = Append(UndoOfTx(b, i, j), UndoOfInput(b, i, j + 1))
      BY <1>1, <1>3, <1>5, UndoAppend DEF Tx
    <2>3. QED  BY <1>3, <1>4, <2>1, <2>2
  <1>14. ConnectInv'
    BY <1>1, <1>3, <1>4, <1>5, <1>9, <1>11, <1>12, <1>13 DEF ConnectInv
  <1>15. UndoInv' /\ Indexed' = Indexed
    BY <1>1, UndoSame DEF IInv
  <1>16. QED  BY <1>1, <1>4, <1>10, <1>14, <1>15 DEF IInv, DisconnectInv, Sound

LEMMA AddOutputsStep ==
    ASSUME IInv, AddOutputs
    PROVE  IInv'
  <1> DEFINE b == job.block
             i == job.i
             j == job.j
  <1>1. /\ job.kind = "connect" /\ i <= Len(Vtx[b]) /\ j = Len(Ins[Tx]) /\ (j = 0 => TxOK)
        /\ SetCoins(Tx, FromTx(Tx, Height(b)))
        /\ job' = [job EXCEPT !.i = @ + 1, !.j = 0, !.txundo = <<>>,
                              !.blockundo = IF i = 1 THEN @ ELSE Append(@, job.txundo)]
        /\ UNCHANGED <<disk, tip, open, undo, dUndo>>
    BY DEF AddOutputs
  <1>2. /\ TypeInv /\ Parent[b] = tip.best /\ i \in 1..(Len(Vtx[b]) + 1) /\ j \in Nat
        /\ view.coins = Part(b, i, j) /\ job.txundo = UndoOfTx(b, i, j)
        /\ job.blockundo = UndoOf(b, i - 1)
    BY <1>1 DEF IInv, ConnectInv, Position
  <1>3. /\ DOMAIN job' = DOMAIN Idle /\ job'.kind = "connect" /\ job'.block = b
        /\ job'.i = i + 1 /\ job'.j = 0 /\ job'.txundo = <<>> /\ job'.clean = TRUE
        /\ job'.blockundo = IF i = 1 THEN job.blockundo ELSE Append(job.blockundo, job.txundo)
    BY <1>1, <1>2 DEF TypeInv, Idle
  <1>4. /\ b \in Blocks \ {Genesis} /\ i \in DOMAIN Vtx[b] /\ Checked(b, i + 1, 0)
    BY <1>1, TurnChecked
  <1>5. /\ Tx \in Txids
        /\ Part(b, i + 1, 0) = [Part(b, i, Len(Ins[Tx])) EXCEPT ![Tx] = FromTx(Tx, Height(b))]
    <2>1. Tx = Vtx[b][i]
      BY DEF Tx
    <2>2. Tx \in Txids
      BY <1>4, <2>1, IndexFacts
    <2>3. QED  BY <1>4, <2>1, <2>2, PartAdd
  <1>6. Normal(FromTx(Tx, Height(b))) = FromTx(Tx, Height(b))
    BY <1>4, <1>5, FromTxTidy, NormalSame
  <1>7. view' \in MapType /\ view'.coins = Part(b, i + 1, 0)
    <2>1. view \in MapType
      BY <1>2 DEF TypeInv
    <2>2. [view.coins EXCEPT ![Tx] = Normal(FromTx(Tx, Height(b)))] = Part(b, i + 1, 0)
      BY <1>1, <1>2, <1>5, <1>6
    <2>3. Part(b, i + 1, 0) \in [Txids -> CoinType]
      BY <1>4, PartType
    <2>4. QED  BY <1>1, <2>1, <2>2, <2>3, ViewIsPart
  <1>8. TypeInv'
    BY <1>1, <1>2, <1>3, <1>7 DEF TypeInv
  <1>9. i + 1 \in 1..(Len(Vtx[b]) + 1) /\ Position(b, i + 1, 0)
    <2>1. i + 1 \in DOMAIN Vtx[b] => 0 <= Len(Ins[Vtx[b][i + 1]])
      BY SMT, <1>4, IndexFacts
    <2>2. QED  BY SMT, <1>1, <1>2, <1>4, <2>1, IndexFacts DEF Position
  <1>10. job'.txundo = UndoOfTx(b, i + 1, 0)
    BY <1>3, UndoStart
  <1>11. job'.blockundo = UndoOf(b, (i + 1) - 1)
    <2>1. (i + 1) - 1 = i
      BY SMT, <1>2
    <2>2. CASE i = 1
      BY SMT, <1>2, <1>3, <2>1, <2>2, UndoStart
    <2>3. CASE i # 1
      <3>1. i > 1
        BY SMT, <1>2, <2>3
      <3>2. UndoOf(b, i) = Append(UndoOf(b, i - 1), UndoOfTx(b, i, Len(Ins[Tx])))
        BY <1>4, <3>1, UndoAppend DEF Tx
      <3>3. QED  BY <1>1, <1>2, <1>3, <2>1, <2>3, <3>2
    <2>4. QED  BY <2>2, <2>3
  <1>12. ConnectInv'
    BY <1>1, <1>2, <1>3, <1>4, <1>7, <1>9, <1>10, <1>11 DEF ConnectInv
  <1>13. UndoInv' /\ Indexed' = Indexed
    BY <1>1, UndoSame DEF IInv
  <1>14. QED  BY <1>1, <1>3, <1>8, <1>12, <1>13 DEF IInv, DisconnectInv, Sound

LEMMA FinishConnectStep ==
    ASSUME IInv, FinishConnect
    PROVE  IInv'
  <1> DEFINE b == job.block
             e == Len(Vtx[job.block])
  <1>1. /\ job.kind = "connect" /\ job.i > e
        /\ undo' = [undo EXCEPT ![b] = IF @ = NoUndo THEN job.blockundo ELSE @]
        /\ view' = [view EXCEPT !.best = b] /\ job' = [job EXCEPT !.kind = "flush"]
        /\ UNCHANGED <<disk, tip, open, dUndo>>
    BY DEF FinishConnect
  <1>2. /\ TypeInv /\ b \in Blocks \ {Genesis} /\ Parent[b] = tip.best
        /\ job.i \in 1..(e + 1) /\ Position(b, job.i, job.j) /\ Checked(b, job.i, job.j)
        /\ view.coins = Part(b, job.i, job.j) /\ job.blockundo = UndoOf(b, job.i - 1)
    BY <1>1 DEF IInv, ConnectInv
  <1>3. e \in Nat /\ job.i = e + 1 /\ job.i - 1 = e /\ job.j = 0
    <2>1. e \in Nat /\ DOMAIN Vtx[b] = 1..e
      BY <1>2, IndexFacts
    <2>2. job.i = e + 1 /\ job.i - 1 = e /\ job.i \notin DOMAIN Vtx[b]
      BY SMT, <1>1, <1>2, <2>1
    <2>3. QED  BY <1>2, <2>1, <2>2 DEF Position
  <1>4. Checked(b, e + 1, 0) /\ view.coins = CoinsAt[b] /\ job.blockundo = UndoOf(b, e)
    BY <1>2, <1>3, PartEnd
  <1>5. UndoOf(b, e) # NoUndo
    <2>1. e <= Len(Vtx[b])
      BY SMT, <1>3
    <2>2. QED  BY <1>2, <1>3, <2>1, UndoType
  <1>6. /\ undo'[b] = UndoOf(b, e) /\ DOMAIN undo' = Blocks
        /\ \A d \in Blocks \ {b} : undo'[d] = undo[d]
    <2>1. undo[b] # NoUndo => undo[b] = UndoOf(b, e)
      BY <1>2 DEF IInv, UndoInv
    <2>2. QED  BY <1>1, <1>2, <1>4, <2>1 DEF TypeInv
  <1>7. UndoInv'
    <2>1. \A d \in Blocks : undo'[d] # NoUndo =>
             d # Genesis /\ Checked(d, Len(Vtx[d]) + 1, 0) /\ undo'[d] = UndoOf(d, Len(Vtx[d]))
      BY <1>2, <1>4, <1>6 DEF IInv, UndoInv
    <2>2. QED  BY <2>1 DEF UndoInv
  <1>8. Indexed' = Indexed \cup {b}
    BY <1>2, <1>5, <1>6 DEF Indexed
  <1>9. /\ view'.coins = CoinsAt[b] /\ view'.best = b /\ view' \in MapType
    BY <1>1, <1>2, <1>4 DEF TypeInv, MapType
  <1>10. Sound(view, Indexed)'
    <2>1. Chain[b] \ {b} = Chain[tip.best]
      BY <1>2, HeightFacts
    <2>2. Chain[tip.best] \ {Genesis} \subseteq Indexed
      BY DEF IInv, Sound
    <2>3. QED  BY <1>8, <1>9, <2>1, <2>2 DEF Sound
  <1>11. DOMAIN job' = DOMAIN Idle /\ job'.kind = "flush" /\ job'.clean = TRUE
    BY <1>1, <1>2 DEF TypeInv, Idle
  <1>12. TypeInv'
    BY <1>1, <1>2, <1>6, <1>9, <1>11 DEF TypeInv
  <1>13. Sound(tip, Indexed)' /\ Sound(disk, dUndo)' /\ (dUndo \subseteq Indexed)'
    BY <1>1, <1>8 DEF IInv, Sound
  <1>14. QED  BY <1>7, <1>10, <1>11, <1>12, <1>13 DEF IInv, ConnectInv, DisconnectInv

\* The view is gone, and the block index is as it was.
LEMMA ForgetStep ==
    ASSUME IInv, view' = tip, open' = FALSE, job' = Idle, UNCHANGED <<disk, tip, undo, dUndo>>
    PROVE  IInv'
  <1>1. job'.kind = "idle" /\ job'.clean = TRUE /\ DOMAIN job' = DOMAIN Idle
    BY DEF Idle
  <1>2. TypeInv'
    BY <1>1 DEF IInv, TypeInv
  <1>3. UndoInv' /\ Indexed' = Indexed
    BY UndoSame DEF IInv
  <1>4. QED  BY <1>1, <1>2, <1>3 DEF IInv, ConnectInv, DisconnectInv, Sound

LEMMA BeginDisconnectStep ==
    ASSUME IInv, BeginDisconnect
    PROVE  IInv'
  <1> DEFINE b == tip.best
             e == Len(Vtx[tip.best])
  <1>1. /\ ~open /\ b # Genesis /\ undo[b] # NoUndo /\ open' = TRUE
        /\ job' = [Idle EXCEPT !.kind = "disconnect", !.block = b, !.i = e]
        /\ UNCHANGED <<disk, tip, view, undo, dUndo>>
    BY DEF BeginDisconnect
  <1>2. /\ TypeInv /\ view = tip /\ b \in Blocks \ {Genesis} /\ tip.coins = CoinsAt[b]
    BY <1>1 DEF IInv, TypeInv, MapType, Sound
  <1>3. /\ DOMAIN job' = DOMAIN Idle /\ job'.kind = "disconnect" /\ job'.block = b
        /\ job'.i = e /\ job'.j = 0 /\ job'.clean = TRUE
    BY <1>1 DEF Idle
  <1>4. TypeInv'
    BY <1>1, <1>2, <1>3 DEF TypeInv
  <1>5. view'.coins = Part(b, e + 1, 0)
    BY <1>1, <1>2, PartEnd
  <1>6. e \in 0..e /\ Position(b, e, 0)
    <2>1. e \in Nat /\ (e \in DOMAIN Vtx[b] => 0 <= Len(Ins[Vtx[b][e]]))
      BY SMT, <1>2, IndexFacts
    <2>2. QED  BY SMT, <2>1 DEF Position
  <1>7. DisconnectInv'
    BY <1>1, <1>3, <1>5, <1>6 DEF DisconnectInv
  <1>8. UndoInv' /\ Indexed' = Indexed
    BY <1>1, UndoSame DEF IInv
  <1>9. QED  BY <1>1, <1>3, <1>4, <1>7, <1>8 DEF IInv, ConnectInv, Sound

\* What the undo data of the block in work say about it.
LEMMA UndoTurn ==
    ASSUME IInv, job.kind = "disconnect", job.i > 0
    PROVE  /\ job.block \in Blocks \ {Genesis} /\ job.i \in DOMAIN Vtx[job.block]
           /\ Checked(job.block, job.i + 1, 0) /\ CheckBlock(job.block)
           /\ HaveInputs(Part(job.block, job.i, 0), Vtx[job.block][job.i])
           /\ undo[job.block] = UndoOf(job.block, Len(Vtx[job.block]))
  <1> DEFINE b == job.block
             i == job.i
  <1>1. /\ b = tip.best /\ tip.best # Genesis /\ undo[b] # NoUndo /\ i \in 0..Len(Vtx[b])
        /\ tip.best \in Blocks
    BY DEF IInv, DisconnectInv, TypeInv, MapType
  <1>2. b \in Blocks \ {Genesis}
    BY <1>1
  <1>3. Checked(b, Len(Vtx[b]) + 1, 0) /\ undo[b] = UndoOf(b, Len(Vtx[b]))
    BY <1>1, <1>2 DEF IInv, UndoInv
  <1>4. i \in DOMAIN Vtx[b] /\ Len(Vtx[b]) + 1 \in Nat /\ i < Len(Vtx[b]) + 1
    BY SMT, <1>1, <1>2, IndexFacts
  <1>5. QED  BY <1>2, <1>3, <1>4, CheckedWithin

\* A step of the disconnection that leaves part <<i, j>> of the block.
LEMMA DisconnectView ==
    ASSUME IInv, job.kind = "disconnect", job.i > 0, UNCHANGED <<disk, tip, open, undo, dUndo>>,
           NEW k \in Nat, k <= Len(Ins[Vtx[job.block][job.i]]),
           view' \in MapType, view'.coins = Part(job.block, job.i, k),
           DOMAIN job' = DOMAIN Idle, job'.kind = "disconnect", job'.block = job.block,
           job'.clean = TRUE, job'.j = k, job'.i = IF k = 0 THEN job.i - 1 ELSE job.i
    PROVE  IInv'
  <1> DEFINE b == job.block
             i == job.i
  <1>1. /\ b = tip.best /\ tip.best # Genesis /\ undo[tip.best] # NoUndo
        /\ i \in 0..Len(Vtx[b]) /\ TypeInv
    BY DEF IInv, DisconnectInv
  <1>2. b \in Blocks \ {Genesis} /\ i \in DOMAIN Vtx[b]
    BY UndoTurn
  <1>3. Len(Vtx[b]) \in Nat /\ DOMAIN Vtx[b] = 1..Len(Vtx[b])
    BY <1>2, IndexFacts
  <1>4. job'.i \in 0..Len(Vtx[b]) /\ Position(b, job'.i, k)
    <2>1. CASE k = 0
      <3>1. i - 1 \in DOMAIN Vtx[b] => 0 <= Len(Ins[Vtx[b][i - 1]])
        BY SMT, <1>2, IndexFacts
      <3>2. job'.i = i - 1
        BY <2>1
      <3>3. i - 1 \in 0..Len(Vtx[b])
        BY SMT, <1>1, <1>3
      <3>4. QED  BY <2>1, <3>1, <3>2, <3>3 DEF Position
    <2>2. CASE k # 0
      BY <1>1, <1>2, <2>2 DEF Position
    <2>3. QED  BY <2>1, <2>2
  <1>5. view'.coins = IF k = 0 THEN Part(b, job'.i + 1, 0) ELSE Part(b, job'.i, k)
    <2>1. (i - 1) + 1 = i
      BY SMT, <1>1
    <2>2. QED  BY <2>1
  <1>6. DisconnectInv'
    BY <1>1, <1>4, <1>5 DEF DisconnectInv
  <1>7. TypeInv'
    BY <1>1 DEF TypeInv
  <1>8. UndoInv' /\ Indexed' = Indexed
    BY UndoSame DEF IInv
  <1>9. QED  BY <1>6, <1>7, <1>8 DEF IInv, ConnectInv, Sound

LEMMA RemoveOutputsStep ==
    ASSUME IInv, RemoveOutputs
    PROVE  IInv'
  <1> DEFINE b == job.block
             i == job.i
             k == Len(Ins[Tx])
  <1>1. /\ job.kind = "disconnect" /\ i > 0 /\ job.j = 0 /\ SetCoins(Tx, Pruned)
        /\ job' = [job EXCEPT !.clean = @ /\ view.coins[Tx] = FromTx(Tx, Height(b)), !.j = k,
                              !.i = IF Ins[Tx] = <<>> THEN @ - 1 ELSE @]
        /\ UNCHANGED <<disk, tip, open, undo, dUndo>>
    BY DEF RemoveOutputs
  <1>2. b \in Blocks \ {Genesis} /\ i \in DOMAIN Vtx[b] /\ Checked(b, i + 1, 0)
    BY <1>1, UndoTurn
  <1>3. TypeInv /\ view.coins = Part(b, i + 1, 0)
    BY <1>1 DEF IInv, DisconnectInv
  <1>4. Tx = Vtx[b][i]
    BY DEF Tx
  <1>5. /\ Tx \in Txids
        /\ Part(b, i + 1, 0)[Tx] = FromTx(Tx, Height(b))
        /\ Part(b, i, k) = [Part(b, i + 1, 0) EXCEPT ![Tx] = Pruned]
    <2>1. Tx \in Txids
      BY <1>2, <1>4, IndexFacts
    <2>2. Part(b, i + 1, 0)[Tx] = FromTx(Tx, Height(b))
      BY <1>2, <1>4, PartAdd
    <2>3. Part(b, i, k) = [Part(b, i + 1, 0) EXCEPT ![Tx] = Pruned]
      BY <1>2, <1>4, PartAdd
    <2>4. QED  BY <2>1, <2>2, <2>3
  <1>6. k \in Nat /\ (Ins[Tx] = <<>> <=> k = 0)
    BY SMT, <1>5, TransactionAssumption
  <1>7. view' \in MapType /\ view'.coins = Part(b, i, k)
    <2>1. view \in MapType
      BY <1>3 DEF TypeInv
    <2>2. Normal(Pruned) = Pruned
      BY DEF Normal
    <2>3. [view.coins EXCEPT ![Tx] = Normal(Pruned)] = Part(b, i, k)
      BY <1>3, <1>5, <2>2
    <2>4. Part(b, i, k) \in [Txids -> CoinType]
      BY <1>2, PartType
    <2>5. QED  BY <1>1, <2>1, <2>3, <2>4, ViewIsPart
  <1>8. /\ DOMAIN job' = DOMAIN Idle /\ job'.kind = "disconnect" /\ job'.block = b
        /\ job'.j = k /\ job'.i = IF k = 0 THEN i - 1 ELSE i
    BY <1>1, <1>3, <1>6 DEF TypeInv, Idle
  <1>9. job'.clean = TRUE
    <2>1. job.clean = TRUE /\ view.coins[Tx] = FromTx(Tx, Height(b))
      BY <1>3, <1>5 DEF TypeInv
    <2>2. "clean" \in DOMAIN job
      BY <1>3 DEF TypeInv, Idle
    <2>3. QED  BY <1>1, <2>1, <2>2
  <1>10. k <= Len(Ins[Vtx[b][i]])
    BY SMT, <1>4, <1>6
  <1>11. QED  BY <1>1, <1>6, <1>7, <1>8, <1>9, <1>10, DisconnectView

LEMMA RestoreInputStep ==
    ASSUME IInv, RestoreInput
    PROVE  IInv'
  <1> DEFINE b == job.block
             i == job.i
             k == job.j - 1
             t == Ins[Tx][job.j][1]
             n == Ins[Tx][job.j][2]
             d == view.coins[t]
             u == undo[b][i - 1][job.j]
             c == Part(b, i, k)[t]
  <1>1. /\ job.kind = "disconnect" /\ i > 0 /\ job.j > 0 /\ SetCoins(t, Restored(d, u, n))
        /\ job' = [job EXCEPT !.clean = @ /\ (u.height # 0 <=> IsPruned(d)) /\ ~IsAvailable(d, n),
                              !.j = @ - 1, !.i = IF job.j = 1 THEN @ - 1 ELSE @]
        /\ UNCHANGED <<disk, tip, open, undo, dUndo>>
    BY DEF RestoreInput
  <1>2. /\ b \in Blocks \ {Genesis} /\ i \in DOMAIN Vtx[b] /\ CheckBlock(b)
        /\ HaveInputs(Part(b, i, 0), Vtx[b][i]) /\ undo[b] = UndoOf(b, Len(Vtx[b]))
    BY <1>1, UndoTurn
  <1>3. TypeInv /\ view.coins = Part(b, i, job.j) /\ job.j \in Nat /\ Position(b, i, job.j)
    <2>1. job.j # 0
      <3>1. job.j > 0
        BY <1>1
      <3>2. QED  BY SMT, <3>1
    <2>2. QED  BY <1>1, <2>1 DEF IInv, DisconnectInv, Position
  <1>4. Tx = Vtx[b][i] /\ Tx \in Txids /\ i \in Nat /\ CheckTransaction(Vtx[b][i])
        /\ Len(Ins[Tx]) \in Nat /\ DOMAIN Ins[Tx] = 1..Len(Ins[Tx]) /\ job.j <= Len(Ins[Tx])
    <2>1. Tx = Vtx[b][i]
      BY DEF Tx
    <2>2. Tx \in Txids /\ i \in Nat /\ Len(Ins[Tx]) \in Nat /\ DOMAIN Ins[Tx] = 1..Len(Ins[Tx])
      BY SMT, <1>2, <2>1, IndexFacts
    <2>3. QED  BY <1>2, <1>3, <2>1, <2>2 DEF CheckBlock, Position
  <1>5. k \in Nat /\ k + 1 = job.j /\ k < Len(Ins[Tx]) /\ k <= Len(Ins[Tx]) /\ job.j \in DOMAIN Ins[Tx]
        /\ (job.j = 1 <=> k = 0)
    <2>1. /\ job.j > 0 /\ job.j \in Nat /\ job.j <= Len(Ins[Tx])
          /\ Len(Ins[Tx]) \in Nat /\ DOMAIN Ins[Tx] = 1..Len(Ins[Tx])
      BY <1>1, <1>3, <1>4
    <2>2. QED  BY SMT, <2>1
  <1> HIDE DEF k, t, n, d, u, c
  <1>6. Input(b, i, k, t, n)
    <2>1. t \in Txids /\ Ins[Vtx[b][i]][k + 1] = <<t, n>>
      BY <1>2, <1>4, <1>5, IndexFacts DEF t, n
    <2>2. QED  BY <1>2, <1>4, <1>5, <2>1 DEF Input
  <1>7. n \in c.vout /\ c \in Tidy(t) /\ t \in Txids
    <2>1. n \in c.vout
      BY <1>2, <1>4, <1>6, InputThere DEF c
    <2>2. t \in Txids
      BY <1>6 DEF Input
    <2>3. QED  BY <1>2, <2>1, <2>2, PartTidy DEF c
  <1>8. /\ Part(b, i, job.j) = [Part(b, i, k) EXCEPT ![t] = Normal(Spent(c, n))]
        /\ d = Normal(Spent(c, n))
    <2>1. Part(b, i, k + 1) = [Part(b, i, k) EXCEPT ![t] = Normal(Spent(Part(b, i, k)[t], n))]
      BY SMT, <1>6, PartSpend
    <2>2. Part(b, i, job.j) = [Part(b, i, k) EXCEPT ![t] = Normal(Spent(c, n))]
      BY <1>5, <2>1 DEF c
    <2>3. DOMAIN Part(b, i, k) = Txids
      BY DEF Part
    <2>4. QED  BY <1>3, <1>7, <2>2, <2>3 DEF d
  <1>9. u = TxInUndo(c, c.vout \ {n})
    <2>1. i > 1
      <3>1. Tx \notin CoinBases
        BY SMT, <1>4, <1>5, TransactionAssumption
      <3>2. i # 1
        BY <1>2, <1>4, <3>1 DEF CheckBlock
      <3>3. QED  BY SMT, <1>2, <1>4, <3>2, IndexFacts
    <2>2. /\ Len(Vtx[b]) \in Nat /\ i - 1 \in 1..(Len(Vtx[b]) - 1) /\ (i - 1) + 1 = i
      BY SMT, <1>2, <1>4, <2>1, IndexFacts
    <2>3. UndoOf(b, Len(Vtx[b]))[i - 1] = UndoOfTx(b, i, Len(Ins[Tx]))
      BY <1>4, <2>2 DEF UndoOf
    <2>4. job.j \in 1..Len(Ins[Tx])
      BY <1>4, <1>5
    <2>5. UndoOfTx(b, i, Len(Ins[Tx]))[job.j] = UndoOfInput(b, i, job.j)
      BY <2>4 DEF UndoOfTx
    <2>6. UndoOfInput(b, i, k + 1) = TxInUndo(c, c.vout \ {n})
      <3>1. c = Part(b, i, k)[t]
        BY DEF c
      <3>2. QED  BY SMT, <1>6, <3>1, UndoOfInputIs
    <2>7. QED  BY <1>2, <1>5, <2>3, <2>5, <2>6 DEF u
  <1>10. Normal(Restored(d, u, n)) = c /\ (u.height # 0 <=> IsPruned(d)) /\ ~IsAvailable(d, n)
    <2>1. d = Normal(Spent(c, n))
      BY <1>8
    <2>2. QED  BY SMT, <1>7, <1>9, <2>1, RestoreFacts
  <1>11. view' \in MapType /\ view'.coins = Part(b, i, k)
    <2>1. view \in MapType
      BY <1>3 DEF TypeInv
    <2>2. Part(b, i, k) \in [Txids -> CoinType]
      BY <1>2, PartType
    <2>3. [[Part(b, i, k) EXCEPT ![t] = Normal(Spent(c, n))] EXCEPT ![t] = c] = Part(b, i, k)
      BY <1>7, <2>2 DEF c
    <2>4. [view.coins EXCEPT ![t] = Normal(Restored(d, u, n))] = Part(b, i, k)
      BY <1>3, <1>8, <1>10, <2>3
    <2>5. QED  BY <1>1, <2>1, <2>2, <2>4, ViewIsPart
  <1>12. /\ DOMAIN job' = DOMAIN Idle /\ job'.kind = "disconnect" /\ job'.block = b
         /\ job'.j = k /\ job'.i = IF k = 0 THEN i - 1 ELSE i
    BY <1>1, <1>3, <1>5 DEF TypeInv, Idle, k
  <1>13. job'.clean = TRUE
    <2>1. job.clean = TRUE /\ "clean" \in DOMAIN job
      BY <1>3 DEF TypeInv, Idle
    <2>2. QED  BY <1>1, <1>10, <2>1
  <1>14. k <= Len(Ins[Vtx[b][i]])
    BY <1>4, <1>5
  <1>15. QED  BY <1>1, <1>5, <1>11, <1>12, <1>13, <1>14, DisconnectView

LEMMA FinishDisconnectStep ==
    ASSUME IInv, FinishDisconnect
    PROVE  IInv'
  <1> DEFINE b == job.block
  <1>1. job.kind = "disconnect" /\ job.i = 0 /\ job.clean = TRUE
    BY DEF FinishDisconnect, IInv, TypeInv
  <1>2. /\ view' = [view EXCEPT !.best = Parent[b]] /\ job' = [job EXCEPT !.kind = "flush"]
        /\ UNCHANGED <<disk, tip, open, undo, dUndo>>
    BY <1>1 DEF FinishDisconnect
  <1>3. /\ TypeInv /\ b = tip.best /\ b # Genesis /\ Position(b, 0, job.j)
        /\ view.coins = IF job.j = 0 THEN Part(b, job.i + 1, 0) ELSE Part(b, job.i, job.j)
    BY <1>1 DEF IInv, DisconnectInv
  <1>4. b \in Blocks \ {Genesis}
    BY <1>3 DEF TypeInv, MapType
  <1>5. view.coins = Part(b, 1, 0)
    <2>1. 0 \notin DOMAIN Vtx[b] /\ 0 + 1 = 1
      BY SMT, <1>4, IndexFacts
    <2>2. job.j = 0
      BY <1>3, <2>1 DEF Position
    <2>3. QED  BY <1>1, <1>3, <2>1, <2>2
  <1>6. /\ view'.coins = CoinsAt[Parent[b]] /\ view'.best = Parent[b] /\ view' \in MapType
    <2>1. view.coins = CoinsAt[Parent[b]]
      BY <1>4, <1>5, PartStart
    <2>2. Parent[b] \in Blocks
      BY <1>4, HeightFacts
    <2>3. QED  BY <1>2, <1>3, <2>1, <2>2 DEF TypeInv, MapType
  <1>7. UndoInv' /\ Indexed' = Indexed
    BY <1>2, UndoSame DEF IInv
  <1>8. Sound(view, Indexed)'
    <2>1. Chain[b] \ {b} = Chain[Parent[b]]
      BY <1>4, HeightFacts
    <2>2. Chain[b] \ {Genesis} \subseteq Indexed
      BY <1>3 DEF IInv, Sound
    <2>3. QED  BY <1>6, <1>7, <2>1, <2>2 DEF Sound
  <1>9. DOMAIN job' = DOMAIN Idle /\ job'.kind = "flush" /\ job'.clean = TRUE
    BY <1>1, <1>2, <1>3 DEF TypeInv, Idle
  <1>10. TypeInv'
    BY <1>1, <1>2, <1>3, <1>6, <1>9 DEF TypeInv
  <1>11. QED  BY <1>2, <1>7, <1>8, <1>9, <1>10 DEF IInv, ConnectInv, DisconnectInv, Sound

LEMMA FlushViewStep ==
    ASSUME IInv, FlushView
    PROVE  IInv'
  <1>1. /\ job.kind = "flush" /\ tip' = view /\ open' = FALSE /\ job' = Idle
        /\ UNCHANGED <<disk, view, undo, dUndo>>
    BY DEF FlushView
  <1>2. job'.kind = "idle" /\ job'.clean = TRUE /\ DOMAIN job' = DOMAIN Idle
    BY <1>1 DEF Idle
  <1>3. TypeInv'
    BY <1>1, <1>2 DEF IInv, TypeInv
  <1>4. UndoInv' /\ Indexed' = Indexed
    BY <1>1, UndoSame DEF IInv
  <1>5. Sound(view, Indexed)
    BY <1>1 DEF IInv
  <1>6. QED  BY <1>1, <1>2, <1>3, <1>4, <1>5 DEF IInv, ConnectInv, DisconnectInv, Sound

LEMMA FlushStateToDiskStep ==
    ASSUME IInv, FlushStateToDisk
    PROVE  IInv'
  <1>1. /\ ~open /\ dUndo' = Indexed /\ disk' = tip /\ UNCHANGED <<tip, view, open, job, undo>>
    BY DEF FlushStateToDisk
  <1>2. TypeInv' /\ job.kind = "idle"
    BY <1>1 DEF IInv, TypeInv
  <1>3. UndoInv' /\ Indexed' = Indexed
    BY <1>1, UndoSame DEF IInv
  <1>4. QED  BY <1>1, <1>2, <1>3 DEF IInv, ConnectInv, DisconnectInv, Sound

LEMMA CrashStep ==
    ASSUME IInv, Crash
    PROVE  IInv'
  <1>1. /\ tip' = disk /\ view' = disk /\ open' = FALSE /\ job' = Idle
        /\ undo' = [b \in Blocks |-> IF b \in dUndo THEN undo[b] ELSE NoUndo]
        /\ UNCHANGED <<disk, dUndo>>
    BY DEF Crash
  <1>2. job'.kind = "idle" /\ job'.clean = TRUE /\ DOMAIN job' = DOMAIN Idle
    BY <1>1 DEF Idle
  <1>3. TypeInv'
    BY <1>1, <1>2 DEF IInv, TypeInv
  <1>4. \A b \in Blocks : undo'[b] = IF b \in dUndo THEN undo[b] ELSE NoUndo
    BY <1>1
  <1>5. UndoInv'
    <2>1. \A b \in Blocks : undo'[b] # NoUndo =>
             b # Genesis /\ Checked(b, Len(Vtx[b]) + 1, 0) /\ undo'[b] = UndoOf(b, Len(Vtx[b]))
      BY <1>4 DEF IInv, UndoInv
    <2>2. QED  BY <2>1 DEF UndoInv
  <1>6. Indexed' = dUndo
    BY <1>4 DEF IInv, Indexed
  <1>7. QED  BY <1>1, <1>2, <1>3, <1>5, <1>6 DEF IInv, ConnectInv, DisconnectInv, Sound

-------------------------------------------------------------------------------
(* The theorems *)

LEMMA NextStep == IInv /\ [Next]_vars => IInv'
  <1> SUFFICES ASSUME IInv, [Next]_vars PROVE IInv'
    BY SMT
  <1>1. CASE \E b \in Blocks : BeginConnect(b)
    BY <1>1, BeginConnectStep
  <1>2. CASE SpendInput
    BY <1>2, SpendInputStep
  <1>3. CASE AddOutputs
    BY <1>3, AddOutputsStep
  <1>4. CASE FinishConnect
    BY <1>4, FinishConnectStep
  <1>5. CASE RejectBlock
    BY <1>5, ForgetStep DEF RejectBlock
  <1>6. CASE BeginDisconnect
    BY <1>6, BeginDisconnectStep
  <1>7. CASE RemoveOutputs
    BY <1>7, RemoveOutputsStep
  <1>8. CASE RestoreInput
    BY <1>8, RestoreInputStep
  <1>9. CASE FinishDisconnect
    BY <1>9, FinishDisconnectStep
  <1>10. CASE FlushView
    BY <1>10, FlushViewStep
  <1>11. CASE FlushStateToDisk
    BY <1>11, FlushStateToDiskStep
  <1>12. CASE Crash
    BY <1>12, CrashStep
  <1>13. CASE UNCHANGED vars
    <2>1. UNCHANGED <<disk, tip, view, open, job, undo, dUndo>>
      BY <1>13 DEF vars
    <2>2. UndoInv' /\ Indexed' = Indexed
      BY <2>1, UndoSame DEF IInv
    <2>3. QED  BY <2>1, <2>2 DEF IInv, TypeInv, ConnectInv, DisconnectInv, Sound
  <1>14. QED  BY <1>1, <1>2, <1>3, <1>4, <1>5, <1>6, <1>7, <1>8, <1>9, <1>10, <1>11,
                 <1>12, <1>13 DEF Next

\* The strengthened invariant holds throughout: connecting a block and disconnecting it both
\* pass through the same intermediate coin sets (ConnectBlock, DisconnectBlock).
THEOREM InductiveInvariant == Spec => []IInv
  BY InitStep, NextStep, PTL DEF Spec

\* The maps, the job and the block index always have their types; a coin that is spent
\* completely is the one pruned coin (CCoins::Cleanup).
THEOREM TypeCorrect == Spec => []TypeOK
  <1>1. IInv => TypeOK
    <2> SUFFICES ASSUME IInv PROVE TypeOK
      BY SMT
    <2> DEFINE Good(m) == \A t \in Txids : m[t] \in Tidy(t)
    <2>1. \A b \in Blocks : Good(CoinsAt[b])
      BY CoinsAtFacts
    <2>2. ASSUME NEW m \in MapType, Good(m.coins) PROVE MapOK(m)
      <3>1. \A t \in Txids : m.coins[t] \in {c \in CoinType : IsPruned(c) => c = Pruned}
        BY <2>2 DEF Tidy
      <3>2. QED  BY <3>1 DEF MapOK, MapType
    <2>3. /\ disk \in MapType /\ tip \in MapType /\ view \in MapType
          /\ (open <=> job.kind # "idle") /\ (~open => view = tip)
          /\ job.kind \in {"idle", "connect", "disconnect", "flush"} /\ dUndo \subseteq Indexed
      BY DEF IInv, TypeInv
    <2>4. Good(disk.coins) /\ Good(tip.coins)
      BY <2>1, <2>3 DEF IInv, Sound, MapType
    <2>5. Good(view.coins)
      <3>1. CASE job.kind = "idle"
        BY <2>3, <2>4, <3>1
      <3>2. CASE job.kind = "connect"
        BY <3>2, PartTidy DEF IInv, ConnectInv
      <3>3. CASE job.kind = "disconnect"
        <4>1. job.block \in Blocks \ {Genesis}
          BY <3>3 DEF IInv, DisconnectInv, TypeInv, MapType
        <4>2. \E i, j : view.coins = Part(job.block, i, j)
          BY <3>3 DEF IInv, DisconnectInv
        <4>3. QED  BY <4>1, <4>2, PartTidy
      <3>4. CASE job.kind = "flush"
        BY <2>1, <2>3, <3>4 DEF IInv, Sound, MapType
      <3>5. QED  BY <2>3, <3>1, <3>2, <3>3, <3>4
    <2> HIDE DEF Good
    <2>6. MapOK(disk) /\ MapOK(tip) /\ MapOK(view)
      BY <2>2, <2>3, <2>4, <2>5
    <2>7. QED  BY <2>3, <2>6 DEF TypeOK
  <1>2. QED  BY <1>1, InductiveInvariant, PTL

\* pcoinsTip is always the coin set of the chain to its best block, whatever was connected,
\* rejected, disconnected, flushed and lost before (ConnectTip, DisconnectTip).
THEOREM TipIsChainState == Spec => []CoinsMatchChain
  <1>1. IInv => CoinsMatchChain
    BY DEF IInv, Sound, CoinsMatchChain
  <1>2. QED  BY <1>1, InductiveInvariant, PTL

\* The coin database is always the coin set of the block that GetBestBlock names: a crash
\* at any moment restarts from the state of a chain (FlushStateToDisk).
THEOREM DatabaseIsChainState == Spec => []DiskMatchesBest
  <1>1. IInv => DiskMatchesBest
    BY DEF IInv, Sound, DiskMatchesBest
  <1>2. QED  BY <1>1, InductiveInvariant, PTL

\* Every block of the active chain can be disconnected: its undo data are known, also after
\* a crash (the order of the writes in FlushStateToDisk), and DisconnectBlock never finds
\* anything but what ConnectBlock left, so that fClean stays true.
THEOREM TipCanBeUndone == Spec => []TipUndoable
  <1>1. IInv => TipUndoable
    <2>1. IInv => UndoAvailable
      BY DEF IInv, Sound, Indexed, UndoAvailable
    <2>2. IInv => UndoClean
      BY DEF IInv, TypeInv, UndoClean
    <2>3. QED  BY <2>1, <2>2 DEF TipUndoable
  <1>2. QED  BY <1>1, InductiveInvariant, PTL

\* The assert(false) of UpdateCoins is not reached: each input is unspent when it is spent.
THEOREM InputsAreThere == Spec => []SpendsAvailable
  <1>1. IInv => SpendsAvailable
    <2> SUFFICES ASSUME IInv, job.kind = "connect", job.i <= Len(Vtx[job.block]),
                        job.j < Len(Ins[Tx]), job.j = 0 => TxOK
                 PROVE  IsAvailable(view.coins[Ins[Tx][job.j + 1][1]], Ins[Tx][job.j + 1][2])
      BY DEF SpendsAvailable
    <2> DEFINE b == job.block
               i == job.i
               j == job.j
               t == Ins[Tx][job.j + 1][1]
               n == Ins[Tx][job.j + 1][2]
    <2>1. CheckTransaction(Vtx[b][i]) /\ HaveInputs(Part(b, i, 0), Vtx[b][i])
      BY TurnChecked DEF Tx
    <2>2. view.coins = Part(b, i, j)
      BY DEF IInv, ConnectInv
    <2>3. Input(b, i, j, t, n)
      BY TurnInput
    <2> HIDE DEF t, n
    <2>4. n \in Part(b, i, j)[t].vout
      BY <2>1, <2>3, InputThere
    <2>5. QED  BY <2>2, <2>4 DEF IsAvailable, t, n
  <1>2. QED  BY <1>1, InductiveInvariant, PTL

\* The block operations use the coin views only as CoinsMap promises them, which CoinsCache
\* is proved to implement.
THEOREM UsesViewsAsPromised == Spec => UsesMaps
  <1>1. IInv /\ IInv' /\ [Next]_vars => [Maps!Next]_maps
    <2> SUFFICES ASSUME IInv, IInv', [Next]_vars PROVE [Maps!Next]_maps
      BY SMT
    <2>1. /\ view \in MapType /\ view' \in MapType /\ open \in BOOLEAN
          /\ open <=> job.kind # "idle"
      BY DEF IInv, TypeInv
    <2>2. ASSUME NEW t \in Txids, NEW c, SetCoins(t, c), open, UNCHANGED <<disk, tip, open>>
          PROVE  Maps!Next
      <3>1. view' = [view EXCEPT !.coins[t] = Normal(c)]
        BY <2>2 DEF SetCoins
      <3>2. view'.coins[t] = Normal(c) /\ view'.coins[t] \in CoinType
        BY <2>1, <3>1 DEF MapType
      <3>3. Maps!Modify(t)
        BY <2>2, <3>1, <3>2 DEF Maps!Modify
      <3>4. QED  BY <3>3 DEF Maps!Next
    <2>3. CASE \E b \in Blocks : BeginConnect(b)
      BY <2>3 DEF BeginConnect, Maps!Next, Maps!Open
    <2>4. CASE SpendInput
      <3> DEFINE t == Ins[Tx][job.j + 1][1]
                 n == Ins[Tx][job.j + 1][2]
                 c == view.coins[t]
      <3>1. /\ job.kind = "connect" /\ UNCHANGED <<disk, tip, open>>
            /\ SetCoins(t, [c EXCEPT !.vout = c.vout \ {n}])
        BY <2>4 DEF SpendInput
      <3>2. Input(job.block, job.i, job.j, t, n)
        BY <2>4, TurnInput DEF SpendInput
      <3>3. t \in Txids
        BY <3>2 DEF Input
      <3>4. open
        BY <2>1, <3>1
      <3>5. QED  BY <2>2, <3>1, <3>3, <3>4
    <2>5. CASE AddOutputs
      <3>1. /\ job.kind = "connect" /\ UNCHANGED <<disk, tip, open>>
            /\ SetCoins(Tx, FromTx(Tx, Height(job.block)))
        BY <2>5 DEF AddOutputs
      <3>2. Tx \in Txids
        BY <2>5, TurnChecked, IndexFacts DEF AddOutputs, Tx
      <3>3. open
        BY <2>1, <3>1
      <3>4. QED  BY <2>2, <3>1, <3>2, <3>3
    <2>6. CASE FinishConnect
      <3>1. job.kind = "connect" /\ job.block \in Blocks
        BY <2>6 DEF FinishConnect, IInv, ConnectInv
      <3>2. Maps!SetBestBlock(job.block)
        BY <2>1, <2>6, <3>1 DEF FinishConnect, Maps!SetBestBlock
      <3>3. QED  BY <3>1, <3>2 DEF Maps!Next
    <2>7. CASE RejectBlock
      BY <2>1, <2>7 DEF RejectBlock, Maps!Next, Maps!Forget
    <2>8. CASE BeginDisconnect
      BY <2>8 DEF BeginDisconnect, Maps!Next, Maps!Open
    <2>9. CASE RemoveOutputs
      <3>1. /\ job.kind = "disconnect" /\ job.i > 0 /\ UNCHANGED <<disk, tip, open>>
            /\ SetCoins(Tx, Pruned)
        BY <2>9 DEF RemoveOutputs
      <3>2. Tx \in Txids
        BY <3>1, UndoTurn, IndexFacts DEF Tx
      <3>3. open
        BY <2>1, <3>1
      <3>4. QED  BY <2>2, <3>1, <3>2, <3>3
    <2>10. CASE RestoreInput
      <3> DEFINE t == Ins[Tx][job.j][1]
                 n == Ins[Tx][job.j][2]
                 u == undo[job.block][job.i - 1][job.j]
      <3>1. /\ job.kind = "disconnect" /\ job.i > 0 /\ job.j > 0 /\ UNCHANGED <<disk, tip, open>>
            /\ SetCoins(t, Restored(view.coins[t], u, n))
        BY <2>10 DEF RestoreInput
      <3>2. t \in Txids
        <4>1. job.block \in Blocks \ {Genesis} /\ job.i \in DOMAIN Vtx[job.block]
          BY <3>1, UndoTurn
        <4>2. Tx \in Txids /\ DOMAIN Ins[Tx] = 1..Len(Ins[Tx]) /\ Len(Ins[Tx]) \in Nat
          BY <4>1, IndexFacts DEF Tx
        <4>3. job.j \in Nat /\ job.j <= Len(Ins[Tx])
          BY <3>1, <4>1 DEF IInv, DisconnectInv, Position, Tx
        <4>4. job.j > 0
          BY <3>1
        <4>5. job.j \in DOMAIN Ins[Tx]
          BY SMT, <4>2, <4>3, <4>4
        <4>6. QED  BY <4>1, <4>2, <4>5, IndexFacts
      <3>3. open
        BY <2>1, <3>1
      <3>4. QED  BY <2>2, <3>1, <3>2, <3>3
    <2>11. CASE FinishDisconnect
      <3>1. /\ job.kind = "disconnect" /\ job.block \in Blocks \ {Genesis} /\ job.clean = TRUE
        BY <2>11 DEF FinishDisconnect, IInv, DisconnectInv, TypeInv, MapType
      <3>2. Parent[job.block] \in Blocks
        BY <3>1, HeightFacts
      <3>3. Maps!SetBestBlock(Parent[job.block])
        BY <2>1, <2>11, <3>1 DEF FinishDisconnect, Maps!SetBestBlock
      <3>4. QED  BY <3>2, <3>3 DEF Maps!Next
    <2>12. CASE FlushView
      BY <2>1, <2>12 DEF FlushView, Maps!Next, Maps!Flush
    <2>13. CASE FlushStateToDisk
      BY <2>13 DEF FlushStateToDisk, Maps!Next, Maps!FlushTip
    <2>14. CASE Crash
      BY <2>14 DEF Crash, Maps!Next, Maps!Crash
    <2>15. CASE UNCHANGED vars
      BY <2>15 DEF vars, maps
    <2>16. QED  BY <2>3, <2>4, <2>5, <2>6, <2>7, <2>8, <2>9, <2>10, <2>11, <2>12, <2>13,
                   <2>14, <2>15 DEF Next
  <1>2. QED  BY <1>1, InductiveInvariant, PTL DEF Spec, UsesMaps

-------------------------------------------------------------------------------
(* The value of a set of outputs *)

\* Finitely many outputs, none of negative value.
Priced(U) == IsFiniteSet(U) /\ \A p \in U : ValueOf(p) \in Nat

LEMMA ValueIs ==
    ASSUME NEW U, IsFiniteSet(U), NEW f, \A p \in U : f[p] = ValueOf(p)
    PROVE  Value(U) = SumFunctionOnSet(f, U)
  <1> DEFINE g == [p \in U |-> ValueOf(p)]
  <1>1. Value(U) = SumFunctionOnSet(g, U)
    <2>1. DOMAIN g = U
      OBVIOUS
    <2> HIDE DEF g
    <2>2. SumFunction(g) = SumFunctionOnSet(g, U)
      BY <2>1 DEF SumFunction, SumFunctionOnSet, FoldFunction, FoldFunctionOnSet
    <2>3. QED  BY <2>2 DEF Value, g
  <1>2. \A p \in U : g[p] = f[p]
    OBVIOUS
  <1> HIDE DEF g
  <1>3. SumFunctionOnSet(g, U) = SumFunctionOnSet(f, U)
    BY <1>2, SumSame
  <1>4. QED  BY <1>1, <1>3

LEMMA ValueRemove ==
    ASSUME NEW U, Priced(U), NEW p \in U
    PROVE  /\ Priced(U \ {p}) /\ ValueOf(p) \in Nat
           /\ Value(U) \in Int /\ Value(U \ {p}) \in Int
           /\ Value(U) = ValueOf(p) + Value(U \ {p})
  <1> DEFINE g == [q \in U |-> ValueOf(q)]
             V == U \ {p}
  <1>1. Priced(V) /\ IsFiniteSet(V) /\ IsFiniteSet(U) /\ ValueOf(p) \in Nat
    <2>1. IsFiniteSet(U)
      BY DEF Priced
    <2>2. IsFiniteSet(V)
      BY <2>1, FS_RemoveElement
    <2>3. QED  BY <2>1, <2>2 DEF Priced
  <1>2. \A q \in U : g[q] = ValueOf(q) /\ g[q] \in Int
    BY SMT DEF Priced
  <1>3. \A q \in V : g[q] = ValueOf(q) /\ g[q] \in Int
    BY <1>2
  <1>4. Summable(g, U) /\ Summable(g, V)
    BY <1>1, <1>2, <1>3 DEF Summable
  <1>5. g[p] = ValueOf(p)
    OBVIOUS
  <1> HIDE DEF g
  <1>6. Value(U) = SumFunctionOnSet(g, U)
    BY <1>1, <1>2, ValueIs
  <1>7. Value(V) = SumFunctionOnSet(g, V)
    <2> HIDE DEF V
    <2>1. QED  BY <1>1, <1>3, ValueIs
  <1>8. SumFunctionOnSet(g, U) = g[p] + SumFunctionOnSet(g, U \ {p})
    BY SMT, <1>4, SumRemove
  <1>9. SumFunctionOnSet(g, U) \in Int /\ SumFunctionOnSet(g, V) \in Int
    BY <1>4, SumInt
  <1>10. QED  BY <1>1, <1>5, <1>6, <1>7, <1>8, <1>9

LEMMA ValueInt == ASSUME NEW U, Priced(U) PROVE Value(U) \in Int
  <1>1. CASE U = {}
    <2>1. Value({}) = SumFunctionOnSet([p \in {} |-> 0], {})
      <3>1. IsFiniteSet({})
        BY FS_EmptySet
      <3>2. QED  BY <3>1, ValueIs
    <2>2. QED  BY SMT, <1>1, <2>1, SumEmpty
  <1>2. CASE U # {}
    BY <1>2, ValueRemove
  <1>3. QED  BY <1>1, <1>2

LEMMA ValueEmpty == Priced({}) /\ Value({}) = 0
  <1>1. IsFiniteSet({})
    BY FS_EmptySet
  <1>2. Value({}) = SumFunctionOnSet([p \in {} |-> 0], {})
    BY <1>1, ValueIs
  <1>3. QED  BY <1>1, <1>2, SumEmpty DEF Priced

\* An output more adds its value, or nothing when it was there.
LEMMA ValueAdd ==
    ASSUME NEW U, Priced(U), NEW p, ValueOf(p) \in Nat
    PROVE  Priced(U \cup {p}) /\ Value(U \cup {p}) <= Value(U) + ValueOf(p)
  <1>1. Value(U) \in Int
    BY ValueInt
  <1>2. CASE p \in U
    <2>1. U \cup {p} = U
      BY <1>2
    <2>2. Value(U) <= Value(U) + ValueOf(p)
      BY SMT, <1>1
    <2>3. QED  BY <2>1, <2>2
  <1>3. CASE p \notin U
    <2> DEFINE V == U \cup {p}
    <2>1. Priced(V) /\ p \in V /\ V \ {p} = U
      <3>1. IsFiniteSet(V)
        BY FS_AddElement DEF Priced
      <3>2. V \ {p} = U
        BY <1>3
      <3>3. QED  BY <3>1, <3>2 DEF Priced
    <2> HIDE DEF V
    <2>2. Value(V) = ValueOf(p) + Value(U)
      <3>1. Value(V) = ValueOf(p) + Value(V \ {p})
        BY <2>1, ValueRemove
      <3>2. QED  BY <2>1, <3>1
    <2>3. Value(V) <= Value(U) + ValueOf(p)
      BY SMT, <1>1, <2>2
    <2>4. QED  BY <2>1, <2>3 DEF V
  <1>4. QED  BY <1>2, <1>3

LEMMA ValuePart ==
    ASSUME NEW U, Priced(U), NEW V, V \subseteq U
    PROVE  Priced(V) /\ Value(V) <= Value(U)
  <1> DEFINE g == [q \in U |-> ValueOf(q)]
  <1>1. IsFiniteSet(U) /\ IsFiniteSet(V) /\ Priced(V)
    <2>1. IsFiniteSet(V)
      BY FS_Subset DEF Priced
    <2>2. QED  BY <2>1 DEF Priced
  <1>2. \A q \in U : g[q] = ValueOf(q) /\ g[q] \in Int /\ g[q] >= 0
    BY SMT DEF Priced
  <1> HIDE DEF g
  <1>3. Value(U) = SumFunctionOnSet(g, U)
    BY <1>1, <1>2, ValueIs
  <1>4. Value(V) = SumFunctionOnSet(g, V)
    BY <1>1, <1>2, ValueIs
  <1>5. SumFunctionOnSet(g, V) <= SumFunctionOnSet(g, U)
    <2>1. Summable(g, U)
      BY <1>1, <1>2 DEF Summable
    <2>2. QED  BY <1>2, <2>1, SumPart
  <1>6. QED  BY <1>1, <1>3, <1>4, <1>5

\* What a transaction creates is worth its value out, wherever it is put.
LEMMA ValueOfOutputs ==
    ASSUME NEW U, Priced(U), NEW t \in Txids, CheckTransaction(t), NEW M, M \subseteq DOMAIN Outs[t]
    PROVE  Priced(U \cup ({t} \X M)) /\ Value(U \cup ({t} \X M)) <= Value(U) + GetValueOut(t)
  <1> DEFINE D == DOMAIN Outs[t]
             f == Outs[t]
             W(N) == U \cup ({t} \X N)
             Fine(N) == Priced(W(N)) /\ Value(W(N)) <= Value(U) + SumFunctionOnSet(f, N)
             Odd == {N \in SUBSET D : ~Fine(N)}
             Size == {Cardinality(N) : N \in Odd}
  <1>1. IsFiniteSet(D) /\ \A n \in D : f[n] \in Nat
    <2>1. D = 1..Len(f) /\ Len(f) \in Nat
      <3>1. f \in Seq(Int)
        BY TransactionAssumption
      <3>2. QED  BY SMT, <3>1
    <2>2. IsFiniteSet(D)
      BY SMT, <2>1, FS_Interval
    <2>3. \A n \in D : f[n] \in 0..MaxMoney
      BY DEF CheckTransaction, MoneyRange
    <2>4. MaxMoney \in Nat
      BY TransactionAssumption
    <2>5. QED  BY SMT, <2>2, <2>3, <2>4
  <1> HIDE DEF f, D
  <1>2. \A N \in SUBSET D : IsFiniteSet(N) /\ Cardinality(N) \in Nat /\ Summable(f, N)
    BY SMT, <1>1, FS_Subset, FS_CardinalityType DEF Summable
  <1>3. Value(U) \in Int
    BY ValueInt
  <1>4. \A N \in SUBSET D : Fine(N)
    <2>1. SUFFICES ASSUME Odd # {} PROVE FALSE
      OBVIOUS
    <2> HIDE DEF Fine
    <2>2. Size \subseteq Nat /\ Size # {}
      BY <1>2, <2>1
    <2>3. PICK k \in Size : \A m \in Size : k <= m
      BY <2>2, LeastNat
    <2>4. PICK N \in Odd : k = Cardinality(N)
      BY <2>3
    <2>5. N # {}
      <3>1. W({}) = U
        OBVIOUS
      <3>2. Value(U) <= Value(U) + SumFunctionOnSet(f, {})
        BY SMT, <1>3, SumEmpty
      <3>3. Fine({})
        BY <3>1, <3>2 DEF Fine
      <3>4. QED  BY <2>4, <3>3
    <2>6. PICK n \in N : TRUE
      BY <2>5
    <2> DEFINE R == N \ {n}
    <2>7. R \in SUBSET D /\ ~(k <= Cardinality(R)) /\ SumFunctionOnSet(f, R) \in Int
      <3>1. Cardinality(R) = Cardinality(N) - 1 /\ Cardinality(N) \in Nat
        BY <1>2, <2>4, <2>6, FS_RemoveElement
      <3>2. R \in SUBSET D
        BY <2>4
      <3>3. SumFunctionOnSet(f, R) \in Int
        BY <1>2, <3>2, SumInt
      <3>4. ~(k <= Cardinality(R))
        BY SMT, <2>4, <3>1
      <3>5. QED  BY <3>2, <3>3, <3>4
    <2>8. Fine(R)
      BY <2>3, <2>7
    <2>9. SumFunctionOnSet(f, N) = f[n] + SumFunctionOnSet(f, R) /\ f[n] \in Nat
      <3>1. Summable(f, N) /\ n \in D
        BY <1>2, <2>4, <2>6
      <3>2. SumFunctionOnSet(f, N) = f[n] + SumFunctionOnSet(f, R)
        BY SMT, <2>6, <3>1, SumRemove
      <3>3. QED  BY <1>1, <3>1, <3>2
    <2>10. ValueOf(<<t, n>>) = f[n]
      BY DEF ValueOf, f
    <2>11. W(N) = W(R) \cup {<<t, n>>}
      BY SMT, <2>6
    <2>12. /\ Priced(W(R)) /\ Value(W(R)) <= Value(U) + SumFunctionOnSet(f, R)
           /\ Value(W(R)) \in Int
      BY <2>8, ValueInt DEF Fine
    <2> DEFINE X == W(R)
    <2> HIDE DEF X, W
    <2>13. Priced(X \cup {<<t, n>>}) /\ Value(X \cup {<<t, n>>}) <= Value(X) + ValueOf(<<t, n>>)
      <3>1. Priced(X) /\ ValueOf(<<t, n>>) \in Nat
        BY <2>9, <2>10, <2>12 DEF X
      <3>2. QED  BY <3>1, ValueAdd
    <2>14. Priced(W(N)) /\ Value(W(N)) <= Value(W(R)) + f[n] /\ Value(W(N)) \in Int
      BY <2>10, <2>11, <2>13, ValueInt DEF X
    <2>15. Value(W(N)) <= Value(U) + SumFunctionOnSet(f, N)
      BY SMT, <1>3, <2>7, <2>9, <2>12, <2>14
    <2>16. Fine(N)
      BY <2>14, <2>15 DEF Fine
    <2>17. QED  BY <2>4, <2>16
  <1> DEFINE V == W(M)
  <1>5. Priced(V) /\ Value(V) <= Value(U) + SumFunctionOnSet(f, M)
    BY <1>4 DEF D
  <1>6. SumFunctionOnSet(f, M) <= SumFunctionOnSet(f, D) /\ SumFunctionOnSet(f, M) \in Int
    <2>1. \A n \in D : f[n] >= 0
      BY SMT, <1>1
    <2>2. M \in SUBSET D
      BY DEF D
    <2>3. Summable(f, D) /\ Summable(f, M)
      BY <1>2, <2>2
    <2>4. QED  BY <2>1, <2>2, <2>3, SumPart, SumInt
  <1>7. GetValueOut(t) = SumFunctionOnSet(f, D) /\ SumFunctionOnSet(f, D) \in Int
    <2>1. GetValueOut(t) = SumFunctionOnSet(f, D)
      BY DEF GetValueOut, SumFunction, SumFunctionOnSet, FoldFunction, FoldFunctionOnSet, f, D
    <2>2. QED  BY <1>2, <2>1, SumInt
  <1> HIDE DEF V
  <1>8. Value(V) \in Int
    BY <1>5, ValueInt
  <1>9. Value(V) <= Value(U) + GetValueOut(t)
    BY SMT, <1>3, <1>5, <1>6, <1>7, <1>8
  <1>10. QED  BY <1>5, <1>9 DEF V

LEMMA InUtxos == ASSUME NEW m, NEW t \in Txids, NEW n \in m[t].vout PROVE <<t, n>> \in Utxos(m)
  BY SMT DEF Utxos

\* The outputs of a map of coins after one of them was spent or replaced.
LEMMA UtxosSpent ==
    ASSUME NEW m \in [Txids -> CoinType], NEW t \in Txids, NEW n
    PROVE  Utxos([m EXCEPT ![t] = Normal(Spent(m[t], n))]) = Utxos(m) \ {<<t, n>>}
  <1> DEFINE w == [m EXCEPT ![t] = Normal(Spent(m[t], n))]
  <1>1. w[t].vout = m[t].vout \ {n}
    <2>1. Spent(m[t], n).vout = m[t].vout \ {n}
      <3>1. m[t] \in CoinType
        OBVIOUS
      <3>2. m[t] \in [vout : SUBSET Nat, height : Nat, coinbase : BOOLEAN]
        BY <3>1, CoinShape
      <3>3. QED  BY <3>2 DEF Spent
    <2>2. Normal(Spent(m[t], n)).vout = Spent(m[t], n).vout
      BY DEF Normal, IsPruned, Pruned
    <2>3. QED  BY <2>1, <2>2
  <1>2. \A x \in Txids \ {t} : w[x] = m[x]
    OBVIOUS
  <1> HIDE DEF w
  <1>3. ASSUME NEW p PROVE p \in Utxos(w) <=> p \in Utxos(m) \ {<<t, n>>}
    BY SMT, <1>1, <1>2 DEF Utxos
  <1>4. QED  BY <1>3 DEF w

LEMMA UtxosSet ==
    ASSUME NEW m \in [Txids -> CoinType], NEW t \in Txids, NEW c
    PROVE  Utxos([m EXCEPT ![t] = c]) \subseteq Utxos(m) \cup ({t} \X c.vout)
  <1> DEFINE w == [m EXCEPT ![t] = c]
  <1>1. w[t] = c /\ \A x \in Txids \ {t} : w[x] = m[x]
    OBVIOUS
  <1> HIDE DEF w
  <1>2. QED  BY <1>1 DEF Utxos, w

-------------------------------------------------------------------------------
(* The subsidies of a chain *)

\* Shifting the subsidy of the first block is well defined, and never negative.
LEMMA HalvedNat == \A k \in 0..63 : Halved[k] \in Nat
  <1> DEFINE Step(g, k) == IF k = 0 THEN GenesisSubsidy ELSE g[k - 1] \div 2
             Claim(n) == \E g : \A k \in 0..n : g[k] = Step(g, k)
             Bad == {n \in Nat : ~Claim(n)}
  <1>1. \A n \in Nat : Claim(n)
    <2>1. SUFFICES ASSUME Bad # {} PROVE FALSE
      OBVIOUS
    <2>2. PICK n \in Bad : \A m \in Bad : n <= m
      <3> HIDE DEF Claim
      <3>1. QED  BY <2>1, LeastNat
    <2>3. CASE n = 0
      <3> DEFINE g == [k \in 0..0 |-> GenesisSubsidy]
      <3>1. \A k \in 0..0 : g[k] = Step(g, k)
        BY SMT
      <3>2. QED  BY <2>2, <2>3, <3>1
    <2>4. CASE n # 0
      <3>1. n \in Nat /\ n - 1 \in Nat /\ ~(n <= n - 1)
        <4>1. n \in Nat
          BY <2>2
        <4>2. QED  BY SMT, <2>4, <4>1
      <3>2. PICK g : \A k \in 0..(n - 1) : g[k] = Step(g, k)
        BY <2>2, <3>1
      <3> DEFINE h == [k \in 0..n |-> Step(g, k)]
      <3>3. \A k \in 0..n : h[k] = Step(h, k)
        <4> TAKE k \in 0..n
        <4>1. CASE k = 0
          BY <4>1
        <4>2. CASE k # 0
          <5>1. k - 1 \in 0..n /\ k - 1 \in 0..(n - 1)
            BY SMT, <3>1, <4>2
          <5>2. h[k - 1] = Step(g, k - 1) /\ g[k - 1] = Step(g, k - 1)
            BY <3>2, <5>1
          <5>3. QED  BY <4>2, <5>2
        <4>3. QED  BY <4>1, <4>2
      <3>4. QED  BY <2>2, <3>3
    <2>5. QED  BY <2>3, <2>4
  <1>2. PICK g : \A k \in 0..63 : g[k] = Step(g, k)
    <2>1. 63 \in Nat
      BY SMT
    <2>2. QED  BY <1>1, <2>1
  <1> DEFINE h == [k \in 0..63 |-> g[k]]
  <1>3. h = [k \in 0..63 |-> IF k = 0 THEN GenesisSubsidy ELSE h[k - 1] \div 2]
    <2>1. \A k \in 0..63 : h[k] = IF k = 0 THEN GenesisSubsidy ELSE h[k - 1] \div 2
      <3> TAKE k \in 0..63
      <3>1. k # 0 => k - 1 \in 0..63
        BY SMT
      <3>2. QED  BY <1>2, <3>1
    <2>2. QED  BY <2>1
  <1> HIDE DEF h
  <1>4. Halved = [k \in 0..63 |-> IF k = 0 THEN GenesisSubsidy ELSE Halved[k - 1] \div 2]
    BY <1>3 DEF Halved
  <1>5. /\ Halved[0] \in Nat
        /\ \A k \in 0..63 : k # 0 => Halved[k] = Halved[k - 1] \div 2
    <2> DEFINE H == Halved
    <2>1. H = [k \in 0..63 |-> IF k = 0 THEN GenesisSubsidy ELSE H[k - 1] \div 2]
      BY <1>4
    <2> HIDE DEF H
    <2>2. H[0] = GenesisSubsidy /\ \A k \in 0..63 : k # 0 => H[k] = H[k - 1] \div 2
      BY SMT, <2>1
    <2>3. QED  BY <2>2, SubsidyAssumption DEF H
  <1> DEFINE Odd == {k \in 0..63 : Halved[k] \notin Nat}
  <1>6. SUFFICES ASSUME Odd # {} PROVE FALSE
    OBVIOUS
  <1>7. Odd \subseteq Nat
    BY SMT
  <1>8. PICK k \in Odd : \A m \in Odd : k <= m
    BY <1>6, <1>7, LeastNat
  <1>9. k # 0
    BY <1>5, <1>8
  <1>10. k \in 0..63 /\ k - 1 \in 0..63 /\ ~(k <= k - 1)
    <2>1. k \in 0..63
      BY <1>8
    <2>2. QED  BY SMT, <1>9, <2>1
  <1>11. Halved[k - 1] \in Nat
    BY <1>8, <1>10
  <1>12. Halved[k - 1] \div 2 \in Nat
    BY SMT, <1>11
  <1>13. Halved[k] \in Nat
    BY <1>5, <1>9, <1>10, <1>12
  <1>14. QED  BY <1>8, <1>13

LEMMA SubsidyNat == ASSUME NEW h \in Nat PROVE GetBlockSubsidy(h) \in Nat
  <1> DEFINE k == h \div HalvingInterval
  <1>1. k \in Nat
    BY SMT, SubsidyAssumption
  <1> HIDE DEF k
  <1>2. k >= 64 \/ k \in 0..63
    BY SMT, <1>1
  <1>3. 0 \in Nat
    BY SMT
  <1>4. QED  BY <1>2, <1>3, HalvedNat DEF GetBlockSubsidy, k

\* The subsidies of a chain, block by block.
LEMMA MintedChain ==
    ASSUME NEW b \in Blocks
    PROVE  /\ Minted(Chain[b] \ {Genesis}) \in Int
           /\ b # Genesis => Minted(Chain[b] \ {Genesis}) =
                                GetBlockSubsidy(Height(b)) + Minted(Chain[Parent[b]] \ {Genesis})
  <1> DEFINE f == [c \in Blocks |-> GetBlockSubsidy(Height(c))]
  <1>1. \A c \in Blocks : f[c] = GetBlockSubsidy(Height(c)) /\ f[c] \in Int
    <2>1. \A c \in Blocks : GetBlockSubsidy(Height(c)) \in Nat
      BY HeightFacts, SubsidyNat
    <2>2. QED  BY SMT, <2>1
  <1>2. ASSUME NEW S \in SUBSET Blocks, IsFiniteSet(S)
        PROVE  Minted(S) = SumFunctionOnSet(f, S) /\ Summable(f, S)
    <2> DEFINE g == [c \in S |-> GetBlockSubsidy(Height(c))]
    <2>1. DOMAIN g = S /\ \A c \in S : g[c] = f[c]
      OBVIOUS
    <2>2. Minted(S) = SumFunctionOnSet(g, S)
      <3> HIDE DEF g
      <3>1. SumFunction(g) = SumFunctionOnSet(g, S)
        BY <2>1 DEF SumFunction, SumFunctionOnSet, FoldFunction, FoldFunctionOnSet
      <3>2. QED  BY <3>1 DEF Minted, g
    <2> HIDE DEF g, f
    <2>3. SumFunctionOnSet(g, S) = SumFunctionOnSet(f, S)
      BY <1>2, <2>1, SumSame
    <2>4. QED  BY <1>1, <1>2, <2>2, <2>3 DEF Summable
  <1> HIDE DEF f
  <1>3. ASSUME NEW c \in Blocks
        PROVE  Chain[c] \ {Genesis} \in SUBSET Blocks /\ IsFiniteSet(Chain[c] \ {Genesis})
    <2>1. Chain[c] \subseteq Blocks /\ IsFiniteSet(Chain[c])
      BY HeightFacts, TreeAssumption
    <2>2. Chain[c] \ {Genesis} \subseteq Chain[c]
      OBVIOUS
    <2>3. IsFiniteSet(Chain[c] \ {Genesis})
      BY <2>1, <2>2, FS_Subset
    <2>4. QED  BY <2>1, <2>3
  <1>4. Minted(Chain[b] \ {Genesis}) \in Int
    BY <1>2, <1>3, SumInt
  <1>5. ASSUME b # Genesis
        PROVE  Minted(Chain[b] \ {Genesis}) =
                  GetBlockSubsidy(Height(b)) + Minted(Chain[Parent[b]] \ {Genesis})
    <2> DEFINE S == Chain[b] \ {Genesis}
               T == Chain[Parent[b]] \ {Genesis}
    <2>1. b \in S /\ S \ {b} = T /\ Parent[b] \in Blocks
      <3>1. b \in Chain[b] /\ Chain[b] \ {b} = Chain[Parent[b]] /\ Parent[b] \in Blocks
        BY <1>5, HeightFacts
      <3>2. QED  BY <1>5, <3>1
    <2>2. Minted(S) = SumFunctionOnSet(f, S) /\ Minted(T) = SumFunctionOnSet(f, T) /\ Summable(f, S)
      BY <1>2, <1>3, <2>1
    <2> HIDE DEF S, T
    <2>3. SumFunctionOnSet(f, S) = f[b] + SumFunctionOnSet(f, T)
      <3>1. SumFunctionOnSet(f, S) = f[b] + SumFunctionOnSet(f, S \ {b})
        BY SMT, <2>1, <2>2, SumRemove
      <3>2. QED  BY <2>1, <3>1
    <2>4. QED  BY <1>1, <2>2, <2>3 DEF S, T
  <1>6. QED  BY <1>4, <1>5

-------------------------------------------------------------------------------
(* The value of the inputs of a transaction from number j + 1 on *)

Due(t, j) == SumFunctionOnSet([k \in DOMAIN Ins[t] |-> ValueOf(Ins[t][k])], (j + 1)..Len(Ins[t]))

LEMMA DueFacts ==
    ASSUME NEW t \in Txids, \A k \in DOMAIN Ins[t] : ValueOf(Ins[t][k]) \in Int, NEW j \in Nat
    PROVE  /\ Due(t, j) \in Int
           /\ j < Len(Ins[t]) => Due(t, j) = ValueOf(Ins[t][j + 1]) + Due(t, j + 1)
           /\ j = Len(Ins[t]) => Due(t, j) = 0
           /\ j = 0 => Due(t, j) = GetValueIn(t)
  <1> DEFINE f == [k \in DOMAIN Ins[t] |-> ValueOf(Ins[t][k])]
             len == Len(Ins[t])
  <1>1. len \in Nat /\ DOMAIN Ins[t] = 1..len
    <2>1. Ins[t] \in Seq(Txids \X (Nat \ {0}))
      BY TransactionAssumption
    <2>2. QED  BY SMT, <2>1
  <1>2. DOMAIN f = 1..len /\ \A k \in 1..len : f[k] = ValueOf(Ins[t][k]) /\ f[k] \in Int
    BY <1>1
  <1> HIDE DEF f, len
  <1>3. ASSUME NEW i \in Nat
        PROVE  Summable(f, (i + 1)..len) /\ Due(t, i) = SumFunctionOnSet(f, (i + 1)..len)
    <2>1. i + 1 \in Int /\ len \in Int /\ (i + 1)..len \subseteq 1..len
      BY SMT, <1>1
    <2>2. IsFiniteSet((i + 1)..len)
      BY <2>1, FS_Interval
    <2>3. QED  BY <1>2, <2>1, <2>2 DEF Summable, Due, f, len
  <1>4. Due(t, j) \in Int
    BY <1>3, SumInt
  <1>5. ASSUME j < len PROVE Due(t, j) = ValueOf(Ins[t][j + 1]) + Due(t, j + 1)
    <2>1. /\ j + 1 \in (j + 1)..len /\ ((j + 1)..len) \ {j + 1} = ((j + 1) + 1)..len
          /\ j + 1 \in Nat /\ j + 1 \in 1..len
      BY SMT, <1>1, <1>5
    <2> DEFINE S == (j + 1)..len
               x == j + 1
    <2>2. Summable(f, S) /\ x \in S
      BY <1>3, <2>1
    <2> HIDE DEF S, x
    <2>3. SumFunctionOnSet(f, S) = f[x] + SumFunctionOnSet(f, S \ {x})
      BY SMT, <2>2, SumRemove
    <2>4. QED  BY <1>2, <1>3, <2>1, <2>3 DEF S, x
  <1>6. ASSUME j = len PROVE Due(t, j) = 0
    <2>1. (j + 1)..len = {}
      BY SMT, <1>1, <1>6
    <2>2. QED  BY <1>3, <2>1, SumEmpty
  <1>7. ASSUME j = 0 PROVE Due(t, j) = GetValueIn(t)
    <2>1. (j + 1)..len = DOMAIN f
      BY SMT, <1>2, <1>7
    <2>2. GetValueIn(t) = SumFunctionOnSet(f, DOMAIN f)
      BY DEF GetValueIn, SumFunction, SumFunctionOnSet, FoldFunction, FoldFunctionOnSet, f
    <2>3. QED  BY <1>3, <2>1, <2>2
  <1>8. QED  BY <1>4, <1>5, <1>6, <1>7 DEF len

-------------------------------------------------------------------------------
(* The supply *)

\* The coins of the chain to b are worth no more than the subsidies of its blocks.
Fair(b) ==
    /\ Priced(Utxos(CoinsAt[b]))
    /\ Value(Utxos(CoinsAt[b])) <= Minted(Chain[b] \ {Genesis})

\* What the coinbase has added, and what the transaction in turn has still to take less what
\* it has still to add, when its fee is counted already.
Made == IF job.i = 1 THEN 0 ELSE GetValueOut(Vtx[job.block][1])
Pending == IF job.j = 0 THEN 0 ELSE Due(Tx, job.j) - GetValueOut(Tx)

\* While a block is connected, its fees and its coinbase account for the difference between
\* the view and the tip.
Balance ==
    /\ job.fees \in Int /\ Priced(Utxos(view.coins))
    /\ job.j > 0 => \A k \in DOMAIN Ins[Tx] : ValueOf(Ins[Tx][k]) \in Int
    /\ Value(Utxos(view.coins)) - Pending <= Value(Utxos(tip.coins)) + Made - job.fees

FairChain(b) == \A c \in Chain[b] : Fair(c)

SupplyInv ==
    /\ FairChain(tip.best) /\ FairChain(disk.best)
    /\ job.kind = "flush" => FairChain(view.best)
    /\ job.kind = "connect" => Balance

LEMMA GenesisFair == FairChain(Genesis)
  <1>1. Chain[Genesis] = {Genesis} /\ Genesis \in Blocks
    BY TreeAssumption, BlockAssumption
  <1>2. \A t \in Txids : CoinsAt[Genesis][t] = Pruned
    <2>1. \A t \in Txids : Creators(Genesis, t) = {}
      BY <1>1 DEF Creators
    <2>2. QED  BY <1>1, <2>1, CoinsAtFacts
  <1>3. Utxos(CoinsAt[Genesis]) = {}
    <2>1. \A t \in Txids : {t} \X CoinsAt[Genesis][t].vout = {}
      <3>1. \A t \in Txids : CoinsAt[Genesis][t].vout = {}
        <4>1. Pruned.vout = {}
          BY DEF Pruned
        <4>2. QED  BY <1>2, <4>1
      <3>2. QED  BY <3>1
    <2>2. QED  BY <2>1 DEF Utxos
  <1>4. Minted(Chain[Genesis] \ {Genesis}) = 0
    <2> DEFINE g == [b \in {} |-> GetBlockSubsidy(Height(b))]
    <2>1. Chain[Genesis] \ {Genesis} = {} /\ DOMAIN g = {}
      BY <1>1
    <2> HIDE DEF g
    <2>2. SumFunction(g) = SumFunctionOnSet(g, {})
      BY <2>1 DEF SumFunction, SumFunctionOnSet, FoldFunction, FoldFunctionOnSet
    <2>3. QED  BY <2>1, <2>2, SumEmpty DEF Minted, g
  <1>5. 0 <= 0
    BY SMT
  <1>6. Fair(Genesis)
    BY <1>3, <1>4, <1>5, ValueEmpty DEF Fair
  <1>7. QED  BY <1>1, <1>6 DEF FairChain

LEMMA FairBelow ==
    ASSUME NEW b \in Blocks, FairChain(b), b # Genesis
    PROVE  FairChain(Parent[b])
  <1>1. Chain[b] \ {b} = Chain[Parent[b]]
    BY HeightFacts
  <1>2. QED  BY <1>1 DEF FairChain

LEMMA FairAbove ==
    ASSUME NEW b \in Blocks, Fair(b), b # Genesis, FairChain(Parent[b])
    PROVE  FairChain(b)
  <1>1. Chain[b] \ {b} = Chain[Parent[b]]
    BY HeightFacts
  <1>2. QED  BY <1>1 DEF FairChain

\* The coins of the tip.
LEMMA TipFair ==
    ASSUME IInv, SupplyInv
    PROVE  /\ Priced(Utxos(tip.coins)) /\ Value(Utxos(tip.coins)) \in Int
           /\ Value(Utxos(tip.coins)) <= Minted(Chain[tip.best] \ {Genesis})
  <1>1. tip.coins = CoinsAt[tip.best] /\ tip.best \in Blocks
    BY DEF IInv, Sound, TypeInv, MapType
  <1>2. Fair(tip.best)
    BY <1>1, HeightFacts DEF SupplyInv, FairChain
  <1>3. QED  BY <1>1, <1>2, ValueInt DEF Fair

LEMMA ValueOutInt == ASSUME NEW t, CheckTransaction(t) PROVE GetValueOut(t) \in Int
  <1>1. GetValueOut(t) \in 0..MaxMoney
    BY DEF CheckTransaction, MoneyRange
  <1>2. QED  BY SMT, <1>1

\* After its first transaction the block has passed CheckBlock.
LEMMA MadeInt ==
    ASSUME IInv, job.kind = "connect"
    PROVE  Made \in Int
  <1>1. CASE job.i = 1
    BY SMT, <1>1 DEF Made
  <1>2. CASE job.i # 1
    <2>1. /\ job.block \in Blocks /\ job.i \in 1..(Len(Vtx[job.block]) + 1)
          /\ Checked(job.block, job.i, job.j)
      BY DEF IInv, ConnectInv
    <2>2. job.i > 1 /\ 1 \in 1..Len(Vtx[job.block])
      <3>1. Len(Vtx[job.block]) \in Nat
        BY <2>1, IndexFacts
      <3>2. QED  BY SMT, <1>2, <2>1, <3>1
    <2>3. 1 \in DOMAIN Vtx[job.block] /\ CheckBlock(job.block)
      BY <2>1, <2>2, IndexFacts DEF Checked
    <2>4. CheckTransaction(Vtx[job.block][1])
      BY <2>3 DEF CheckBlock
    <2>5. QED  BY <1>2, <2>4, ValueOutInt DEF Made
  <1>3. QED  BY <1>1, <1>2

LEMMA BeginConnectSupply ==
    ASSUME IInv, SupplyInv, NEW b \in Blocks, BeginConnect(b)
    PROVE  SupplyInv'
  <1>1. /\ UNCHANGED <<disk, tip, view>> /\ view = tip
        /\ job' = [Idle EXCEPT !.kind = "connect", !.block = b, !.i = 1]
    BY DEF BeginConnect, IInv, TypeInv
  <1>2. job'.kind = "connect" /\ job'.i = 1 /\ job'.j = 0 /\ job'.fees = 0
    BY <1>1 DEF Idle
  <1>3. Priced(Utxos(tip.coins)) /\ Value(Utxos(tip.coins)) \in Int
    BY TipFair
  <1>4. Made' = 0 /\ Pending' = 0
    BY <1>2 DEF Made, Pending
  <1>5. Value(Utxos(tip.coins)) - 0 <= Value(Utxos(tip.coins)) + 0 - 0 /\ 0 \in Int /\ ~(0 > 0)
    BY SMT, <1>3
  <1>6. Balance'
    BY <1>1, <1>2, <1>3, <1>4, <1>5 DEF Balance
  <1>7. "connect" # "flush"
    BY SMT
  <1>8. QED  BY <1>1, <1>2, <1>6, <1>7 DEF SupplyInv, FairChain

\* Spending an input takes its value from the view; the fee of a transaction is counted with
\* its first input.
LEMMA SpendInputSupply ==
    ASSUME IInv, SupplyInv, SpendInput
    PROVE  SupplyInv'
  <1> DEFINE b == job.block
             i == job.i
             j == job.j
             t == Ins[Tx][job.j + 1][1]
             n == Ins[Tx][job.j + 1][2]
             c == view.coins[t]
             U == Utxos(view.coins)
             fee == IF j = 0 THEN job.fees + GetValueIn(Tx) - GetValueOut(Tx) ELSE job.fees
  <1>1. /\ job.kind = "connect" /\ i <= Len(Vtx[b]) /\ j < Len(Ins[Tx]) /\ (j = 0 => TxOK)
        /\ SetCoins(t, Spent(c, n)) /\ UNCHANGED <<disk, tip>>
        /\ \E u : job' = [job EXCEPT !.j = @ + 1, !.fees = fee, !.txundo = Append(@, u)]
    BY DEF SpendInput, Spent
  <1>2. /\ TypeInv /\ view.coins = Part(b, i, j) /\ j \in Nat /\ view \in MapType
        /\ Balance
    BY <1>1 DEF IInv, TypeInv, ConnectInv, Position, SupplyInv
  <1>3. /\ job'.kind = "connect" /\ job'.block = b /\ job'.i = i /\ job'.j = j + 1
        /\ job'.fees = fee
    BY <1>1, <1>2 DEF TypeInv, Idle
  <1>4. Tx' = Tx /\ Made' = Made
    BY <1>3 DEF Tx, Made
  <1>5. /\ CheckTransaction(Tx) /\ HaveInputs(Part(b, i, 0), Tx) /\ Input(b, i, j, t, n)
        /\ b \in Blocks /\ i \in DOMAIN Vtx[b]
    BY <1>1, TurnChecked, TurnInput
  <1>6. Tx \in Txids /\ Tx \notin CoinBases /\ Tx = Vtx[b][i]
    <2>1. Tx \in Txids
      BY <1>5, IndexFacts DEF Tx
    <2>2. Ins[Tx] # <<>>
      BY SMT, <1>1, <1>2
    <2>3. QED  BY <2>1, <2>2, TransactionAssumption DEF Tx
  <1>7. t \in Txids /\ Ins[Tx][j + 1] = <<t, n>> /\ j + 1 \in DOMAIN Ins[Tx]
    <2>1. j + 1 \in 1..Len(Ins[Tx])
      <3>1. Len(Ins[Tx]) \in Nat
        BY <1>5, <1>6, IndexFacts
      <3>2. QED  BY SMT, <1>1, <1>2, <3>1
    <2>2. QED  BY <1>5, <1>6, <2>1, IndexFacts DEF Input
  <1> HIDE DEF fee, t, n
  <1>8. Utxos(view'.coins) = U \ {<<t, n>>} /\ <<t, n>> \in U
    <2>1. view'.coins = [view.coins EXCEPT ![t] = Normal(Spent(c, n))]
      <3>1. view' = [coins |-> [view.coins EXCEPT ![t] = Normal(Spent(c, n))], best |-> view.best]
        <4> HIDE DEF c
        <4>1. QED  BY <1>1, <1>2, SetCoinsIs
      <3>2. QED  BY <3>1
    <2>2. view.coins \in [Txids -> CoinType]
      BY <1>2 DEF MapType
    <2>3. n \in c.vout
      BY <1>2, <1>5, <1>6, InputThere
    <2>4. Utxos(view'.coins) = U \ {<<t, n>>}
      <3>1. Utxos([view.coins EXCEPT ![t] = Normal(Spent(view.coins[t], n))]) = U \ {<<t, n>>}
        BY <1>7, <2>2, UtxosSpent
      <3>2. QED  BY <2>1, <3>1
    <2>5. QED  BY <1>7, <2>3, <2>4, InUtxos
  <1> DEFINE V == Value(U)
             W == Value(U \ {<<t, n>>})
             x == ValueOf(Ins[Tx][j + 1])
             B == Value(Utxos(tip.coins))
             o == GetValueOut(Tx)
  <1>9. /\ Priced(U \ {<<t, n>>}) /\ x \in Nat /\ V \in Int /\ W \in Int /\ V = x + W
    BY <1>2, <1>7, <1>8, ValueRemove DEF Balance
  <1>10. B \in Int /\ o \in Int /\ Made \in Int /\ job.fees \in Int
    BY <1>1, <1>2, <1>5, TipFair, ValueOutInt, MadeInt DEF Balance
  <1>11. \A k \in DOMAIN Ins[Tx] : ValueOf(Ins[Tx][k]) \in Int
    <2>1. CASE j = 0
      <3>1. HaveInputs(view.coins, Tx)
        BY <1>2, <1>5, <2>1
      <3>2. \A k \in DOMAIN Ins[Tx] : Ins[Tx][k] \in U
        <4>1. \A k \in DOMAIN Ins[Tx] :
                 Ins[Tx][k][1] \in Txids /\ Ins[Tx][k] = <<Ins[Tx][k][1], Ins[Tx][k][2]>>
          BY <1>5, <1>6, IndexFacts
        <4>2. QED  BY <3>1, <4>1, InUtxos DEF HaveInputs, IsAvailable
      <3>3. \A p \in U : ValueOf(p) \in Int
        BY SMT, <1>2 DEF Balance, Priced
      <3>4. QED  BY <3>2, <3>3
    <2>2. CASE j # 0
      <3>1. j > 0
        BY SMT, <1>2, <2>2
      <3>2. QED  BY <1>2, <3>1 DEF Balance
    <2>3. QED  BY <2>1, <2>2
  <1> DEFINE d == Due(Tx, j)
             e == Due(Tx, j + 1)
  <1>12. d \in Int /\ e \in Int /\ d = x + e /\ (j = 0 => d = GetValueIn(Tx)) /\ j + 1 \in Nat
         /\ j + 1 # 0
    <2>1. j + 1 \in Nat /\ j + 1 # 0
      BY SMT, <1>2
    <2>2. QED  BY <1>1, <1>2, <1>6, <1>11, <2>1, DueFacts
  <1>13. Pending' = e - o /\ Pending = IF j = 0 THEN 0 ELSE d - o
    BY <1>3, <1>4, <1>12 DEF Pending
  <1>14. V - Pending <= B + Made - job.fees
    BY <1>2 DEF Balance
  <1> DEFINE m == Made
             f == job.fees
  <1> HIDE DEF V, W, x, B, o, d, e, m, f
  <1>15. W - (e - o) <= B + m - fee /\ fee \in Int
    <2>1. CASE j = 0
      <3>1. fee = f + d - o
        BY <1>12, <2>1 DEF fee, f, o
      <3>2. V - 0 <= B + m - f
        BY <1>13, <1>14, <2>1 DEF m, f
      <3>3. m \in Int /\ f \in Int
        BY <1>10 DEF m, f
      <3>4. QED  BY SMT, <1>9, <1>10, <1>12, <3>1, <3>2, <3>3
    <2>2. CASE j # 0
      <3>1. fee = f
        BY <2>2 DEF fee, f
      <3>2. V - (d - o) <= B + m - f
        BY <1>13, <1>14, <2>2 DEF m, f
      <3>3. m \in Int /\ f \in Int
        BY <1>10 DEF m, f
      <3>4. QED  BY SMT, <1>9, <1>10, <1>12, <3>1, <3>2, <3>3
    <2>3. QED  BY <2>1, <2>2
  <1>16. Balance'
    BY <1>1, <1>3, <1>4, <1>8, <1>9, <1>11, <1>13, <1>15 DEF Balance, W, B, m
  <1>17. "connect" # "flush"
    BY SMT
  <1>18. QED  BY <1>1, <1>3, <1>16, <1>17 DEF SupplyInv, FairChain

\* The outputs of a transaction come to no more than its value out: the coinbase's is what the
\* block makes, that of any other transaction was pending.
LEMMA AddOutputsSupply ==
    ASSUME IInv, SupplyInv, AddOutputs
    PROVE  SupplyInv'
  <1> DEFINE b == job.block
             i == job.i
             j == job.j
             U == Utxos(view.coins)
             X == Utxos(view'.coins)
             c == FromTx(Tx, Height(job.block))
  <1>1. /\ job.kind = "connect" /\ i <= Len(Vtx[b]) /\ j = Len(Ins[Tx]) /\ (j = 0 => TxOK)
        /\ SetCoins(Tx, c) /\ UNCHANGED <<disk, tip>>
        /\ \E u : job' = [job EXCEPT !.i = @ + 1, !.j = 0, !.txundo = <<>>, !.blockundo = u]
    BY DEF AddOutputs
  <1>2. TypeInv /\ view \in MapType /\ Balance
    BY <1>1 DEF IInv, TypeInv, SupplyInv
  <1>3. /\ job'.kind = "connect" /\ job'.block = b /\ job'.i = i + 1 /\ job'.j = 0
        /\ job'.fees = job.fees
    BY <1>1, <1>2 DEF TypeInv, Idle
  <1>4. /\ CheckTransaction(Tx) /\ b \in Blocks \ {Genesis} /\ i \in DOMAIN Vtx[b]
        /\ Checked(b, i + 1, 0)
    BY <1>1, TurnChecked
  <1>5. Tx = Vtx[b][i] /\ Tx \in Txids
    BY <1>4, IndexFacts DEF Tx
  <1>6. Tx \in CoinBases <=> i = 1
    <2>1. i + 1 > 1
      BY SMT, <1>4, IndexFacts
    <2>2. CheckBlock(b)
      BY <1>4, <2>1 DEF Checked
    <2>3. QED  BY <1>4, <1>5, <2>2 DEF CheckBlock
  <1>7. j \in Nat /\ i \in Nat /\ i # 0 /\ (j = 0 <=> i = 1)
    <2>1. Len(Ins[Tx]) \in Nat /\ (Len(Ins[Tx]) = 0 => Ins[Tx] = <<>>) /\ Len(<<>>) = 0
      <3>1. Ins[Tx] \in Seq(Txids \X (Nat \ {0}))
        BY <1>5, TransactionAssumption
      <3>2. QED  BY SMT, <3>1
    <2>2. i \in Nat /\ i # 0
      BY SMT, <1>4, IndexFacts
    <2>3. Ins[Tx] = <<>> <=> Tx \in CoinBases
      BY <1>4, <1>5, TransactionAssumption DEF CheckTransaction
    <2>4. QED  BY <1>1, <1>6, <2>1, <2>2, <2>3
  <1> DEFINE B == Value(Utxos(tip.coins))
             o == GetValueOut(Tx)
             f == job.fees
             m == Made
  <1>8. Priced(X) /\ Value(X) <= Value(U) + o /\ Value(X) \in Int /\ Value(U) \in Int
    <2> HIDE DEF c
    <2>1. view'.coins = [view.coins EXCEPT ![Tx] = Normal(c)]
      <3>1. view' = [coins |-> [view.coins EXCEPT ![Tx] = Normal(c)], best |-> view.best]
        BY <1>1, <1>2, SetCoinsIs
      <3>2. QED  BY <3>1
    <2> DEFINE M == Normal(c).vout
    <2>2. M \subseteq DOMAIN Outs[Tx]
      <3>1. M \subseteq c.vout
        BY DEF Normal, Pruned
      <3>2. c.vout \subseteq DOMAIN Outs[Tx]
        BY DEF c, FromTx, Normal, Pruned
      <3>3. QED  BY <3>1, <3>2
    <2>3. X \subseteq U \cup ({Tx} \X M)
      <3>1. view.coins \in [Txids -> CoinType]
        BY <1>2 DEF MapType
      <3>2. QED  BY <1>5, <2>1, <3>1, UtxosSet
    <2> HIDE DEF M
    <2> DEFINE Y == U \cup ({Tx} \X M)
    <2>4. Priced(U) /\ Priced(Y) /\ Value(Y) <= Value(U) + o
      BY <1>2, <1>4, <1>5, <2>2, ValueOfOutputs DEF Balance
    <2> HIDE DEF Y, U, X
    <2>5. Priced(X) /\ Value(X) <= Value(Y)
      BY <2>3, <2>4, ValuePart DEF Y
    <2>6. Value(X) \in Int /\ Value(Y) \in Int /\ Value(U) \in Int /\ o \in Int
      BY <1>4, <2>4, <2>5, ValueInt, ValueOutInt
    <2>7. Value(X) <= Value(U) + o
      <3> HIDE DEF o
      <3>1. QED  BY SMT, <2>4, <2>5, <2>6
    <2>8. QED  BY <2>5, <2>6, <2>7 DEF X, U
  <1>9. B \in Int /\ o \in Int /\ m \in Int /\ f \in Int
    BY <1>1, <1>2, <1>4, TipFair, ValueOutInt, MadeInt DEF Balance
  <1>10. Value(U) - Pending <= B + m - f
    BY <1>2 DEF Balance
  <1>11. Pending' = 0 /\ Made' = IF i = 1 THEN o ELSE m
    <2>1. i + 1 # 1
      BY SMT, <1>7
    <2>2. Made' = GetValueOut(Vtx[b][1])
      BY <1>3, <2>1 DEF Made
    <2>3. Pending' = 0
      BY <1>3 DEF Pending
    <2>4. QED  BY <1>5, <2>2, <2>3 DEF Made
  <1>12. Pending = (IF i = 1 THEN 0 ELSE 0 - o) /\ (i = 1 => m = 0)
    <2>1. CASE i = 1
      BY <1>7, <2>1 DEF Pending, Made
    <2>2. CASE i # 1
      <3>1. \A k \in DOMAIN Ins[Tx] : ValueOf(Ins[Tx][k]) \in Int
        <4>1. j > 0
          BY SMT, <1>7, <2>2
        <4>2. QED  BY <1>2, <4>1 DEF Balance
      <3>2. Due(Tx, j) = 0
        BY <1>1, <1>5, <1>7, <3>1, DueFacts
      <3>3. QED  BY <1>7, <2>2, <3>2 DEF Pending
    <2>3. QED  BY <2>1, <2>2
  <1> DEFINE v == Value(U)
             w == Value(X)
  <1> HIDE DEF B, o, f, m, v, w
  <1>13. w - 0 <= B + Made' - f
    <2>1. w \in Int /\ v \in Int /\ w <= v + o
      BY <1>8 DEF v, w
    <2>2. CASE i = 1
      <3>1. v - 0 <= B + 0 - f
        BY <1>10, <1>12, <2>2 DEF v
      <3>2. w - 0 <= B + o - f
        BY SMT, <1>9, <2>1, <3>1
      <3>3. QED  BY <1>11, <2>2, <3>2
    <2>3. CASE i # 1
      <3>1. v - (0 - o) <= B + m - f
        BY <1>10, <1>12, <2>3 DEF v
      <3>2. w - 0 <= B + m - f
        BY SMT, <1>9, <2>1, <3>1
      <3>3. QED  BY <1>11, <2>3, <3>2
    <2>4. QED  BY <2>2, <2>3
  <1>14. ~(0 > 0)
    BY SMT
  <1>15. Balance'
    BY <1>1, <1>3, <1>8, <1>9, <1>11, <1>13, <1>14 DEF Balance, w, B, f
  <1>16. "connect" # "flush"
    BY SMT
  <1>17. QED  BY <1>1, <1>3, <1>15, <1>16 DEF SupplyInv, FairChain

\* The check of the coinbase against the subsidy and the fees closes the account.
LEMMA FinishConnectSupply ==
    ASSUME IInv, IInv', SupplyInv, FinishConnect
    PROVE  SupplyInv'
  <1> DEFINE b == job.block
             i == job.i
             V == Value(Utxos(view.coins))
             B == Value(Utxos(tip.coins))
             s == GetBlockSubsidy(Height(b))
             f == job.fees
             m == Made
             o == GetValueOut(Vtx[b][1])
  <1>1. /\ job.kind = "connect" /\ i > Len(Vtx[b]) /\ CoinbaseOK /\ UNCHANGED <<disk, tip>>
        /\ view' = [view EXCEPT !.best = b] /\ job' = [job EXCEPT !.kind = "flush"]
    BY DEF FinishConnect
  <1>2. /\ TypeInv /\ view \in MapType /\ Balance /\ b \in Blocks \ {Genesis}
        /\ Parent[b] = tip.best /\ i \in 1..(Len(Vtx[b]) + 1) /\ Position(b, i, job.j)
    BY <1>1 DEF IInv, TypeInv, ConnectInv, SupplyInv
  <1>3. job'.kind = "flush" /\ view'.coins = view.coins /\ view'.best = b
    BY <1>1, <1>2 DEF TypeInv, MapType, Idle
  <1>4. view.coins = CoinsAt[b]
    BY <1>3 DEF IInv, Sound
  <1>5. Vtx[b] # <<>> /\ o <= s + f
    BY <1>1 DEF CoinbaseOK, GetBlockValue
  <1>6. i # 1 /\ i \notin DOMAIN Vtx[b]
    <2>1. Vtx[b] \in Seq(Txids)
      BY <1>2, BlockAssumption
    <2>2. QED  BY SMT, <1>1, <1>2, <1>5, <2>1
  <1>7. m = o /\ Pending = 0
    BY <1>2, <1>6 DEF Made, Pending, Position
  <1>8. V - 0 <= B + o - f /\ Priced(Utxos(view.coins)) /\ f \in Int
    BY <1>2, <1>7 DEF Balance
  <1>9. V \in Int /\ o \in Int
    BY <1>1, <1>7, <1>8, ValueInt, MadeInt
  <1> DEFINE M == Minted(Chain[tip.best] \ {Genesis})
  <1>10. B \in Int /\ B <= M
    BY TipFair
  <1>11. /\ M \in Int /\ s \in Int
         /\ Minted(Chain[b] \ {Genesis}) = s + M
    <2>1. tip.best \in Blocks
      BY <1>2 DEF TypeInv, MapType
    <2>2. s \in Nat
      BY <1>2, HeightFacts, SubsidyNat
    <2>3. M \in Int /\ Minted(Chain[b] \ {Genesis}) = s + M
      BY <1>2, <2>1, MintedChain
    <2>4. s \in Int
      <3> HIDE DEF s
      <3>1. QED  BY SMT, <2>2
    <2>5. QED  BY <2>3, <2>4
  <1>12. V <= s + M
    <2> HIDE DEF V, B, s, f, o, M
    <2>1. QED  BY SMT, <1>5, <1>8, <1>9, <1>10, <1>11
  <1>13. Fair(b)
    BY <1>4, <1>8, <1>11, <1>12 DEF Fair
  <1>14. FairChain(b)
    BY <1>2, <1>13, FairAbove DEF SupplyInv
  <1>15. "connect" # "flush"
    BY SMT
  <1>16. QED  BY <1>1, <1>3, <1>14, <1>15 DEF SupplyInv, FairChain

LEMMA SupplyStep == IInv /\ IInv' /\ SupplyInv /\ [Next]_vars => SupplyInv'
  <1> SUFFICES ASSUME IInv, IInv', SupplyInv, [Next]_vars PROVE SupplyInv'
    BY SMT
  <1>1. "connect" # "flush" /\ "connect" # "disconnect" /\ "connect" # "idle" /\ "flush" # "idle"
        /\ "flush" # "disconnect"
    BY SMT
  <1>2. /\ DOMAIN job = DOMAIN Idle /\ (~open => job.kind = "idle") /\ view \in MapType
        /\ tip.best \in Blocks /\ Idle.kind = "idle"
    BY DEF IInv, TypeInv, MapType, Idle
  <1>3. CASE \E b \in Blocks : BeginConnect(b)
    BY <1>3, BeginConnectSupply
  <1>4. CASE SpendInput
    BY <1>4, SpendInputSupply
  <1>5. CASE AddOutputs
    BY <1>5, AddOutputsSupply
  <1>6. CASE FinishConnect
    BY <1>6, FinishConnectSupply
  <1>7. CASE RejectBlock
    BY <1>1, <1>2, <1>7 DEF RejectBlock, SupplyInv, FairChain
  <1>8. CASE BeginDisconnect
    <2>1. UNCHANGED <<disk, tip>> /\ job'.kind = "disconnect"
      BY <1>8 DEF BeginDisconnect, Idle
    <2>2. QED  BY <1>1, <2>1 DEF SupplyInv, FairChain
  <1>9. CASE RemoveOutputs \/ RestoreInput
    <2>1. UNCHANGED <<disk, tip>> /\ job'.kind = "disconnect"
      BY <1>2, <1>9 DEF RemoveOutputs, RestoreInput, Idle
    <2>2. QED  BY <1>1, <2>1 DEF SupplyInv, FairChain
  <1>10. CASE FinishDisconnect
    <2>1. job.block = tip.best /\ tip.best # Genesis /\ job.kind = "disconnect"
      BY <1>10 DEF FinishDisconnect, IInv, DisconnectInv
    <2>2. FairChain(Parent[tip.best])
      BY <1>2, <2>1, FairBelow DEF SupplyInv
    <2>3. /\ UNCHANGED <<disk, tip>>
          /\ \/ view' = [view EXCEPT !.best = Parent[tip.best]] /\ job' = [job EXCEPT !.kind = "flush"]
             \/ job' = Idle
      BY <1>10, <2>1 DEF FinishDisconnect
    <2>4. CASE job' = Idle
      BY <1>1, <1>2, <2>3, <2>4 DEF SupplyInv, FairChain
    <2>5. CASE view' = [view EXCEPT !.best = Parent[tip.best]] /\ job' = [job EXCEPT !.kind = "flush"]
      <3>1. view'.best = Parent[tip.best] /\ job'.kind = "flush"
        BY <1>2, <2>5 DEF MapType, Idle
      <3>2. QED  BY <1>1, <2>2, <2>3, <3>1 DEF SupplyInv, FairChain
    <2>6. QED  BY <2>3, <2>4, <2>5
  <1>11. CASE FlushView
    BY <1>1, <1>2, <1>11 DEF FlushView, SupplyInv, FairChain
  <1>12. CASE FlushStateToDisk
    BY <1>1, <1>2, <1>12 DEF FlushStateToDisk, SupplyInv, FairChain
  <1>13. CASE Crash
    BY <1>1, <1>2, <1>13 DEF Crash, SupplyInv, FairChain
  <1>14. CASE UNCHANGED vars
    <2>1. UNCHANGED <<disk, tip, view, job>>
      BY <1>14 DEF vars
    <2>2. QED  BY <2>1 DEF SupplyInv, FairChain, Balance, Made, Pending, Tx
  <1>15. QED  BY <1>3, <1>4, <1>5, <1>6, <1>7, <1>8, <1>9, <1>10, <1>11, <1>12, <1>13,
                 <1>14 DEF Next

\* The coins are never worth more than the subsidies of the chain to the tip: fees move value,
\* and neither the steps of ConnectBlock nor a reorganisation or a crash create any
\* (CheckInputs, CheckTransaction and the check of the coinbase in ConnectBlock).
THEOREM SupplyIsBounded == Spec => []SupplyBounded
  <1>1. Init => SupplyInv
    <2> SUFFICES ASSUME Init PROVE SupplyInv
      BY SMT
    <2>1. tip.best = Genesis /\ disk.best = Genesis /\ job.kind = "idle"
      BY DEF Init, Idle
    <2>2. "idle" # "connect" /\ "idle" # "flush"
      BY SMT
    <2>3. QED  BY <2>1, <2>2, GenesisFair DEF SupplyInv
  <1>2. IInv /\ SupplyInv => SupplyBounded
    BY TipFair DEF SupplyBounded
  <1>3. QED  BY <1>1, <1>2, SupplyStep, InductiveInvariant, PTL DEF Spec
===============================================================================
