----------------------------- MODULE Transactions -----------------------------
(***************************************************************************)
(* The transactions that the models of the coin set and of the memory pool   *)
(* share.  A transaction is its id; what it spends and creates is constant.  *)
(***************************************************************************)
EXTENDS Integers, Sequences, FiniteSets, Functions

CONSTANTS Txids,         \* transaction ids
          CoinBases,     \* those of coinbase transactions
          Ins,           \* Ins[t]: the outpoints <<txid, n>> that t spends, in order
          Outs,          \* Outs[t]: the values of the outputs of t, in order
          Unspendable,   \* Unspendable[t]: positions whose script can never be satisfied
          MaxMoney       \* MAX_MONEY

ASSUME TransactionAssumption ==
    /\ CoinBases \subseteq Txids
    /\ MaxMoney \in Nat
    /\ \A t \in Txids : /\ Ins[t] \in Seq(Txids \X (Nat \ {0}))
                        /\ Outs[t] \in Seq(Int)
                        /\ Unspendable[t] \subseteq DOMAIN Outs[t]
                        /\ t \in CoinBases => Ins[t] = <<>>

MoneyRange(v) == v \in 0..MaxMoney

GetValueOut(t) == SumFunction(Outs[t])

\* The checks of a transaction that need no context.  A running total that stays in
\* range and values that are not negative make the last total the largest.
CheckTransaction(t) ==
    /\ t \notin CoinBases => Ins[t] # <<>>
    /\ Outs[t] # <<>>
    /\ \A n \in DOMAIN Outs[t] : MoneyRange(Outs[t][n])
    /\ MoneyRange(GetValueOut(t))
    /\ IsInjective(Ins[t])

-------------------------------------------------------------------------------
(* CCoins: what is left unspent of a transaction *)

\* vout as the set of the positions that are not null: Cleanup keeps the vector free
\* of null outputs at its end, so the set determines it.
Pruned == [vout |-> {}, height |-> 0, coinbase |-> FALSE]

IsPruned(c) == c.vout = {}

\* operator== takes all pruned coins for equal, and a cache drops or writes them alike.
Normal(c) == IF IsPruned(c) THEN Pruned ELSE c

FromTx(t, h) ==
    Normal([vout |-> DOMAIN Outs[t] \ Unspendable[t], height |-> h, coinbase |-> t \in CoinBases])

IsAvailable(c, n) == n \in c.vout

\* HaveInputs: every input of t is unspent in the map coins.
HaveInputs(coins, t) == \A k \in DOMAIN Ins[t] : IsAvailable(coins[Ins[t][k][1]], Ins[t][k][2])

\* The value of an outpoint.
ValueOf(p) == Outs[p[1]][p[2]]

GetValueIn(t) == SumFunction([k \in DOMAIN Ins[t] |-> ValueOf(Ins[t][k])])

\* CheckInputs at height h, signatures aside.
CheckInputs(coins, t, h, maturity) ==
    /\ HaveInputs(coins, t)
    /\ \A k \in DOMAIN Ins[t] :
          LET c == coins[Ins[t][k][1]] IN c.coinbase => h - c.height >= maturity
    /\ MoneyRange(GetValueIn(t))
    /\ GetValueIn(t) >= GetValueOut(t)
===============================================================================
