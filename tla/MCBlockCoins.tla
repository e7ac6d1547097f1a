----------------------------- MODULE MCBlockCoins -----------------------------
(***************************************************************************)
(* An instance of BlockCoins for TLC.  The chain a1..a6 spends both outputs   *)
(* of a coinbase in one transaction, spends an output in the block that made  *)
(* it, makes an output that nobody can spend, and then repeats the ids of a    *)
(* coinbase and of a transaction that were spent completely.  Every other      *)
(* block breaks one rule, except for b2, a branch that holds the two           *)
(* transactions in two blocks.                                                *)
(***************************************************************************)
EXTENDS BlockCoins, TLC

MCTxids == {"cb1", "cb2", "cb3", "cb4", "cbx", "t1", "t2", "t3", "t4", "t5"}
MCCoinBases == {"cb1", "cb2", "cb3", "cb4", "cbx"}

MCIns ==
    [t \in MCTxids |->
        CASE t = "t1" -> << <<"cb1", 2>>, <<"cb1", 1>> >>
          [] t = "t2" -> << <<"t1", 2>> >>
          [] t = "t3" -> << <<"cb1", 1>> >>
          [] t = "t4" -> << <<"cb2", 1>>, <<"cb2", 1>> >>
          [] t = "t5" -> << <<"cb2", 1>> >>
          [] OTHER -> <<>>]

MCOuts ==
    [t \in MCTxids |->
        CASE t = "cb1" -> <<2, 2>>
          [] t = "cb2" -> <<4>>
          [] t = "cb3" -> <<5>>
          [] t = "cb4" -> <<6>>
          [] t = "cbx" -> <<0>>
          [] t = "t1" -> <<0, 3>>
          [] t = "t2" -> <<3>>
          [] t = "t3" -> <<2>>
          [] t = "t4" -> <<1>>
          [] t = "t5" -> <<5>>]

MCUnspendable ==
    [t \in MCTxids |-> CASE t = "t1" -> {1} [] t = "cbx" -> {1} [] OTHER -> {}]

MCParent ==
    [a1 |-> "g", a2 |-> "a1", a3 |-> "a2", a4 |-> "a3", a5 |-> "a4", a6 |-> "a5",
     b2 |-> "a1", b3 |-> "b2", b4 |-> "b3",
     premature |-> "a1", overwrite |-> "a2", doublespend |-> "a2",
     greedy |-> "a2", twice |-> "a3", belowout |-> "a3"]

MCBlocks == {"g"} \cup DOMAIN MCParent

MCVtx ==
    [g |-> <<"cbx">>,
     a1 |-> <<"cb1">>, a2 |-> <<"cb2">>, a3 |-> <<"cb3", "t1", "t2">>, a4 |-> <<"cb1">>,
     a5 |-> <<"cbx">>, a6 |-> <<"cbx", "t1">>,
     b2 |-> <<"cbx">>, b3 |-> <<"cbx", "t1">>, b4 |-> <<"cbx", "t2">>,
     premature |-> <<"cb2", "t3">>,
     overwrite |-> <<"cb1">>,
     doublespend |-> <<"cbx", "t3", "t1">>,
     greedy |-> <<"cb4", "t1">>,
     twice |-> <<"cbx", "t4">>,
     belowout |-> <<"cbx", "t5">>]
===============================================================================
