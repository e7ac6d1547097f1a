------------------------------- MODULE MCTxRelay -------------------------------
(***************************************************************************)
(* A tree of blocks for TxRelay and Miner: after two blocks a branch a3, a4    *)
(* confirms t1 and t2, and a branch b3, b4 confirms u, which spends what t1    *)
(* spends.                                                                     *)
(***************************************************************************)
EXTENDS TxRelay, Miner

MCCoinBases == {"cb", "cbx"}
MCTxids == MCCoinBases \cup {"t1", "t2", "t3", "s", "u", "v", "m"}

\* t2 and t3 spend from t1, t3 also from v, s from t2; u conflicts with t1; m is locked until height 4.
MCIns ==
    [t \in MCTxids |->
        CASE t = "t1" -> << <<"cb", 1>> >>
          [] t = "u"  -> << <<"cb", 1>> >>
          [] t = "t2" -> << <<"t1", 1>> >>
          [] t = "t3" -> << <<"t1", 2>>, <<"v", 1>> >>
          [] t = "s"  -> << <<"t2", 1>> >>
          [] t = "v"  -> << <<"cb", 2>> >>
          [] t = "m"  -> << <<"u", 1>> >>
          [] OTHER -> <<>>]

MCOuts ==
    [t \in MCTxids |->
        CASE t = "t1" -> <<2, 2>>
          [] t = "cbx" -> <<0>>
          [] t = "t3" -> <<3>>
          [] t = "cb" -> <<4, 4>>
          [] OTHER -> <<1>>]

MCUnspendable == [t \in MCTxids |-> IF t = "cbx" THEN {1} ELSE {}]

MCLockTime == [t \in MCTxids |-> IF t = "m" THEN 3 ELSE 0]

MCParent == [a1 |-> "g", a2 |-> "a1", a3 |-> "a2", a4 |-> "a3", b3 |-> "a2", b4 |-> "b3"]
MCBlocks == {"g"} \cup DOMAIN MCParent

MCVtx ==
    [g |-> <<"cbx">>, a1 |-> <<"cb">>, a2 |-> <<"cbx">>,
     a3 |-> <<"cbx", "t1">>, a4 |-> <<"cbx", "t2">>,
     b3 |-> <<"cbx", "u">>, b4 |-> <<"cbx", "v", "m">>]

MCPeers == {"p", "q"}
MCFree == {"v"}
MCBig == {"m"}
MCBadScript == {"s"}

\* Miners may confirm what this node does not accept as a loose transaction.
NoT1 == MCTxids \ {"t1"}
===============================================================================
