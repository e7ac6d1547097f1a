---------------------------- MODULE MCBlockDownload ----------------------------
(* A chain longer than the download window, and a bad block beside it. *)
EXTENDS BlockDownload

BadOnes == {"b1"}
MCAnc == [g |-> {"g"}, a1 |-> {"g", "a1"}, a2 |-> {"g", "a1", "a2"}, b1 |-> {"g", "b1"}]
MCBlocks == DOMAIN MCAnc
GoodBlocks == MCBlocks \ BadOnes

MCPeers == {"r", "q"}
OneReliable == {"r"}
NoBlocks == {}
===============================================================================
