------------------------------- MODULE CoinsMap -------------------------------
(***************************************************************************)
(* What the stack of coin views promises to the code that connects and      *)
(* disconnects blocks (coins.h), with no cache in sight.  There are three    *)
(* maps from transaction ids to coins: the one in the database, the one of   *)
(* pcoinsTip, and the one of the view in which a block is applied.  The view  *)
(* starts as a copy of pcoinsTip and either replaces it or is forgotten.     *)
(***************************************************************************)
CONSTANTS Txids,      \* transaction ids
          Coins,      \* what a map may hold for a transaction id
          Pruned,     \* the member of Coins with no unspent output
          Blocks,     \* block hashes
          NullHash    \* uint256(), the hash that is none

Map == [coins : [Txids -> Coins], best : Blocks \cup {NullHash}]

EmptyMap == [coins |-> [t \in Txids |-> Pruned], best |-> NullHash]

VARIABLES disk,    \* the coin database
          tip,     \* pcoinsTip
          view,    \* the view of the block being applied; equal to tip when there is none
          open     \* whether there is such a view

vars == <<disk, tip, view, open>>

Init ==
    /\ disk = EmptyMap
    /\ tip = EmptyMap
    /\ view = EmptyMap
    /\ open = FALSE

Open ==
    /\ ~open
    /\ open' = TRUE
    /\ UNCHANGED <<disk, tip, view>>

Modify(t) ==
    /\ open
    /\ \E c \in Coins : view' = [view EXCEPT !.coins[t] = c]
    /\ UNCHANGED <<disk, tip, open>>

SetBestBlock(b) ==
    /\ open
    /\ view' = [view EXCEPT !.best = b]
    /\ UNCHANGED <<disk, tip, open>>

Flush ==
    /\ open
    /\ tip' = view
    /\ open' = FALSE
    /\ UNCHANGED <<disk, view>>

Forget ==
    /\ open
    /\ view' = tip
    /\ open' = FALSE
    /\ UNCHANGED <<disk, tip>>

FlushTip ==
    /\ ~open
    /\ disk' = tip
    /\ UNCHANGED <<tip, view, open>>

Crash ==
    /\ tip' = disk
    /\ view' = disk
    /\ open' = FALSE
    /\ UNCHANGED disk

Next ==
    \/ Open
    \/ \E t \in Txids : Modify(t)
    \/ \E b \in Blocks : SetBestBlock(b)
    \/ Flush
    \/ Forget
    \/ FlushTip
    \/ Crash

Spec == Init /\ [][Next]_vars
===============================================================================
