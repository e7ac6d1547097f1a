----------------------------- MODULE MCConnections -----------------------------
(***************************************************************************)
(* Instances of Connections for TLC: two threads that open connections to      *)
(* addresses of their own, peers that connect to us, three nodes in all.       *)
(***************************************************************************)
EXTENDS Connections, TLC

CONSTANTS o1, o2, a1, a2

\* ThreadOpenConnections and ThreadOpenAddedConnections, with different addresses
OwnTargets == o1 :> {a1} @@ o2 :> {a2}
\* both may choose the same address
SharedTargets == [o \in {o1, o2} |-> {a1}]

NodeSymmetry == Permutations(Nodes)
================================================================================
