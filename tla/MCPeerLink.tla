----------------------------- MODULE MCPeerLink -----------------------------
(***************************************************************************)
(* Instances of PeerLink for TLC.                                          *)
(***************************************************************************)
EXTENDS PeerLink

CONSTANTS a, b

MCEnds == {a, b}

\* One end asks for blocks and pings right after asking; the other pings.
MCScript == (a :> <<"getdata", "ping">>) @@ (b :> <<"ping">>)
BothAsk == (a :> <<"getdata", "ping">>) @@ (b :> <<"getdata">>)

\* A block does not fit into the pipe.
MCBody == [getdata |-> 0, ping |-> 0, block |-> 1, pong |-> 0]
LargeBody == [getdata |-> 0, ping |-> 0, block |-> 2, pong |-> 0]
=============================================================================
