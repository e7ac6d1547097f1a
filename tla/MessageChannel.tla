--------------------------- MODULE MessageChannel ---------------------------
(***************************************************************************)
(* What the two directions of a connection promise: whole messages,        *)
(* delivered once each, in the order they were sent, with none left out    *)
(* before one that arrives.                                                *)
(***************************************************************************)
EXTENDS Naturals, Sequences

CONSTANT Ends

VARIABLES
    sent,      \* sent[e]: what e has sent
    delivered  \* delivered[e]: what of it has been delivered to the other end

Init ==
    /\ sent = [e \in Ends |-> <<>>]
    /\ delivered = [e \in Ends |-> <<>>]

\* A handler may send several messages in a step, while it processes one.
Send(e) ==
    /\ Len(sent[e]) <= Len(sent'[e])
    /\ SubSeq(sent'[e], 1, Len(sent[e])) = sent[e]

Deliver(e) ==
    /\ Len(delivered[e]) < Len(sent[e])
    /\ delivered'[e] = Append(delivered[e], sent[e][Len(delivered[e]) + 1])

Next == \A e \in Ends :
    /\ Send(e)
    /\ Deliver(e) \/ delivered'[e] = delivered[e]

Spec == Init /\ [][Next]_<<sent, delivered>>
=============================================================================
