------------------------------ MODULE PeerLink ------------------------------
(***************************************************************************)
(* One connection between two nodes that both run src/src/net.cpp: the     *)
(* send queue and its partial and optimistic writes (EndMessage,           *)
(* SocketSendData), the reassembly of messages from the byte stream        *)
(* (ReceiveMsgBytes), what the socket handler selects for, the message     *)
(* handler (ProcessMessages, ProcessGetData, SendMessages), and the flow   *)
(* control that ties them together.                                        *)
(*                                                                         *)
(* Each end has a socket handler and a message handler thread.  They meet  *)
(* under cs_vSend and cs_vRecvMsg, so that a step below is what one thread *)
(* does under these locks; select() is a step of its own, and what it      *)
(* chose may be out of date when the socket is serviced.                   *)
(*                                                                         *)
(* Bytes are counted in units.  TCP is external: each direction holds up   *)
(* to Capacity units on their way, takes some or all of what it is offered *)
(* while there is room, and may break.  The messages are requests for      *)
(* blocks (getdata), which are answered as the send buffer allows, pings,  *)
(* answered at once, and the answers.  Every requested block is known.     *)
(***************************************************************************)
EXTENDS Integers, FiniteSets, SequencesExt

CONSTANTS
    Ends,             \* the two nodes
    Script,           \* Script[e]: what e sends on its own account, in order
    Items,            \* how many blocks a getdata asks for
    Header,           \* size of a header (24 bytes)
    Body,             \* size of the data of a message of each kind
    Capacity,         \* units TCP holds in one direction
    RecvBuffer,       \* the most recv() returns (64 KiB)
    SendBufferSize,   \* -maxsendbuffer
    ReceiveFloodSize  \* -maxreceivebuffer

Kinds == {"getdata", "ping", "block", "pong"}

ASSUME LinkAssumption ==
    /\ Cardinality(Ends) = 2
    /\ Script \in [Ends -> Seq({"getdata", "ping"})]
    /\ Body \in [Kinds -> Nat]
    /\ {Items, Header, Capacity, RecvBuffer, SendBufferSize} \subseteq Nat \ {0}
    /\ ReceiveFloodSize \in Nat

VARIABLES
    node,   \* node[e]: the CNode at e, out[e]: its bytes on their way
    broken  \* TCP has given up

vars == <<node, broken>>

Other(e) == CHOOSE o \in Ends : o # e

(***************************************************************************)
(* Messages: kind, number of the request, number of the item.              *)
(***************************************************************************)
Size(m) == Header + Body[m[1]]

Units(m, from, to) == [i \in 1..(to - from + 1) |-> <<m, from + i - 1>>]

Init ==
    /\ node = [e \in Ends |->
         [vSendMsg |-> <<>>, nSendOffset |-> 0, nSendSize |-> 0, out |-> <<>>,
          vRecvMsg |-> <<>>, vRecvGetData |-> <<>>,
          hSocket |-> TRUE, fDisconnect |-> FALSE, fd |-> "none",
          scripted |-> 0,    \* messages of Script[e] sent
          sent |-> <<>>,     \* history: messages queued
          handled |-> <<>>]] \* history: messages processed
    /\ broken = FALSE

(***************************************************************************)
(* Sending, as functions of the CNode n.  upto is the fill to which TCP    *)
(* takes bytes during the step, or -1 when send() fails.                   *)
(***************************************************************************)
CloseSocketDisconnect(n) ==
    [n EXCEPT !.hSocket = FALSE, !.fDisconnect = TRUE, !.vRecvMsg = <<>>]

\* fault: a partial write is not recorded
SendOneAgain(s, m, upto) ==
    LET room   == upto - Len(s.out)
        nBytes == Min({room, Size(m) - s.nSendOffset})
        out    == s.out \o Units(m, s.nSendOffset + 1, s.nSendOffset + nBytes)
    IN  IF s.stop \/ nBytes = 0
        THEN [s EXCEPT !.stop = TRUE]
        ELSE IF s.nSendOffset + nBytes = Size(m)
        THEN [s EXCEPT !.out = out, !.nSendOffset = 0, !.nSendSize = @ - Size(m),
                       !.it = @ + 1]
        ELSE [s EXCEPT !.out = out, !.stop = TRUE]

\* One turn of the loop of SocketSendData.
SendOne(s, m, upto) ==
    LET room   == upto - Len(s.out)
        nBytes == Min({room, Size(m) - s.nSendOffset})
        out    == s.out \o Units(m, s.nSendOffset + 1, s.nSendOffset + nBytes)
    IN  IF s.stop \/ nBytes = 0
        THEN [s EXCEPT !.stop = TRUE]
        ELSE IF s.nSendOffset + nBytes = Size(m)
        THEN [s EXCEPT !.out = out, !.nSendOffset = 0, !.nSendSize = @ - Size(m),
                       !.it = @ + 1]
        ELSE [s EXCEPT !.out = out, !.nSendOffset = @ + nBytes, !.stop = TRUE]

SocketSendData(n, upto) ==
    IF upto = -1 \/ ~n.hSocket
    THEN CloseSocketDisconnect(n)
    ELSE LET s == FoldLeft(LAMBDA t, m : SendOne(t, m, upto),
                           [out |-> n.out, nSendOffset |-> n.nSendOffset,
                            nSendSize |-> n.nSendSize, it |-> 1, stop |-> FALSE],
                           n.vSendMsg)
         IN  [n EXCEPT !.out = s.out, !.nSendOffset = s.nSendOffset,
                       !.nSendSize = s.nSendSize,
                       !.vSendMsg = SubSeq(@, s.it, Len(@))]

\* PushMessage: EndMessage queues the message and, if the queue was empty,
\* writes at once.
PushMessage(n, m, upto) ==
    LET queued == [n EXCEPT !.vSendMsg = Append(@, m),
                            !.nSendSize = @ + Size(m),
                            !.sent = Append(@, m)]
    IN  IF n.vSendMsg = <<>> THEN SocketSendData(queued, upto) ELSE queued

(***************************************************************************)
(* Receiving.  A CNetMessage is the header units and the data units read.  *)
(***************************************************************************)
in_data(msg) == Len(msg.hdr) = Header

nMessageSize(msg) == Size(msg.hdr[Header][1]) - Header

complete(msg) == in_data(msg) /\ Len(msg.data) = nMessageSize(msg)

\* readHeader or readData of one unit, after the choice of the message.
ReadUnit(vRecvMsg, u) ==
    LET new == [hdr |-> <<>>, data |-> <<>>]
        v   == IF vRecvMsg = <<>> \/ complete(Last(vRecvMsg))
               THEN Append(vRecvMsg, new) ELSE vRecvMsg
        k   == Len(v)
    IN  IF in_data(v[k]) THEN [v EXCEPT ![k].data = Append(@, u)]
                         ELSE [v EXCEPT ![k].hdr = Append(@, u)]

ReceiveMsgBytes(n, units) ==
    [n EXCEPT !.vRecvMsg = FoldLeft(ReadUnit, @, units)]

\* Data is allocated ahead, up to the whole message.
GetTotalRecvSize(n) ==
    FoldLeft(LAMBDA total, msg :
                total + Header + (IF msg.data = <<>> THEN 0 ELSE nMessageSize(msg)),
             0, n.vRecvMsg)

(***************************************************************************)
(* The message handler.                                                    *)
(***************************************************************************)

\* One block of those asked for, if the send buffer allows.
ProcessGetData(n, upto) ==
    IF n.vRecvGetData = <<>> \/ n.nSendSize >= SendBufferSize
    THEN n
    ELSE [PushMessage(n, Head(n.vRecvGetData), upto) EXCEPT !.vRecvGetData = Tail(@)]

\* What the units spell, if they are one message.
Parsed(msg) ==
    LET m == msg.hdr[1][1]
    IN  IF msg.hdr \o msg.data = Units(m, 1, Size(m)) THEN m ELSE <<"garbled", 0, 0>>

Blocks(m) == [j \in 1..Items |-> <<"block", m[2], j>>]

ProcessMessage(n, m, upto) ==
    LET n1 == [n EXCEPT !.handled = Append(@, m)]
    IN  CASE m[1] = "getdata" ->
               ProcessGetData([n1 EXCEPT !.vRecvGetData = @ \o Blocks(m)], upto)
          [] m[1] = "ping" -> PushMessage(n1, <<"pong", m[2], 1>>, upto)
          [] OTHER -> n1

\* The first message of the receive buffer can be processed.
Ready(n) ==
    /\ ~n.fDisconnect
    /\ n.nSendSize < SendBufferSize
    /\ n.vRecvMsg # <<>>
    /\ complete(Head(n.vRecvMsg))

\* The buffer is wiped when the connection is shut down meanwhile.
ProcessFirst(n, upto) ==
    LET n1 == ProcessMessage(n, Parsed(Head(n.vRecvMsg)), upto)
    IN  IF n1.fDisconnect THEN n1 ELSE [n1 EXCEPT !.vRecvMsg = Tail(@)]

\* fault: the next message is processed before the blocks left over are sent
ProcessedAhead(n, upto) ==
    IF Ready(n) THEN ProcessFirst(n, upto) ELSE ProcessGetData(n, upto)

\* fault: blocks left over are only sent when another getdata comes
ProcessedOnce(n, upto) ==
    IF n.vRecvGetData = <<>> /\ Ready(n) THEN ProcessFirst(n, upto) ELSE n

ProcessedMessages(n, upto) ==
    LET n1 == ProcessGetData(n, upto)
    IN  IF n1.vRecvGetData = <<>> /\ Ready(n1) THEN ProcessFirst(n1, upto) ELSE n1

\* What TCP does with bytes offered by e.
Fill(e) == IF broken THEN {-1} ELSE Len(node[e].out)..Capacity

\* There is something to do; otherwise the handler leaves all as it is.
CanProcess(n) ==
    /\ ~n.fDisconnect
    /\ n.nSendSize < SendBufferSize
    /\ n.vRecvGetData = <<>> => Ready(n)

ProcessMessages(e) ==
    /\ CanProcess(node[e])
    /\ \E upto \in Fill(e) :
          node' = [node EXCEPT ![e] = ProcessedMessages(@, upto)]
    /\ UNCHANGED broken

\* The next message e has to send on its own account.
SendMessages(e) ==
    /\ ~node[e].fDisconnect
    /\ node[e].scripted < Len(Script[e])
    /\ LET i == node[e].scripted + 1
       IN  \E upto \in Fill(e) :
             node' = [node EXCEPT ![e] =
                 [PushMessage(@, <<Script[e][i], i, 1>>, upto) EXCEPT !.scripted = i]]
    /\ UNCHANGED broken

(***************************************************************************)
(* The socket handler.                                                     *)
(***************************************************************************)
Receivable(n) ==
    (n.vRecvMsg # <<>> /\ complete(Head(n.vRecvMsg)))
        => GetTotalRecvSize(n) <= ReceiveFloodSize

\* What select() is asked for; a lock that the message handler holds is not
\* waited for.  The disconnect loop has just run.
Select(e, lockSend, lockRecv) ==
    /\ node[e].hSocket
    /\ ~node[e].fDisconnect
    /\ node[e].fd = "none"
    /\ \/ /\ lockSend /\ node[e].vSendMsg # <<>>
          /\ node' = [node EXCEPT ![e].fd = "send"]
       \/ /\ ~(lockSend /\ node[e].vSendMsg # <<>>)
          /\ lockRecv /\ Receivable(node[e])
          /\ node' = [node EXCEPT ![e].fd = "recv"]
    /\ UNCHANGED broken

Receive(e) ==
    LET in == node[Other(e)].out
    IN  /\ node[e].fd = "recv"
        /\ node[e].hSocket
        /\ \/ /\ ~broken /\ in # <<>>
              /\ \E k \in 1..Min({RecvBuffer, Len(in)}) :
                    node' = [node EXCEPT
                        ![e] = [ReceiveMsgBytes(@, SubSeq(in, 1, k)) EXCEPT !.fd = "none"],
                        ![Other(e)].out = SubSeq(@, k + 1, Len(@))]
           \/ /\ broken \/ (in = <<>> /\ ~node[Other(e)].hSocket)
              /\ node' = [node EXCEPT ![e] = [CloseSocketDisconnect(@) EXCEPT !.fd = "none"]]
           \/ /\ ~broken /\ in = <<>> /\ node[Other(e)].hSocket
              /\ node' = [node EXCEPT ![e].fd = "none"]
        /\ UNCHANGED broken

\* select() has found room for at least one byte, or an error.
WriteSocket(e) ==
    /\ node[e].fd = "send"
    /\ node[e].hSocket
    /\ \/ \E upto \in Fill(e) \ {Len(node[e].out)} :
            node' = [node EXCEPT ![e] = [SocketSendData(@, upto) EXCEPT !.fd = "none"]]
       \/ /\ ~broken /\ Len(node[e].out) = Capacity
          /\ node' = [node EXCEPT ![e].fd = "none"]
    /\ UNCHANGED broken

\* Neither end can move a byte, and neither will process a message.
Stalled ==
    \A e \in Ends :
        /\ node[e].hSocket
        /\ node[e].vSendMsg # <<>>
        /\ Len(node[e].out) = Capacity
        /\ ~CanProcess(node[e])

\* The inactivity check: twenty minutes without a byte sent.  All other steps
\* take far less, so that it is due when nothing else can happen; at any other
\* time the loss of the connection is Break.
TimeOut(e) ==
    /\ Stalled
    /\ ~node[e].fDisconnect
    /\ node' = [node EXCEPT ![e].fDisconnect = TRUE]
    /\ UNCHANGED broken

\* The disconnect loop at the top of the socket handler.
Disconnect(e) ==
    /\ node[e].fDisconnect
    /\ node[e].hSocket
    /\ node' = [node EXCEPT ![e] = CloseSocketDisconnect(@)]
    /\ UNCHANGED broken

\* External: the network fails.
Break ==
    /\ ~broken
    /\ broken' = TRUE
    /\ UNCHANGED node

MessageHandler(e) == ProcessMessages(e) \/ SendMessages(e)

SocketHandler(e) ==
    \/ \E lockSend, lockRecv \in BOOLEAN : Select(e, lockSend, lockRecv)
    \/ Receive(e)
    \/ WriteSocket(e)
    \/ TimeOut(e)
    \/ Disconnect(e)

Next == Break \/ \E e \in Ends : MessageHandler(e) \/ SocketHandler(e)

\* A call of ProcessMessages has something to do.
ProcessDue(e) ==
    CanProcess(node[e]) /\ \E upto \in Fill(e) : ProcessedMessages(node[e], upto) # node[e]

(***************************************************************************)
(* The threads run.  The locks are held for short times only: a thread     *)
(* that keeps trying for them gets them again and again.  Weak fairness of *)
(* ProcessMessages has its ENABLED, ProcessDue, written out.               *)
(***************************************************************************)
Fairness ==
    \A e \in Ends :
        /\ []<>(~ProcessDue(e)) \/ []<><<ProcessMessages(e)>>_vars
        /\ SF_vars(Select(e, TRUE, TRUE))
        /\ WF_vars(Receive(e) \/ WriteSocket(e) \/ Disconnect(e))
        /\ WF_vars(TimeOut(e))

Spec == Init /\ [][Next]_vars /\ Fairness

-----------------------------------------------------------------------------
(***************************************************************************)
(* Properties                                                              *)
(***************************************************************************)

TypeOK ==
    /\ broken \in BOOLEAN
    /\ \A e \in Ends :
         /\ node[e].nSendOffset \in Nat
         /\ node[e].nSendSize \in Nat
         /\ node[e].fd \in {"none", "send", "recv"}
         /\ {node[e].hSocket, node[e].fDisconnect} \subseteq BOOLEAN
         /\ node[e].scripted \in 0..Len(Script[e])
         /\ Len(node[e].out) <= Capacity

Channel == INSTANCE MessageChannel WITH
    sent      <- [e \in Ends |-> node[e].sent],
    delivered <- [e \in Ends |-> node[Other(e)].handled]

\* Partial and optimistic writes, reads that end anywhere in a header or in
\* the data, a stale choice of select(): each direction still carries whole
\* messages, once each and in order.
CarriesMessages == Channel!Spec

\* The assertions of SocketSendData, and what they rest on: nSendSize is the
\* size of the queue, and nSendOffset lies inside its first message.
SendAccounting ==
    \A e \in Ends :
        LET n == node[e]
        IN  /\ n.nSendSize = FoldLeft(LAMBDA total, m : total + Size(m), 0, n.vSendMsg)
            /\ n.vSendMsg = <<>> => n.nSendOffset = 0
            /\ n.vSendMsg # <<>> => n.nSendOffset < Size(Head(n.vSendMsg))

Answers(m) == CASE m[1] = "getdata" -> Blocks(m)
                [] m[1] = "ping" -> <<<<"pong", m[2], 1>>>>
                [] OTHER -> <<>>

\* "this maintains the order of responses" (ProcessMessages): although a
\* getdata is answered over several rounds, as the send buffer drains, the
\* answers leave in the order of the requests, and no later message is
\* answered before all its blocks.
AnswersInOrder ==
    \A e \in Ends :
        IsPrefix(SelectSeq(node[e].sent, LAMBDA m : m[1] \in {"block", "pong"}),
                 FlattenSeq([i \in 1..Len(node[e].handled) |-> Answers(node[e].handled[i])]))

Closed == \E e \in Ends : ~node[e].hSocket

Answered(e) ==
    \A i \in 1..node[e].scripted :
        ToSet(Answers(<<Script[e][i], i, 1>>)) \subseteq ToSet(node[e].handled)

\* Every request is answered in full, or the connection ends: the flow control
\* of two nodes (a full send buffer stops processing, a full receive buffer
\* stops reading, unsent data stops reading) never leaves them waiting for
\* each other for good, because the inactivity check ends the wait.
RequestsAnswered == []<>(Closed \/ \A e \in Ends : Answered(e))

\* "at least one of the following is always possible, so we don't deadlock:
\* We send some data.  We wait for data to be received (and disconnect after
\* timeout).  We process a message in the buffer" (ThreadSocketHandler).
NeverStalled == ~Stalled
=============================================================================
