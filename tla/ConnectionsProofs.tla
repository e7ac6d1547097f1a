--------------------------- MODULE ConnectionsProofs ---------------------------
(***************************************************************************)
(* The reference counts of the nodes are right for any number of nodes, of   *)
(* threads that open connections and of slots: no pointer to a deleted node, *)
(* no count below zero, no slot made, and none lost unless a connection is   *)
(* closed while its node is being set up.                                    *)
(***************************************************************************)
EXTENDS Connections, FiniteSetTheorems, TLAPS

--------------------------------------------------------------------------------
(* The inductive invariant *)

\* The node between its removal from vNodes and its arrival in the pool.
Cutting == {sock.node} \ {NoNode}

\* A node that exists is in one place; a node that is still to be made is in none.
PlaceInv ==
    /\ TypeOK
    /\ alive \cap deleted = {}
    /\ alive = vNodes \cup pool \cup Cutting
    /\ vNodes \cap pool = {} /\ vNodes \cap Cutting = {} /\ pool \cap Cutting = {}
    /\ grant \subseteq alive
    /\ network \subseteq alive \cup deleted

\* What the two handlers hold, by where they are.
HandlerInv ==
    /\ sock.pc = "cut" <=> sock.node # NoNode
    /\ sock.pc # "service" => sock.copy = {}
    /\ sock.pc \in {"disconnect", "cut"} => sock.todo \subseteq vNodes
    /\ sock.pc = "delete" => sock.todo \subseteq pool
    /\ sock.pc \notin {"disconnect", "cut", "delete"} => sock.todo = {}
    /\ msgh.pc = "idle" => msgh.copy = {}
    /\ sock.copy \subseteq alive /\ msgh.copy \subseteq alive

\* A node that OpenNetworkConnection is still setting up: its flag is not set, and
\* no other thread is setting it up.
OpenInv ==
    /\ \A o \in Openers :
         /\ opener[o].pc \in {"idle", "check", "lookup", "dial", "made", "flag"}
         /\ opener[o].pc \in {"made", "flag"} <=> opener[o].node # NoNode
         /\ opener[o].pc \in {"check", "lookup", "dial"} => opener[o].addr # NoAddr
         /\ opener[o].node # NoNode =>
              /\ opener[o].node \in alive \ network
              /\ addr[opener[o].node] # NoAddr
         /\ opener[o].pc \in {"idle", "flag"} => ~opener[o].grant
    /\ \A o, p \in Openers : opener[o].node = opener[p].node /\ opener[o].node # NoNode => o = p

Opening == {opener[o].node : o \in Openers}

\* The connection has a reference of its own until Cut releases it; Cut does not
\* release it while OpenNetworkConnection is setting the node up.
RefInv ==
    /\ \A n \in vNodes \cup Cutting : ref[n] = Held(n) + 1
    /\ \A n \in pool : ref[n] \in {Held(n), Held(n) + 1}
    /\ \A n \in pool \cap Opening : ref[n] = Held(n) + 1
    /\ \A n \in Nodes \ alive : ref[n] = 0

\* Each slot is free, or with a thread that is connecting, or with exactly one node, which
\* may be one that is never deleted.
SlotsCounted == sem + Cardinality(grant) + Cardinality(Connecting) = MaxOutbound

SlotInv == sem \in Nat /\ SlotsCounted

IInv == PlaceInv /\ HandlerInv /\ OpenInv /\ RefInv /\ SlotInv
--------------------------------------------------------------------------------
(* The slots *)

\* Sets of nodes and of threads are finite, so that their sizes are numbers.
LEMMA Sizes ==
    ASSUME TypeOK
    PROVE  /\ IsFiniteSet(grant) /\ Cardinality(grant) \in Nat
           /\ IsFiniteSet(Connecting)
           /\ Cardinality(Connecting) \in Nat
  <1>1. grant \in SUBSET Nodes /\ Connecting \in SUBSET Openers
    BY DEF TypeOK, SocketState, OpenerState, Connecting
  <1>2. IsFiniteSet(grant) /\ IsFiniteSet(Connecting)
    BY <1>1, FS_Subset, SlotsAssumption, OpenersAssumption
  <1>3. QED  BY <1>2, FS_CardinalityType

\* A node that gives its slot back.
LEMMA NodePosts ==
    ASSUME NEW n \in Nodes, TypeOK, SlotInv,
           sem' = Posted(n \in grant), grant' = grant \ {n}, UNCHANGED opener
    PROVE  SlotInv'
  <1>1. Cardinality(grant') = IF n \in grant THEN Cardinality(grant) - 1 ELSE Cardinality(grant)
    BY Zenon, Sizes, FS_RemoveElement
  <1>2. QED  BY <1>1, Sizes, SlotsAssumption DEF SlotInv, SlotsCounted, Connecting, Posted

--------------------------------------------------------------------------------
(* The socket handler *)

\* The loop over vNodes starts.
LEMMA StartDisconnectInv == ASSUME IInv, StartDisconnect PROVE IInv'
  <1>1. PlaceInv'
    <2>1. TypeOK'
      BY Zenon, NoneAssumption DEF IInv, PlaceInv, TypeOK, SocketState, OpenerState, StartDisconnect, nodeVars
    <2>2. QED
      BY Zenon, <2>1, NoneAssumption DEF IInv, PlaceInv, HandlerInv, OpenInv, TypeOK, SocketState, OpenerState, Cutting, StartDisconnect, nodeVars
  <1>2. HandlerInv'
    BY NoneAssumption DEF IInv, PlaceInv, HandlerInv, OpenInv, RefInv, TypeOK, SocketState, OpenerState, Cutting, Held, StartDisconnect, nodeVars
  <1>3. OpenInv'
    BY NoneAssumption DEF IInv, PlaceInv, HandlerInv, OpenInv, RefInv, TypeOK, SocketState, OpenerState, Cutting, Opening, Held, StartDisconnect, nodeVars
  <1>4. RefInv'
    BY NoneAssumption DEF IInv, PlaceInv, HandlerInv, OpenInv, RefInv, TypeOK, SocketState, OpenerState, Cutting, Opening, Held, StartDisconnect, nodeVars
  <1>5. SlotInv'
    BY DEF IInv, SlotInv, SlotsCounted, Connecting, StartDisconnect
  <1>6. QED  BY <1>1, <1>2, <1>3, <1>4, <1>5 DEF IInv

\* A node leaves vNodes.
LEMMA UnlinkInv == ASSUME NEW n \in Nodes, IInv, Unlink(n) PROVE IInv'
  <1>1. PlaceInv'
    <2>1. TypeOK'
      <3>1. sock' \in SocketState
        BY Zenon, NoneAssumption DEF IInv, PlaceInv, HandlerInv, OpenInv, TypeOK, SocketState, OpenerState, Unlink, nodeVars, Posted
      <3>2. QED  BY <3>1, NoneAssumption DEF IInv, PlaceInv, TypeOK, Unlink, nodeVars, Posted
    <2>2. QED
      BY <2>1, NoneAssumption DEF IInv, PlaceInv, HandlerInv, OpenInv, TypeOK, SocketState, OpenerState, Cutting, Unlink, nodeVars, Posted
  <1>2. HandlerInv'
    BY NoneAssumption DEF IInv, PlaceInv, HandlerInv, OpenInv, RefInv, TypeOK, SocketState, OpenerState, Cutting, Held, Unlink, nodeVars, Posted
  <1>3. OpenInv'
    BY NoneAssumption DEF IInv, PlaceInv, HandlerInv, OpenInv, RefInv, TypeOK, SocketState, OpenerState, Cutting, Opening, Held, Unlink, nodeVars, Posted
  <1>4. RefInv'
    BY NoneAssumption DEF IInv, PlaceInv, HandlerInv, OpenInv, RefInv, TypeOK, SocketState, OpenerState, Cutting, Opening, Held, Unlink, nodeVars, Posted
  <1>5. SlotInv'
    BY NodePosts DEF IInv, PlaceInv, Unlink
  <1>6. QED  BY <1>1, <1>2, <1>3, <1>4, <1>5 DEF IInv

\* A node enters the pool, and the reference of the connection is released if the flags are set.
LEMMA CutInv == ASSUME NEW n \in Nodes, IInv, Cut(n) PROVE IInv'
  <1>1. PlaceInv'
    <2>1. TypeOK'
      <3>1. sock' \in SocketState
        BY Zenon, NoneAssumption DEF IInv, PlaceInv, HandlerInv, OpenInv, TypeOK, SocketState, OpenerState, Cut, nodeVars, ReleaseRefs, inbound
      <3>2. ref' \in [Nodes -> Int]
        BY NoneAssumption DEF IInv, PlaceInv, HandlerInv, OpenInv, TypeOK, SocketState, OpenerState, Cut, nodeVars, ReleaseRefs, inbound
      <3>3. QED  BY <3>1, <3>2, NoneAssumption DEF IInv, PlaceInv, TypeOK, Cut, nodeVars, ReleaseRefs, inbound
    <2>2. QED
      BY <2>1, NoneAssumption DEF IInv, PlaceInv, HandlerInv, OpenInv, TypeOK, SocketState, OpenerState, Cutting, Cut, nodeVars, ReleaseRefs, inbound
  <1>2. HandlerInv'
    BY NoneAssumption DEF IInv, PlaceInv, HandlerInv, OpenInv, RefInv, TypeOK, SocketState, OpenerState, Cutting, Held, Cut, nodeVars, ReleaseRefs, inbound
  <1>3. OpenInv'
    BY NoneAssumption DEF IInv, PlaceInv, HandlerInv, OpenInv, RefInv, TypeOK, SocketState, OpenerState, Cutting, Opening, Held, Cut, nodeVars, ReleaseRefs, inbound
  <1>4. RefInv'
    BY NoneAssumption DEF IInv, PlaceInv, HandlerInv, OpenInv, RefInv, TypeOK, SocketState, OpenerState, Cutting, Opening, Held, Cut, nodeVars, ReleaseRefs, inbound
  <1>5. SlotInv'
    BY DEF IInv, SlotInv, SlotsCounted, Connecting, Cut
  <1>6. QED  BY <1>1, <1>2, <1>3, <1>4, <1>5 DEF IInv

\* The loop over the pool starts.
LEMMA StartDeleteInv == ASSUME IInv, StartDelete PROVE IInv'
  <1>1. PlaceInv'
    <2>1. TypeOK'
      BY Zenon, NoneAssumption DEF IInv, PlaceInv, TypeOK, SocketState, OpenerState, StartDelete, nodeVars
    <2>2. QED
      BY <2>1, NoneAssumption DEF IInv, PlaceInv, HandlerInv, OpenInv, TypeOK, SocketState, OpenerState, Cutting, StartDelete, nodeVars
  <1>2. HandlerInv'
    BY NoneAssumption DEF IInv, PlaceInv, HandlerInv, OpenInv, RefInv, TypeOK, SocketState, OpenerState, Cutting, Held, StartDelete, nodeVars
  <1>3. OpenInv'
    BY NoneAssumption DEF IInv, PlaceInv, HandlerInv, OpenInv, RefInv, TypeOK, SocketState, OpenerState, Cutting, Opening, Held, StartDelete, nodeVars
  <1>4. RefInv'
    BY NoneAssumption DEF IInv, PlaceInv, HandlerInv, OpenInv, RefInv, TypeOK, SocketState, OpenerState, Cutting, Opening, Held, StartDelete, nodeVars
  <1>5. SlotInv'
    BY DEF IInv, SlotInv, SlotsCounted, Connecting, StartDelete
  <1>6. QED  BY <1>1, <1>2, <1>3, <1>4, <1>5 DEF IInv

\* A node without references is deleted.
LEMMA DeleteInv == ASSUME NEW n \in Nodes, IInv, Delete(n) PROVE IInv'
  <1>1. PlaceInv'
    <2>1. TypeOK'
      BY NoneAssumption DEF IInv, PlaceInv, TypeOK, SocketState, OpenerState, Delete, nodeVars, Posted
    <2>2. QED
      BY <2>1, NoneAssumption DEF IInv, PlaceInv, HandlerInv, OpenInv, TypeOK, SocketState, OpenerState, Cutting, Delete, nodeVars, Posted
  <1>2. HandlerInv'
    BY NoneAssumption DEF IInv, PlaceInv, HandlerInv, OpenInv, RefInv, TypeOK, SocketState, OpenerState, Cutting, Held, Delete, nodeVars, Posted
  <1>3. OpenInv'
    BY NoneAssumption DEF IInv, PlaceInv, HandlerInv, OpenInv, RefInv, TypeOK, SocketState, OpenerState, Cutting, Opening, Held, Delete, nodeVars, Posted
  <1>4. RefInv'
    BY NoneAssumption DEF IInv, PlaceInv, HandlerInv, OpenInv, RefInv, TypeOK, SocketState, OpenerState, Cutting, Opening, Held, Delete, nodeVars, Posted
  <1>5. SlotInv'
    <2>1. CASE ref[n] <= 0
      BY <2>1, NodePosts DEF IInv, PlaceInv, Delete
    <2>2. CASE ~(ref[n] <= 0)
      BY <2>2 DEF IInv, SlotInv, SlotsCounted, Connecting, Delete
    <2>3. QED  BY <2>1, <2>2
  <1>6. QED  BY <1>1, <1>2, <1>3, <1>4, <1>5 DEF IInv

\* A peer connects to us.
LEMMA AcceptInv == ASSUME NEW n \in Nodes, IInv, Accept(n) PROVE IInv'
  <1>1. PlaceInv'
    <2>1. TypeOK'
      BY NoneAssumption DEF IInv, PlaceInv, TypeOK, SocketState, OpenerState, Accept, nodeVars, AddRefs
    <2>2. QED
      BY <2>1, NoneAssumption DEF IInv, PlaceInv, HandlerInv, OpenInv, TypeOK, SocketState, OpenerState, Cutting, Accept, nodeVars, AddRefs
  <1>2. HandlerInv'
    BY NoneAssumption DEF IInv, PlaceInv, HandlerInv, OpenInv, RefInv, TypeOK, SocketState, OpenerState, Cutting, Held, Accept, nodeVars, AddRefs
  <1>3. OpenInv'
    BY NoneAssumption DEF IInv, PlaceInv, HandlerInv, OpenInv, RefInv, TypeOK, SocketState, OpenerState, Cutting, Opening, Held, Accept, nodeVars, AddRefs
  <1>4. RefInv'
    BY NoneAssumption DEF IInv, PlaceInv, HandlerInv, OpenInv, RefInv, TypeOK, SocketState, OpenerState, Cutting, Opening, Held, Accept, nodeVars, AddRefs
  <1>5. SlotInv'
    BY DEF IInv, SlotInv, SlotsCounted, Connecting, Accept
  <1>6. QED  BY <1>1, <1>2, <1>3, <1>4, <1>5 DEF IInv

\* The socket handler copies vNodes.
LEMMA StartServiceInv == ASSUME IInv, StartService PROVE IInv'
  <1>1. PlaceInv'
    <2>1. TypeOK'
      <3>1. sock' \in SocketState
        BY Zenon, NoneAssumption DEF IInv, PlaceInv, HandlerInv, OpenInv, TypeOK, SocketState, OpenerState, StartService, nodeVars, AddRefs
      <3>2. ref' \in [Nodes -> Int]
        BY NoneAssumption DEF IInv, PlaceInv, HandlerInv, OpenInv, TypeOK, SocketState, OpenerState, StartService, nodeVars, AddRefs
      <3>3. QED  BY <3>1, <3>2, NoneAssumption DEF IInv, PlaceInv, TypeOK, StartService, nodeVars, AddRefs
    <2>2. QED
      BY <2>1, NoneAssumption DEF IInv, PlaceInv, HandlerInv, OpenInv, TypeOK, SocketState, OpenerState, Cutting, StartService, nodeVars, AddRefs
  <1>2. HandlerInv'
    BY NoneAssumption DEF IInv, PlaceInv, HandlerInv, OpenInv, RefInv, TypeOK, SocketState, OpenerState, Cutting, Held, StartService, nodeVars, AddRefs
  <1>3. OpenInv'
    BY NoneAssumption DEF IInv, PlaceInv, HandlerInv, OpenInv, RefInv, TypeOK, SocketState, OpenerState, Cutting, Opening, Held, StartService, nodeVars, AddRefs
  <1>4. RefInv'
    BY NoneAssumption DEF IInv, PlaceInv, HandlerInv, OpenInv, RefInv, TypeOK, SocketState, OpenerState, Cutting, Opening, Held, StartService, nodeVars, AddRefs
  <1>5. SlotInv'
    BY DEF IInv, SlotInv, SlotsCounted, Connecting, StartService
  <1>6. QED  BY <1>1, <1>2, <1>3, <1>4, <1>5 DEF IInv

\* The socket handler releases its copy.
LEMMA ServiceInv == ASSUME IInv, Service PROVE IInv'
  <1>1. PlaceInv'
    <2>1. TypeOK'
      <3>1. sock' \in SocketState
        BY Zenon, NoneAssumption DEF IInv, PlaceInv, HandlerInv, OpenInv, TypeOK, SocketState, OpenerState, Service, nodeVars, ReleaseRefs
      <3>2. ref' \in [Nodes -> Int]
        BY NoneAssumption DEF IInv, PlaceInv, HandlerInv, OpenInv, TypeOK, SocketState, OpenerState, Service, nodeVars, ReleaseRefs
      <3>3. disconnect' \subseteq Nodes
        BY NoneAssumption DEF IInv, PlaceInv, HandlerInv, OpenInv, TypeOK, SocketState, OpenerState, Service, nodeVars, ReleaseRefs
      <3>4. QED  BY <3>1, <3>2, <3>3 DEF IInv, PlaceInv, TypeOK, Service, nodeVars
    <2>2. QED
      BY <2>1, NoneAssumption DEF IInv, PlaceInv, HandlerInv, OpenInv, TypeOK, SocketState, OpenerState, Cutting, Service, nodeVars, ReleaseRefs
  <1>2. HandlerInv'
    BY NoneAssumption DEF IInv, PlaceInv, HandlerInv, OpenInv, RefInv, TypeOK, SocketState, OpenerState, Cutting, Held, Service, nodeVars, ReleaseRefs
  <1>3. OpenInv'
    BY NoneAssumption DEF IInv, PlaceInv, HandlerInv, OpenInv, RefInv, TypeOK, SocketState, OpenerState, Cutting, Opening, Held, Service, nodeVars, ReleaseRefs
  <1>4. RefInv'
    BY NoneAssumption DEF IInv, PlaceInv, HandlerInv, OpenInv, RefInv, TypeOK, SocketState, OpenerState, Cutting, Opening, Held, Service, nodeVars, ReleaseRefs
  <1>5. SlotInv'
    BY DEF IInv, SlotInv, SlotsCounted, Connecting, Service
  <1>6. QED  BY <1>1, <1>2, <1>3, <1>4, <1>5 DEF IInv

--------------------------------------------------------------------------------
(* The message handler *)

\* The message handler copies vNodes.
LEMMA CopyNodesInv == ASSUME IInv, CopyNodes PROVE IInv'
  <1>1. PlaceInv'
    <2>1. TypeOK'
      BY NoneAssumption DEF IInv, PlaceInv, TypeOK, SocketState, OpenerState, CopyNodes, nodeVars, AddRefs, NodesUnlocked
    <2>2. QED
      BY <2>1, NoneAssumption DEF IInv, PlaceInv, HandlerInv, OpenInv, TypeOK, SocketState, OpenerState, Cutting, CopyNodes, nodeVars, AddRefs, NodesUnlocked
  <1>2. HandlerInv'
    BY NoneAssumption DEF IInv, PlaceInv, HandlerInv, OpenInv, RefInv, TypeOK, SocketState, OpenerState, Cutting, Held, CopyNodes, nodeVars, AddRefs, NodesUnlocked
  <1>3. OpenInv'
    BY NoneAssumption DEF IInv, PlaceInv, HandlerInv, OpenInv, RefInv, TypeOK, SocketState, OpenerState, Cutting, Opening, Held, CopyNodes, nodeVars, AddRefs, NodesUnlocked
  <1>4. RefInv'
    BY NoneAssumption DEF IInv, PlaceInv, HandlerInv, OpenInv, RefInv, TypeOK, SocketState, OpenerState, Cutting, Opening, Held, CopyNodes, nodeVars, AddRefs, NodesUnlocked
  <1>5. SlotInv'
    BY DEF IInv, SlotInv, SlotsCounted, Connecting, CopyNodes
  <1>6. QED  BY <1>1, <1>2, <1>3, <1>4, <1>5 DEF IInv

\* The message handler disconnects a peer.
LEMMA ProcessInv == ASSUME NEW n \in Nodes, IInv, Process(n) PROVE IInv'
  <1>1. PlaceInv'
    <2>1. TypeOK'
      BY NoneAssumption DEF IInv, PlaceInv, TypeOK, SocketState, OpenerState, Process, nodeVars
    <2>2. QED
      BY <2>1, NoneAssumption DEF IInv, PlaceInv, HandlerInv, OpenInv, TypeOK, SocketState, OpenerState, Cutting, Process, nodeVars
  <1>2. HandlerInv'
    BY NoneAssumption DEF IInv, PlaceInv, HandlerInv, OpenInv, RefInv, TypeOK, SocketState, OpenerState, Cutting, Held, Process, nodeVars
  <1>3. OpenInv'
    BY NoneAssumption DEF IInv, PlaceInv, HandlerInv, OpenInv, RefInv, TypeOK, SocketState, OpenerState, Cutting, Opening, Held, Process, nodeVars
  <1>4. RefInv'
    BY NoneAssumption DEF IInv, PlaceInv, HandlerInv, OpenInv, RefInv, TypeOK, SocketState, OpenerState, Cutting, Opening, Held, Process, nodeVars
  <1>5. SlotInv'
    BY DEF IInv, SlotInv, SlotsCounted, Connecting, Process
  <1>6. QED  BY <1>1, <1>2, <1>3, <1>4, <1>5 DEF IInv

\* The message handler releases its copy.
LEMMA ReleaseNodesInv == ASSUME IInv, ReleaseNodes PROVE IInv'
  <1>1. PlaceInv'
    <2>1. TypeOK'
      BY NoneAssumption DEF IInv, PlaceInv, TypeOK, SocketState, OpenerState, ReleaseNodes, nodeVars, ReleaseRefs, NodesUnlocked
    <2>2. QED
      BY <2>1, NoneAssumption DEF IInv, PlaceInv, HandlerInv, OpenInv, TypeOK, SocketState, OpenerState, Cutting, ReleaseNodes, nodeVars, ReleaseRefs, NodesUnlocked
  <1>2. HandlerInv'
    BY NoneAssumption DEF IInv, PlaceInv, HandlerInv, OpenInv, RefInv, TypeOK, SocketState, OpenerState, Cutting, Held, ReleaseNodes, nodeVars, ReleaseRefs, NodesUnlocked
  <1>3. OpenInv'
    BY NoneAssumption DEF IInv, PlaceInv, HandlerInv, OpenInv, RefInv, TypeOK, SocketState, OpenerState, Cutting, Opening, Held, ReleaseNodes, nodeVars, ReleaseRefs, NodesUnlocked
  <1>4. RefInv'
    BY NoneAssumption DEF IInv, PlaceInv, HandlerInv, OpenInv, RefInv, TypeOK, SocketState, OpenerState, Cutting, Opening, Held, ReleaseNodes, nodeVars, ReleaseRefs, NodesUnlocked
  <1>5. SlotInv'
    BY DEF IInv, SlotInv, SlotsCounted, Connecting, ReleaseNodes
  <1>6. QED  BY <1>1, <1>2, <1>3, <1>4, <1>5 DEF IInv

--------------------------------------------------------------------------------
(* The threads that open connections *)

\* A thread that gets a slot, or loses the one it has.
LEMMA OpenerSlots ==
    ASSUME NEW o \in Openers, TypeOK, opener' = [opener EXCEPT ![o] = opener'[o]],
           opener'[o].grant \in BOOLEAN
    PROVE  Cardinality(Connecting') =
             Cardinality(Connecting)
               + (IF opener'[o].grant THEN 1 ELSE 0) - (IF opener[o].grant THEN 1 ELSE 0)
  <1>1. IsFiniteSet(Connecting) /\ Cardinality(Connecting) \in Nat
    BY Sizes
  <1>2. opener[o].grant \in BOOLEAN
    BY DEF TypeOK, OpenerState
  <1>3. ASSUME opener'[o].grant, ~opener[o].grant
        PROVE  Cardinality(Connecting') = Cardinality(Connecting) + 1
    <2>1. Connecting' = Connecting \cup {o} /\ o \notin Connecting
      BY <1>3 DEF TypeOK, SocketState, OpenerState, Connecting
    <2>2. QED  BY Zenon, <1>1, <2>1, FS_AddElement
  <1>4. ASSUME ~opener'[o].grant, opener[o].grant
        PROVE  Cardinality(Connecting') = Cardinality(Connecting) - 1
    <2>1. Connecting' = Connecting \ {o} /\ o \in Connecting
      BY <1>4 DEF TypeOK, SocketState, OpenerState, Connecting
    <2>2. QED  BY Zenon, <1>1, <2>1, FS_RemoveElement
  <1>5. ASSUME opener'[o].grant = opener[o].grant
        PROVE  Connecting' = Connecting
    BY <1>5 DEF TypeOK, SocketState, OpenerState, Connecting
  <1>6. QED  BY <1>1, <1>2, <1>3, <1>4, <1>5

\* The count of the slots, after a step of one thread.
LEMMA OpenerSlotInv ==
    ASSUME NEW o \in Openers, TypeOK, SlotInv, UNCHANGED grant,
           opener' = [opener EXCEPT ![o] = opener'[o]], opener'[o].grant \in BOOLEAN,
           sem' \in Nat,
           sem' = sem + (IF opener[o].grant THEN 1 ELSE 0) - (IF opener'[o].grant THEN 1 ELSE 0)
    PROVE  SlotInv'
  <1>1. Cardinality(Connecting') =
          Cardinality(Connecting)
            + (IF opener'[o].grant THEN 1 ELSE 0) - (IF opener[o].grant THEN 1 ELSE 0)
    BY OpenerSlots
  <1>2. QED  BY <1>1, Sizes, SlotsAssumption DEF SlotInv, SlotsCounted

\* A call starts, with a slot or without.
LEMMA CallInv == ASSUME NEW o \in Openers, NEW a \in Targets[o], NEW slot \in BOOLEAN, IInv, Call(o, a, slot) PROVE IInv'
  <1>1. PlaceInv'
    <2>1. TypeOK'
      BY NoneAssumption DEF IInv, PlaceInv, TypeOK, SocketState, OpenerState, Call, nodeVars, At, Addrs
    <2>2. QED
      BY <2>1, NoneAssumption DEF IInv, PlaceInv, HandlerInv, OpenInv, TypeOK, SocketState, OpenerState, Cutting, Call, nodeVars, At, Addrs
  <1>2. HandlerInv'
    BY NoneAssumption DEF IInv, PlaceInv, HandlerInv, OpenInv, RefInv, TypeOK, SocketState, OpenerState, Cutting, Held, Call, nodeVars, At, Addrs
  <1>3. OpenInv'
    BY NoneAssumption DEF IInv, PlaceInv, HandlerInv, OpenInv, RefInv, TypeOK, SocketState, OpenerState, Cutting, Opening, Held, Call, nodeVars, At, Addrs
  <1>4. RefInv'
    BY NoneAssumption DEF IInv, PlaceInv, HandlerInv, OpenInv, RefInv, TypeOK, SocketState, OpenerState, Cutting, Opening, Held, Call, nodeVars, At, Addrs
  <1>5. SlotInv'
    <2>1. opener' = [opener EXCEPT ![o] = opener'[o]] /\ opener'[o].grant \in BOOLEAN
      BY DEF IInv, PlaceInv, TypeOK, SocketState, OpenerState, Call, NotOpening
    <2>2. sem' \in Nat /\ sem' = sem + (IF opener[o].grant THEN 1 ELSE 0) - (IF opener'[o].grant THEN 1 ELSE 0)
      BY DEF IInv, PlaceInv, OpenInv, TypeOK, OpenerState, SlotInv, Posted, Call, NotOpening, At
    <2>3. QED  BY Zenon, <2>1, <2>2, OpenerSlotInv DEF IInv, PlaceInv, Call
  <1>6. QED  BY <1>1, <1>2, <1>3, <1>4, <1>5 DEF IInv

\* A call gives up.
LEMMA AbandonInv == ASSUME NEW o \in Openers, IInv, Abandon(o) PROVE IInv'
  <1>1. PlaceInv'
    <2>1. TypeOK'
      BY NoneAssumption DEF IInv, PlaceInv, TypeOK, SocketState, OpenerState, Abandon, nodeVars, Posted, At, NotOpening
    <2>2. QED
      BY <2>1, NoneAssumption DEF IInv, PlaceInv, HandlerInv, OpenInv, TypeOK, SocketState, OpenerState, Cutting, Abandon, nodeVars, Posted, At, NotOpening
  <1>2. HandlerInv'
    BY NoneAssumption DEF IInv, PlaceInv, HandlerInv, OpenInv, RefInv, TypeOK, SocketState, OpenerState, Cutting, Held, Abandon, nodeVars, Posted, At, NotOpening
  <1>3. OpenInv'
    BY NoneAssumption DEF IInv, PlaceInv, HandlerInv, OpenInv, RefInv, TypeOK, SocketState, OpenerState, Cutting, Opening, Held, Abandon, nodeVars, Posted, At, NotOpening
  <1>4. RefInv'
    BY NoneAssumption DEF IInv, PlaceInv, HandlerInv, OpenInv, RefInv, TypeOK, SocketState, OpenerState, Cutting, Opening, Held, Abandon, nodeVars, Posted, At, NotOpening
  <1>5. SlotInv'
    <2>1. opener' = [opener EXCEPT ![o] = opener'[o]] /\ opener'[o].grant \in BOOLEAN
      BY DEF IInv, PlaceInv, TypeOK, SocketState, OpenerState, Abandon, NotOpening
    <2>2. sem' \in Nat /\ sem' = sem + (IF opener[o].grant THEN 1 ELSE 0) - (IF opener'[o].grant THEN 1 ELSE 0)
      BY DEF IInv, PlaceInv, OpenInv, TypeOK, OpenerState, SlotInv, Posted, Abandon, NotOpening, At
    <2>3. QED  BY Zenon, <2>1, <2>2, OpenerSlotInv DEF IInv, PlaceInv, Abandon
  <1>6. QED  BY <1>1, <1>2, <1>3, <1>4, <1>5 DEF IInv

\* OpenNetworkConnection finds no connection.
LEMMA CheckInv == ASSUME NEW o \in Openers, IInv, Check(o) PROVE IInv'
  <1>1. PlaceInv'
    <2>1. TypeOK'
      BY NoneAssumption DEF IInv, PlaceInv, TypeOK, SocketState, OpenerState, Check, nodeVars, At
    <2>2. QED
      BY <2>1, NoneAssumption DEF IInv, PlaceInv, HandlerInv, OpenInv, TypeOK, SocketState, OpenerState, Cutting, Check, nodeVars, At
  <1>2. HandlerInv'
    BY NoneAssumption DEF IInv, PlaceInv, HandlerInv, OpenInv, RefInv, TypeOK, SocketState, OpenerState, Cutting, Held, Check, nodeVars, At
  <1>3. OpenInv'
    BY NoneAssumption DEF IInv, PlaceInv, HandlerInv, OpenInv, RefInv, TypeOK, SocketState, OpenerState, Cutting, Opening, Held, Check, nodeVars, At
  <1>4. RefInv'
    BY NoneAssumption DEF IInv, PlaceInv, HandlerInv, OpenInv, RefInv, TypeOK, SocketState, OpenerState, Cutting, Opening, Held, Check, nodeVars, At
  <1>5. SlotInv'
    <2>1. opener' = [opener EXCEPT ![o] = opener'[o]] /\ opener'[o].grant \in BOOLEAN
      BY DEF IInv, PlaceInv, TypeOK, SocketState, OpenerState, Check, NotOpening
    <2>2. sem' \in Nat /\ sem' = sem + (IF opener[o].grant THEN 1 ELSE 0) - (IF opener'[o].grant THEN 1 ELSE 0)
      BY DEF IInv, PlaceInv, OpenInv, TypeOK, OpenerState, SlotInv, Posted, Check, NotOpening, At
    <2>3. QED  BY Zenon, <2>1, <2>2, OpenerSlotInv DEF IInv, PlaceInv, Check
  <1>6. QED  BY <1>1, <1>2, <1>3, <1>4, <1>5 DEF IInv

\* ConnectNode finds no connection.
LEMMA LookupInv == ASSUME NEW o \in Openers, IInv, Lookup(o) PROVE IInv'
  <1>1. PlaceInv'
    <2>1. TypeOK'
      BY NoneAssumption DEF IInv, PlaceInv, TypeOK, SocketState, OpenerState, Lookup, nodeVars, At
    <2>2. QED
      BY <2>1, NoneAssumption DEF IInv, PlaceInv, HandlerInv, OpenInv, TypeOK, SocketState, OpenerState, Cutting, Lookup, nodeVars, At
  <1>2. HandlerInv'
    BY NoneAssumption DEF IInv, PlaceInv, HandlerInv, OpenInv, RefInv, TypeOK, SocketState, OpenerState, Cutting, Held, Lookup, nodeVars, At
  <1>3. OpenInv'
    BY NoneAssumption DEF IInv, PlaceInv, HandlerInv, OpenInv, RefInv, TypeOK, SocketState, OpenerState, Cutting, Opening, Held, Lookup, nodeVars, At
  <1>4. RefInv'
    BY NoneAssumption DEF IInv, PlaceInv, HandlerInv, OpenInv, RefInv, TypeOK, SocketState, OpenerState, Cutting, Opening, Held, Lookup, nodeVars, At
  <1>5. SlotInv'
    <2>1. opener' = [opener EXCEPT ![o] = opener'[o]] /\ opener'[o].grant \in BOOLEAN
      BY DEF IInv, PlaceInv, TypeOK, SocketState, OpenerState, Lookup, NotOpening
    <2>2. sem' \in Nat /\ sem' = sem + (IF opener[o].grant THEN 1 ELSE 0) - (IF opener'[o].grant THEN 1 ELSE 0)
      BY DEF IInv, PlaceInv, OpenInv, TypeOK, OpenerState, SlotInv, Posted, Lookup, NotOpening, At
    <2>3. QED  BY Zenon, <2>1, <2>2, OpenerSlotInv DEF IInv, PlaceInv, Lookup
  <1>6. QED  BY <1>1, <1>2, <1>3, <1>4, <1>5 DEF IInv

\* A new node enters vNodes.
LEMMA PublishInv == ASSUME NEW o \in Openers, NEW n \in Nodes, IInv, Publish(o, n) PROVE IInv'
  <1>1. PlaceInv'
    <2>1. TypeOK'
      <3>1. opener' \in [Openers -> OpenerState]
        <4>1. opener \in [Openers -> OpenerState] /\ opener[o] \in OpenerState
          BY DEF IInv, PlaceInv, TypeOK
        <4>2. [opener[o] EXCEPT !.pc = "made", !.node = n] \in OpenerState
          BY Zenon, <4>1 DEF OpenerState
        <4>3. QED  BY <4>1, <4>2 DEF Publish
      <3>2. ref' \in [Nodes -> Int]
        BY NoneAssumption DEF IInv, PlaceInv, HandlerInv, OpenInv, TypeOK, SocketState, OpenerState, Publish, nodeVars, At, AddRefs, NodesUnlocked
      <3>3. addr' \in [Nodes -> Addrs \cup {NoAddr}]
        BY NoneAssumption DEF IInv, PlaceInv, HandlerInv, OpenInv, TypeOK, SocketState, OpenerState, Publish, nodeVars, At, AddRefs, NodesUnlocked
      <3>4. QED  BY <3>1, <3>2, <3>3 DEF IInv, PlaceInv, TypeOK, Publish, nodeVars
    <2>2. QED
      BY <2>1, NoneAssumption DEF IInv, PlaceInv, HandlerInv, OpenInv, TypeOK, SocketState, OpenerState, Cutting, Publish, nodeVars, At, AddRefs, NodesUnlocked
  <1>2. HandlerInv'
    BY NoneAssumption DEF IInv, PlaceInv, HandlerInv, OpenInv, RefInv, TypeOK, SocketState, OpenerState, Cutting, Held, Publish, nodeVars, At, AddRefs, NodesUnlocked
  <1>3. OpenInv'
    BY NoneAssumption DEF IInv, PlaceInv, HandlerInv, OpenInv, RefInv, TypeOK, SocketState, OpenerState, Cutting, Opening, Held, Publish, nodeVars, At, AddRefs, NodesUnlocked
  <1>4. RefInv'
    BY NoneAssumption DEF IInv, PlaceInv, HandlerInv, OpenInv, RefInv, TypeOK, SocketState, OpenerState, Cutting, Opening, Held, Publish, nodeVars, At, AddRefs, NodesUnlocked
  <1>5. SlotInv'
    <2>1. opener' = [opener EXCEPT ![o] = opener'[o]] /\ opener'[o].grant \in BOOLEAN
      BY DEF IInv, PlaceInv, TypeOK, SocketState, OpenerState, Publish, NotOpening
    <2>2. sem' \in Nat /\ sem' = sem + (IF opener[o].grant THEN 1 ELSE 0) - (IF opener'[o].grant THEN 1 ELSE 0)
      BY DEF IInv, PlaceInv, OpenInv, TypeOK, OpenerState, SlotInv, Posted, Publish, NotOpening, At
    <2>3. QED  BY Zenon, <2>1, <2>2, OpenerSlotInv DEF IInv, PlaceInv, Publish
  <1>6. QED  BY <1>1, <1>2, <1>3, <1>4, <1>5 DEF IInv

\* The slot moves from the call to the node.
LEMMA MoveGrantInv == ASSUME NEW o \in Openers, IInv, MoveGrant(o) PROVE IInv'
  <1>1. PlaceInv'
    <2>1. TypeOK'
      <3>1. opener' \in [Openers -> OpenerState]
        <4>1. opener \in [Openers -> OpenerState] /\ opener[o] \in OpenerState
          BY DEF IInv, PlaceInv, TypeOK
        <4>2. [opener[o] EXCEPT !.pc = "flag", !.grant = FALSE] \in OpenerState
          BY Zenon, <4>1 DEF OpenerState
        <4>3. QED  BY <4>1, <4>2 DEF MoveGrant
      <3>2. grant' \subseteq Nodes /\ sem' \in Int
        BY NoneAssumption DEF IInv, PlaceInv, HandlerInv, OpenInv, TypeOK, SocketState, OpenerState, MoveGrant, nodeVars, Posted, At
      <3>3. QED  BY <3>1, <3>2 DEF IInv, PlaceInv, TypeOK, MoveGrant, nodeVars
    <2>2. QED
      BY <2>1, NoneAssumption DEF IInv, PlaceInv, HandlerInv, OpenInv, TypeOK, SocketState, OpenerState, Cutting, MoveGrant, nodeVars, Posted, At
  <1>2. HandlerInv'
    BY NoneAssumption DEF IInv, PlaceInv, HandlerInv, OpenInv, RefInv, TypeOK, SocketState, OpenerState, Cutting, Held, MoveGrant, nodeVars, Posted, At
  <1>3. OpenInv'
    BY NoneAssumption DEF IInv, PlaceInv, HandlerInv, OpenInv, RefInv, TypeOK, SocketState, OpenerState, Cutting, Opening, Held, MoveGrant, nodeVars, Posted, At
  <1>4. RefInv'
    BY NoneAssumption DEF IInv, PlaceInv, HandlerInv, OpenInv, RefInv, TypeOK, SocketState, OpenerState, Cutting, Opening, Held, MoveGrant, nodeVars, Posted, At
  <1>5. SlotInv'
    <2> DEFINE n == opener[o].node
    <2>1. opener' = [opener EXCEPT ![o] = opener'[o]] /\ opener'[o].grant = FALSE
      BY DEF IInv, PlaceInv, TypeOK, SocketState, OpenerState, MoveGrant
    <2>2. Cardinality(grant \cup {n}) = IF n \in grant THEN Cardinality(grant) ELSE Cardinality(grant) + 1
      BY Zenon, Sizes, FS_AddElement DEF IInv, PlaceInv
    <2>3. Cardinality(Connecting') = Cardinality(Connecting) - (IF opener[o].grant THEN 1 ELSE 0)
      <3>1. opener'[o].grant \in BOOLEAN /\ TypeOK
        BY Zenon, <2>1 DEF IInv, PlaceInv
      <3>2. Cardinality(Connecting') =
              Cardinality(Connecting)
                + (IF opener'[o].grant THEN 1 ELSE 0) - (IF opener[o].grant THEN 1 ELSE 0)
        BY <2>1, <3>1, OpenerSlots
      <3>3. QED  BY <2>1, <3>1, <3>2, Sizes
    <2>4. CASE opener[o].grant
      <3>1. sem' = Posted(n \in grant) /\ grant' = grant \cup {n}
        BY <2>4 DEF MoveGrant
      <3>2. Cardinality(Connecting') = Cardinality(Connecting) - 1
        BY <2>3, <2>4
      <3>3. QED  BY <2>2, <3>1, <3>2, Sizes, SlotsAssumption DEF IInv, PlaceInv, SlotInv, SlotsCounted, Posted
    <2>5. CASE ~opener[o].grant
      BY <2>3, <2>5, Sizes, SlotsAssumption DEF IInv, PlaceInv, SlotInv, SlotsCounted, MoveGrant
    <2>6. QED  BY <2>4, <2>5
  <1>6. QED  BY <1>1, <1>2, <1>3, <1>4, <1>5 DEF IInv

\* The flag is set, and the call is over.
LEMMA SetNetworkNodeInv == ASSUME NEW o \in Openers, IInv, SetNetworkNode(o) PROVE IInv'
  <1>1. PlaceInv'
    <2>1. TypeOK'
      <3>1. opener' \in [Openers -> OpenerState]
        BY NoneAssumption DEF IInv, PlaceInv, HandlerInv, OpenInv, TypeOK, SocketState, OpenerState, SetNetworkNode, nodeVars, At, NotOpening
      <3>2. network' \subseteq Nodes
        BY NoneAssumption DEF IInv, PlaceInv, HandlerInv, OpenInv, TypeOK, SocketState, OpenerState, SetNetworkNode, nodeVars, At, NotOpening
      <3>3. QED  BY <3>1, <3>2 DEF IInv, PlaceInv, TypeOK, SetNetworkNode, nodeVars
    <2>2. QED
      BY <2>1, NoneAssumption DEF IInv, PlaceInv, HandlerInv, OpenInv, TypeOK, SocketState, OpenerState, Cutting, SetNetworkNode, nodeVars, At, NotOpening
  <1>2. HandlerInv'
    BY NoneAssumption DEF IInv, PlaceInv, HandlerInv, OpenInv, RefInv, TypeOK, SocketState, OpenerState, Cutting, Held, SetNetworkNode, nodeVars, At, NotOpening
  <1>3. OpenInv'
    BY NoneAssumption DEF IInv, PlaceInv, HandlerInv, OpenInv, RefInv, TypeOK, SocketState, OpenerState, Cutting, Opening, Held, SetNetworkNode, nodeVars, At, NotOpening
  <1>4. RefInv'
    BY NoneAssumption DEF IInv, PlaceInv, HandlerInv, OpenInv, RefInv, TypeOK, SocketState, OpenerState, Cutting, Opening, Held, SetNetworkNode, nodeVars, At, NotOpening
  <1>5. SlotInv'
    <2>1. opener' = [opener EXCEPT ![o] = opener'[o]] /\ opener'[o].grant \in BOOLEAN
      BY DEF IInv, PlaceInv, TypeOK, SocketState, OpenerState, SetNetworkNode, NotOpening
    <2>2. sem' \in Nat /\ sem' = sem + (IF opener[o].grant THEN 1 ELSE 0) - (IF opener'[o].grant THEN 1 ELSE 0)
      BY DEF IInv, PlaceInv, OpenInv, TypeOK, OpenerState, SlotInv, Posted, SetNetworkNode, NotOpening, At
    <2>3. QED  BY Zenon, <2>1, <2>2, OpenerSlotInv DEF IInv, PlaceInv, SetNetworkNode
  <1>6. QED  BY <1>1, <1>2, <1>3, <1>4, <1>5 DEF IInv
--------------------------------------------------------------------------------
(* The theorems *)

\* The invariant holds at the start.
LEMMA InitInv == Init => IInv
  <1> SUFFICES ASSUME Init PROVE IInv
    OBVIOUS
  <1>1. PlaceInv
    BY SlotsAssumption DEF Init, PlaceInv, TypeOK, SocketState, OpenerState, Cutting, NotOpening
  <1>2. HandlerInv /\ OpenInv /\ RefInv
    BY DEF Init, HandlerInv, OpenInv, RefInv, Cutting, Opening, Held, NotOpening
  <1>3. SlotInv
    <2>1. Connecting = {} /\ grant = {}
      BY DEF Init, Connecting, NotOpening
    <2>2. QED  BY <2>1, FS_EmptySet, SlotsAssumption DEF Init, SlotInv, SlotsCounted
  <1>4. QED  BY <1>1, <1>2, <1>3 DEF IInv

\* Every step keeps the invariant.
LEMMA StepInv == IInv /\ [Next]_vars => IInv'
  <1> SUFFICES ASSUME IInv, [Next]_vars PROVE IInv'
    OBVIOUS
  <1>1. CASE SocketHandler
    BY <1>1, StartDisconnectInv, StartDeleteInv, StartServiceInv, ServiceInv,
       UnlinkInv, CutInv, DeleteInv DEF SocketHandler
  <1>2. CASE MessageHandler
    BY <1>2, CopyNodesInv, ReleaseNodesInv, ProcessInv DEF MessageHandler
  <1>3. ASSUME NEW n \in Nodes, Accept(n) PROVE IInv'
    BY <1>3, AcceptInv
  <1>4. ASSUME NEW o \in Openers, Opener(o) PROVE IInv'
    BY <1>4, CallInv, AbandonInv, CheckInv, LookupInv, PublishInv, MoveGrantInv,
       SetNetworkNodeInv DEF Opener
  <1>5. CASE UNCHANGED vars
    <2>1. PlaceInv'
      BY <1>5 DEF vars, IInv, PlaceInv, TypeOK, Cutting
    <2>2. HandlerInv'
      BY <1>5 DEF vars, IInv, HandlerInv
    <2>3. OpenInv'
      BY <1>5 DEF vars, IInv, OpenInv
    <2>4. RefInv'
      BY <1>5 DEF vars, IInv, RefInv, Cutting, Opening, Held
    <2>5. SlotInv'
      BY <1>5 DEF vars, IInv, SlotInv, SlotsCounted, Connecting
    <2>6. QED  BY <2>1, <2>2, <2>3, <2>4, <2>5 DEF IInv
  <1>6. QED  BY <1>1, <1>2, <1>3, <1>4, <1>5 DEF Next

(* The invariant holds in every reachable state.                                   *)
THEOREM Invariance == Spec => []IInv
  BY InitInv, StepInv, PTL DEF Spec

(* Every pointer that a thread holds, and every entry of vNodes and of the pool,   *)
(* is to a node that was not deleted, for any number of threads that connect to    *)
(* addresses of their own (ThreadSocketHandler, ThreadMessageHandler,              *)
(* OpenNetworkConnection).                                                         *)
THEOREM PointersSafe == Spec => []NoUseAfterDelete
  <1>1. IInv => NoUseAfterDelete
    <2>1. SUFFICES ASSUME IInv PROVE NoUseAfterDelete
      OBVIOUS
    <2>2. vNodes \cup pool \cup Cutting \subseteq alive
      BY <2>1 DEF IInv, PlaceInv
    <2>3. sock.copy \cup msgh.copy \subseteq alive
      BY <2>1 DEF IInv, HandlerInv
    <2>4. \A o \in Openers : opener[o].node # NoNode => opener[o].node \in alive
      BY <2>1 DEF IInv, OpenInv
    <2>5. QED  BY <2>2, <2>3, <2>4 DEF NoUseAfterDelete, InUse, Cutting
  <1>2. QED  BY <1>1, Invariance, PTL

(* The assertion of CNode::GetRefCount never fails.                                *)
THEOREM CountsSafe == Spec => []RefCountAssert
  <1>1. IInv => RefCountAssert
    BY DEF IInv, PlaceInv, TypeOK, RefInv, Held, RefCountAssert
  <1>2. QED  BY <1>1, Invariance, PTL

--------------------------------------------------------------------------------
(* Where slots are lost *)

\* A node whose reference Cut does not release is still being set up.
FlagInv == alive \ (network \cup inbound) \subseteq Opening

\* Every step keeps this.
LEMMA FlagStep == IInv /\ FlagInv /\ [Next]_vars => FlagInv'
  <1> SUFFICES ASSUME IInv, FlagInv, [Next]_vars PROVE FlagInv'
    OBVIOUS
  <1> USE DEF FlagInv, inbound, Opening
  <1>1. CASE SocketHandler
    <2>1. alive' \subseteq alive /\ UNCHANGED <<network, addr, opener>>
      <3>1. ASSUME StartDisconnect \/ StartDelete \/ StartService \/ Service
            PROVE  UNCHANGED <<alive, network, addr, opener>>
        BY Zenon, <3>1 DEF StartDisconnect, StartDelete, StartService, Service, nodeVars
      <3>2. ASSUME NEW n \in Nodes, Unlink(n) \/ Cut(n)
            PROVE  UNCHANGED <<alive, network, addr, opener>>
        BY Zenon, <3>2 DEF Unlink, Cut, nodeVars
      <3>3. ASSUME NEW n \in Nodes, Delete(n)
            PROVE  alive' \subseteq alive /\ UNCHANGED <<network, addr, opener>>
        BY <3>3 DEF Delete
      <3>4. QED  BY <1>1, <3>1, <3>2, <3>3 DEF SocketHandler
    <2>2. QED  BY <2>1
  <1>2. CASE MessageHandler
    <2>1. UNCHANGED <<alive, network, addr, opener>>
      BY <1>2 DEF MessageHandler, CopyNodes, ReleaseNodes, Process, nodeVars
    <2>2. QED  BY <2>1
  <1>3. ASSUME NEW n \in Nodes, Accept(n) PROVE FlagInv'
    BY <1>3 DEF Accept, IInv, PlaceInv, TypeOK
  <1>4. ASSUME NEW o \in Openers, Opener(o) PROVE FlagInv'
    <2>1. opener \in [Openers -> OpenerState] /\ addr \in [Nodes -> Addrs \cup {NoAddr}]
      BY DEF IInv, PlaceInv, TypeOK
    <2>2. ASSUME opener[o].node = NoNode, UNCHANGED nodeVars,
                 NEW x, opener' = [opener EXCEPT ![o] = x]
          PROVE  FlagInv'
      BY <2>1, <2>2, NoneAssumption DEF nodeVars, IInv, PlaceInv, TypeOK
    <2>3. opener[o].pc \notin {"made", "flag"} => opener[o].node = NoNode
      BY DEF IInv, OpenInv
    <2>4. CASE \E a \in Targets[o], slot \in BOOLEAN : Call(o, a, slot)
      <3>1. PICK a \in Targets[o], slot \in BOOLEAN : Call(o, a, slot)
        BY <2>4
      <3>2. opener[o].node = NoNode /\ UNCHANGED nodeVars
        BY <2>3, <3>1 DEF Call, At
      <3>3. opener' = [opener EXCEPT ![o] = [pc |-> "check", addr |-> a, node |-> NoNode, grant |-> slot]]
        BY <3>1 DEF Call
      <3>4. QED  BY Zenon, <2>2, <3>2, <3>3
    <2>5. CASE Abandon(o)
      <3>1. opener[o].node = NoNode /\ UNCHANGED nodeVars
        BY <2>3, <2>5 DEF Abandon, At
      <3>2. opener' = [opener EXCEPT ![o] = NotOpening]
        BY <2>5 DEF Abandon
      <3>3. QED  BY Zenon, <2>2, <3>1, <3>2
    <2>6. CASE Check(o) \/ Lookup(o)
      BY <2>2, <2>3, <2>6 DEF Check, Lookup, At
    <2>7. ASSUME NEW n \in Nodes, Publish(o, n) PROVE FlagInv'
      <3>1. opener[o].node = NoNode
        BY <2>3, <2>7 DEF Publish, At
      <3>2. opener'[o].node = n /\ \A p \in Openers \ {o} : opener'[p] = opener[p]
        BY <2>1, <2>7 DEF Publish, OpenerState
      <3>3. alive' = alive \cup {n} /\ network' = network
        BY <2>7 DEF Publish
      <3>4. \A m \in alive : addr'[m] = addr[m]
        BY <2>1, <2>7 DEF Publish, IInv, PlaceInv, TypeOK
      <3>5. NoNode \notin alive
        BY NoneAssumption DEF IInv, PlaceInv, TypeOK
      <3>6. QED  BY <3>1, <3>2, <3>3, <3>4, <3>5
    <2>8. CASE MoveGrant(o)
      <3>1. \A p \in Openers : opener'[p].node = opener[p].node
        BY <2>1, <2>8 DEF MoveGrant, OpenerState
      <3>2. QED  BY <2>8, <3>1 DEF MoveGrant, nodeVars
    <2>9. CASE SetNetworkNode(o)
      <3>1. \A p \in Openers \ {o} : opener'[p] = opener[p]
        BY <2>1, <2>9 DEF SetNetworkNode
      <3>2. network' = network \cup {opener[o].node} /\ UNCHANGED <<alive, addr>>
        BY <2>9 DEF SetNetworkNode
      <3>3. QED  BY <3>1, <3>2
    <2>10. QED  BY <1>4, <2>4, <2>5, <2>6, <2>7, <2>8, <2>9 DEF Opener
  <1>5. CASE UNCHANGED vars
    BY <1>5 DEF vars
  <1>6. QED  BY <1>1, <1>2, <1>3, <1>4, <1>5 DEF Next

\* A node that is made is in none of the sets that count slots.
LEMMA NewNodeNotLost ==
    ASSUME IInv, NEW n \in Nodes \ (alive \cup deleted),
           AddRefs({n}), UNCHANGED <<pool, grant, sock, msgh>>
    PROVE  LostSlots' = LostSlots
  <1>1. \A m \in pool : ref'[m] = ref[m]
    BY DEF IInv, PlaceInv, TypeOK, AddRefs
  <1>2. QED  BY <1>1 DEF LostSlots, Stranded, Held

\* A slot is lost only when MoveTo gives it to a node of the pool, or the node that has just
\* got it enters the pool without its flag.
LEMMA LostStep ==
    ASSUME IInv, FlagInv, [Next]_vars
    PROVE  \/ LostSlots' = LostSlots
           \/ ClosedTooEarly /\ \E n \in Nodes \ LostSlots : LostSlots' = LostSlots \cup {n}
  <1> DEFINE Goal == \/ LostSlots' = LostSlots
                     \/ ClosedTooEarly /\ \E n \in Nodes \ LostSlots : LostSlots' = LostSlots \cup {n}
  <1> SUFFICES Goal
    OBVIOUS
  <1>t. TypeOK /\ PlaceInv /\ HandlerInv
    BY DEF IInv, PlaceInv
  <1>f. opener \in [Openers -> OpenerState] /\ ref \in [Nodes -> Int] /\ pool \subseteq Nodes /\ vNodes \subseteq Nodes
    BY <1>t DEF TypeOK
  <1>0. ASSUME UNCHANGED <<pool, grant, ref>>, sock'.copy = sock.copy, msgh'.copy = msgh.copy
        PROVE  Goal
    BY <1>0 DEF LostSlots, Stranded, Held
  <1>a. sock \in SocketState /\ msgh \in [pc : {"idle", "process"}, copy : SUBSET Nodes]
    BY <1>t DEF TypeOK
  <1>1. CASE StartDisconnect
    BY <1>0, <1>1, <1>a DEF StartDisconnect, SocketState
  <1>2. CASE StartDelete
    BY <1>0, <1>2, <1>a DEF StartDelete, SocketState
  <1>3. CASE StartService
    <2>1. sock'.copy = vNodes /\ sock.copy = {} /\ msgh' = msgh /\ pool' = pool /\ grant' = grant
      BY <1>3, <1>a, <1>t DEF StartService, SocketState, HandlerInv
    <2>2. \A m \in pool : m \notin vNodes /\ ref'[m] = ref[m]
      BY <1>3, <1>f, <1>t DEF StartService, AddRefs, PlaceInv
    <2>3. QED  BY <2>1, <2>2 DEF LostSlots, Stranded, Held
  <1>4. CASE Service
    <2>1. sock'.copy = {} /\ msgh' = msgh /\ pool' = pool /\ grant' = grant
      BY <1>4, <1>a DEF Service, SocketState
    <2>2. \A m \in pool : ref'[m] = IF m \in sock.copy THEN ref[m] - 1 ELSE ref[m]
      BY <1>4, <1>f DEF Service, ReleaseRefs
    <2>3. \A m \in pool : ref'[m] > Held(m)' <=> ref[m] > Held(m)
      BY <2>1, <2>2, <1>f DEF Held
    <2>4. QED  BY <2>1, <2>3 DEF LostSlots, Stranded
  <1>5. CASE CopyNodes
    <2>1. msgh'.copy = vNodes /\ msgh.copy = {} /\ sock' = sock /\ pool' = pool /\ grant' = grant
      BY <1>5, <1>t DEF CopyNodes, HandlerInv
    <2>2. \A m \in pool : m \notin vNodes /\ ref'[m] = ref[m]
      BY <1>5, <1>f, <1>t DEF CopyNodes, AddRefs, PlaceInv
    <2>3. QED  BY <2>1, <2>2 DEF LostSlots, Stranded, Held
  <1>6. CASE ReleaseNodes
    <2>1. msgh'.copy = {} /\ sock' = sock /\ pool' = pool /\ grant' = grant
      BY <1>6 DEF ReleaseNodes
    <2>2. \A m \in pool : ref'[m] = IF m \in msgh.copy THEN ref[m] - 1 ELSE ref[m]
      BY <1>6, <1>f DEF ReleaseNodes, ReleaseRefs
    <2>3. \A m \in pool : ref'[m] > Held(m)' <=> ref[m] > Held(m)
      BY <2>1, <2>2, <1>f DEF Held
    <2>4. QED  BY <2>1, <2>3 DEF LostSlots, Stranded
  <1>7. ASSUME NEW n \in Nodes, Unlink(n) PROVE Goal
    <2>1. n \in vNodes /\ n \notin pool
      BY <1>7, <1>t DEF Unlink, HandlerInv, PlaceInv
    <2>2. sock'.copy = sock.copy /\ grant' = grant \ {n} /\ UNCHANGED <<pool, ref, msgh>>
      BY <1>7, <1>a DEF Unlink, SocketState
    <2>3. QED  BY <2>1, <2>2 DEF LostSlots, Stranded, Held
  <1>8. ASSUME NEW n \in Nodes, Cut(n) PROVE Goal
    <2>1. n = sock.node /\ n \in alive /\ n \notin pool \cup vNodes /\ ref[n] = Held(n) + 1
      BY <1>8, <1>t, NoneAssumption DEF Cut, PlaceInv, Cutting, IInv, RefInv
    <2>2. sock'.copy = sock.copy /\ pool' = pool \cup {n} /\ UNCHANGED <<grant, msgh>>
      BY <1>8, <1>a DEF Cut, SocketState
    <2>3. \A m \in pool : ref'[m] = ref[m]
      BY <1>8, <1>f, <2>1 DEF Cut, ReleaseRefs
    <2>4. CASE n \in network \cup inbound
      <3>1. ref'[n] = Held(n)
        BY <1>8, <1>f, <2>1, <2>4 DEF Cut, ReleaseRefs, Held
      <3>2. Stranded' = Stranded
        BY <2>1, <2>2, <2>3, <3>1 DEF Stranded, Held
      <3>3. QED  BY <2>2, <3>2 DEF LostSlots
    <2>5. CASE n \notin network \cup inbound
      <3>1. ref'[n] = Held(n) + 1
        BY <1>8, <1>f, <2>1, <2>5 DEF Cut, ReleaseRefs, Held
      <3>2. Stranded' = Stranded \cup {n}
        BY <2>1, <2>2, <2>3, <3>1 DEF Stranded, Held
      <3>3. ClosedTooEarly
        BY <2>1, <2>5, NoneAssumption DEF FlagInv, Opening, ClosedTooEarly
      <3>4. n \notin LostSlots
        BY <2>1 DEF LostSlots, Stranded
      <3>5. CASE n \in grant
        BY <2>2, <3>2, <3>3, <3>4, <3>5 DEF LostSlots
      <3>6. CASE n \notin grant
        BY <2>2, <3>2, <3>6 DEF LostSlots
      <3>7. QED  BY <3>5, <3>6
    <2>6. QED  BY <2>4, <2>5
  <1>9. ASSUME NEW n \in Nodes, Delete(n) PROVE Goal
    <2>1. sock'.copy = sock.copy /\ UNCHANGED <<ref, msgh>>
      BY <1>9, <1>a DEF Delete, SocketState
    <2>2. CASE ref[n] <= 0
      <3>1. n \notin Stranded
        BY <2>2, <1>f DEF Stranded, Held
      <3>2. pool' = pool \ {n} /\ grant' = grant \ {n}
        BY <1>9, <2>2 DEF Delete
      <3>3. QED  BY <2>1, <3>1, <3>2 DEF LostSlots, Stranded, Held
    <2>3. CASE ~(ref[n] <= 0)
      BY <1>0, <1>9, <2>1, <2>3 DEF Delete
    <2>4. QED  BY <2>2, <2>3
  <1>10. ASSUME NEW n \in Nodes, Process(n) PROVE Goal
    BY <1>0, <1>10 DEF Process
  <1>11. ASSUME NEW n \in Nodes, Accept(n) PROVE Goal
    BY <1>11, NewNodeNotLost DEF Accept
  <1>12. ASSUME NEW o \in Openers, Opener(o) PROVE Goal
    <2>1. CASE \E a \in Targets[o], slot \in BOOLEAN : Call(o, a, slot)
      BY <1>0, <2>1 DEF Call
    <2>2. CASE Abandon(o) \/ Check(o) \/ Lookup(o) \/ SetNetworkNode(o)
      BY <1>0, <2>2 DEF Abandon, Check, Lookup, SetNetworkNode
    <2>3. ASSUME NEW n \in Nodes, Publish(o, n) PROVE Goal
      BY <2>3, NewNodeNotLost DEF Publish
    <2>4. CASE MoveGrant(o)
      <3> DEFINE n == opener[o].node
      <3>1. n \in Nodes /\ n # NoNode
        BY <2>4, <1>t, NoneAssumption DEF MoveGrant, At, IInv, OpenInv, PlaceInv, TypeOK
      <3>2. UNCHANGED <<pool, ref, sock, msgh>> /\ (grant' = grant \/ grant' = grant \cup {n})
        BY <2>4 DEF MoveGrant
      <3>3. Stranded' = Stranded
        BY <3>2 DEF Stranded, Held
      <3>4. CASE grant' = grant \/ n \notin Stranded \/ n \in grant
        BY <3>2, <3>3, <3>4 DEF LostSlots
      <3>5. CASE grant' = grant \cup {n} /\ n \in Stranded /\ n \notin grant
        <4>1. n \notin vNodes
          BY <3>5, <1>t DEF Stranded, PlaceInv
        <4>2. ClosedTooEarly
          BY <3>1, <4>1 DEF ClosedTooEarly
        <4>3. LostSlots' = LostSlots \cup {n} /\ n \notin LostSlots
          BY <3>3, <3>5 DEF LostSlots
        <4>4. QED  BY <3>1, <4>2, <4>3
      <3>6. QED  BY <3>2, <3>4, <3>5
    <2>5. QED  BY <1>12, <2>1, <2>2, <2>3, <2>4 DEF Opener
  <1>13. CASE UNCHANGED vars
    BY <1>0, <1>13 DEF vars
  <1>14. QED
    BY <1>1, <1>2, <1>3, <1>4, <1>5, <1>6, <1>7, <1>8, <1>9, <1>10, <1>11, <1>12, <1>13
       DEF Next, SocketHandler, MessageHandler

\* The slots that are left are those that are not lost.
SlotsLeft ==
    /\ IsFiniteSet(LostSlots) /\ Cardinality(LostSlots) \in Nat
    /\ Slots = MaxOutbound - Cardinality(LostSlots)

\* This follows from the invariant.
LEMMA SlotsAreLeft == IInv => SlotsLeft
  <1> SUFFICES ASSUME IInv PROVE SlotsLeft
    OBVIOUS
  <1>1. TypeOK
    BY DEF IInv, PlaceInv
  <1>2. IsFiniteSet(LostSlots) /\ IsFiniteSet(grant \ Stranded)
    BY <1>1, Sizes, FS_Subset DEF LostSlots
  <1>3. Cardinality(LostSlots) \in Nat /\ Cardinality(grant \ Stranded) \in Nat
    BY <1>2, FS_CardinalityType
  <1>4. Cardinality(grant \ Stranded) = Cardinality(grant) - Cardinality(grant \cap Stranded)
    BY Zenon, <1>1, Sizes, FS_Difference
  <1>5. QED
    BY <1>1, <1>2, <1>3, <1>4, Sizes, SlotsAssumption DEF LostSlots, SlotsLeft, Slots, IInv, SlotInv, SlotsCounted

\* At the start nothing is lost and no node is being set up.
LEMMA SlotsInit == Init => FlagInv /\ Slots = MaxOutbound
  <1> SUFFICES ASSUME Init PROVE FlagInv /\ Slots = MaxOutbound
    OBVIOUS
  <1>1. FlagInv
    BY DEF Init, FlagInv
  <1>2. LostSlots = {}
    BY DEF Init, LostSlots
  <1>3. SlotsLeft
    BY InitInv, SlotsAreLeft
  <1>4. QED  BY <1>1, <1>2, <1>3, FS_EmptySet, SlotsAssumption DEF SlotsLeft

(* For any number of nodes, threads and slots: outbound slots are neither made nor   *)
(* lost, but for one each time that the socket handler takes a node out of vNodes     *)
(* while OpenNetworkConnection has not yet set its grant and its flag.               *)
THEOREM SlotsSafe == Spec => SlotsConserved
  <1>1. IInv' => SlotsLeft'
    BY SlotsAreLeft, PTL
  <1>2. IInv /\ IInv' /\ FlagInv /\ [Next]_vars
          => [Slots' = Slots \/ (ClosedTooEarly /\ Slots' = Slots - 1)]_vars
    <2> SUFFICES ASSUME IInv, IInv', FlagInv, [Next]_vars
                 PROVE  Slots' = Slots \/ (ClosedTooEarly /\ Slots' = Slots - 1)
      OBVIOUS
    <2>1. SlotsLeft /\ SlotsLeft'
      BY <1>1, SlotsAreLeft
    <2>2. CASE LostSlots' = LostSlots
      BY <2>1, <2>2 DEF SlotsLeft
    <2>3. ASSUME ClosedTooEarly, NEW n \in Nodes \ LostSlots, LostSlots' = LostSlots \cup {n}
          PROVE  ClosedTooEarly /\ Slots' = Slots - 1
      <3>1. Cardinality(LostSlots') = Cardinality(LostSlots) + 1
        BY <2>1, <2>3, FS_AddElement DEF SlotsLeft
      <3>2. QED  BY <2>1, <2>3, <3>1, SlotsAssumption DEF SlotsLeft
    <2>4. QED  BY <2>2, <2>3, LostStep
  <1>3. Spec => []FlagInv
    BY SlotsInit, FlagStep, Invariance, PTL DEF Spec
  <1>4. QED  BY <1>2, <1>3, SlotsInit, Invariance, PTL DEF Spec, SlotsConserved
================================================================================
