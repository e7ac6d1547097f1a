------------------------------ MODULE Connections ------------------------------
(***************************************************************************)
(* The life of a CNode (net.cpp).  Threads that open connections construct     *)
(* nodes and publish them in vNodes; the socket handler and the message        *)
(* handler work on copies of vNodes and count a reference for each node in     *)
(* their copy; the socket handler alone takes nodes out of vNodes, keeps them  *)
(* in vNodesDisconnected and deletes them when the count is zero.              *)
(*                                                                             *)
(* cs_vNodes protects vNodes and, except where a thread is the only one to     *)
(* know a node, nRefCount.  Nothing protects fNetworkNode and grantOutbound,   *)
(* which OpenNetworkConnection sets after the node was published.  The three   *)
(* locks of a node that the socket handler tries before it deletes it are      *)
(* only ever taken by a thread that has a reference or cs_vNodes, so that they *)
(* are free when the count is zero.  Shutdown is left out.                     *)
(***************************************************************************)
EXTENDS Integers, FiniteSets

CONSTANTS Nodes,        \* the CNode objects that can be constructed
          Openers,      \* threads that call OpenNetworkConnection
          Targets,      \* Targets[o]: the addresses that o connects to
          NoAddr, NoNode,
          MaxOutbound,  \* MAX_OUTBOUND_CONNECTIONS
          MaxInbound    \* nMaxConnections - MAX_OUTBOUND_CONNECTIONS

Addrs == UNION {Targets[o] : o \in Openers}

ASSUME SlotsAssumption == MaxOutbound \in Nat /\ MaxInbound \in Nat /\ IsFiniteSet(Nodes)
ASSUME OpenersAssumption == IsFiniteSet(Openers)
ASSUME NoneAssumption == NoAddr \notin Addrs /\ NoNode \notin Nodes

VARIABLES alive,       \* constructed and not deleted
          deleted,
          vNodes,
          pool,        \* vNodesDisconnected
          addr,        \* addr of each node; NoAddr for a peer that connected to us
          network,     \* nodes with fNetworkNode
          disconnect,  \* nodes with fDisconnect
          grant,       \* nodes whose grantOutbound has a grant
          ref,         \* nRefCount
          sem,         \* the value of semOutbound
          sock,        \* the socket handler: where it is, nodes left in its loop, its copy
          msgh,        \* the message handler
          opener       \* each thread that opens connections

nodeVars == <<alive, deleted, addr, network>>
vars == <<alive, deleted, vNodes, pool, addr, network, disconnect, grant, ref, sem,
          sock, msgh, opener>>

NotOpening == [pc |-> "idle", addr |-> NoAddr, node |-> NoNode, grant |-> FALSE]

Init ==
    /\ alive = {} /\ deleted = {} /\ vNodes = {} /\ pool = {}
    /\ addr = [n \in Nodes |-> NoAddr]
    /\ network = {} /\ disconnect = {} /\ grant = {}
    /\ ref = [n \in Nodes |-> 0]
    /\ sem = MaxOutbound
    /\ sock = [pc |-> "disconnect", todo |-> {}, copy |-> {}, node |-> NoNode]
    /\ msgh = [pc |-> "idle", copy |-> {}]
    /\ opener = [o \in Openers |-> NotOpening]

\* Nobody is in a section under cs_vNodes that takes several steps.
NodesUnlocked == sock.pc \notin {"disconnect", "cut"}

inbound == {n \in alive : addr[n] = NoAddr}

AddRefs(S) == ref' = [n \in Nodes |-> IF n \in S THEN ref[n] + 1 ELSE ref[n]]
ReleaseRefs(S) == ref' = [n \in Nodes |-> IF n \in S THEN ref[n] - 1 ELSE ref[n]]

\* CSemaphoreGrant::Release
Posted(had) == IF had THEN sem + 1 ELSE sem

--------------------------------------------------------------------------------
(* ThreadSocketHandler *)

\* LOCK(cs_vNodes) and the test of the loop.  A flag that is set during the loop could
\* as well have been set before it: whoever sets it already has the node in its copy.
StartDisconnect ==
    /\ sock.pc = "idle"
    /\ sock' = [sock EXCEPT !.pc = "disconnect", !.todo = {n \in vNodes : n \in disconnect \/ ref[n] <= 0}]
    /\ UNCHANGED <<nodeVars, vNodes, pool, disconnect, grant, ref, sem, msgh, opener>>

\* A node to disconnect leaves vNodes and gives back its slot.
Unlink(n) ==
    /\ sock.pc = "disconnect" /\ n \in sock.todo
    /\ vNodes' = vNodes \ {n}
    /\ sem' = Posted(n \in grant)
    /\ grant' = grant \ {n}
    /\ sock' = [sock EXCEPT !.pc = "cut", !.todo = @ \ {n}, !.node = n]
    /\ UNCHANGED <<nodeVars, pool, disconnect, ref, msgh, opener>>

\* fault: the reference of the connection is released whether or not the flags are set
CutAlways(n) ==
    /\ sock.pc = "cut" /\ n = sock.node
    /\ disconnect' = disconnect \cup {n}
    /\ ReleaseRefs({n})
    /\ pool' = pool \cup {n}
    /\ sock' = [sock EXCEPT !.pc = "disconnect", !.node = NoNode]
    /\ UNCHANGED <<nodeVars, vNodes, grant, sem, msgh, opener>>

\* CloseSocketDisconnect, the release of the connection's reference, the pool.
Cut(n) ==
    /\ sock.pc = "cut" /\ n = sock.node
    /\ disconnect' = disconnect \cup {n}
    /\ ReleaseRefs({n} \cap (network \cup inbound))
    /\ pool' = pool \cup {n}
    /\ sock' = [sock EXCEPT !.pc = "disconnect", !.node = NoNode]
    /\ UNCHANGED <<nodeVars, vNodes, grant, sem, msgh, opener>>

\* cs_vNodes is released; vNodesDisconnectedCopy = vNodesDisconnected
StartDelete ==
    /\ sock.pc = "disconnect" /\ sock.todo = {}
    /\ sock' = [sock EXCEPT !.pc = "delete", !.todo = pool]
    /\ UNCHANGED <<nodeVars, vNodes, pool, disconnect, grant, ref, sem, msgh, opener>>

\* fault: ~CSemaphoreGrant does not release, as if Unlink had always done it
DeleteKeepsSlot(n) ==
    /\ sock.pc = "delete" /\ n \in sock.todo
    /\ sock' = [sock EXCEPT !.todo = @ \ {n}]
    /\ IF ref[n] <= 0
         THEN /\ pool' = pool \ {n}
              /\ alive' = alive \ {n}
              /\ deleted' = deleted \cup {n}
              /\ grant' = grant \ {n}
         ELSE UNCHANGED <<pool, alive, deleted, grant>>
    /\ UNCHANGED <<vNodes, addr, network, disconnect, ref, sem, msgh, opener>>

\* A node that nobody refers to is deleted, with its grant.
Delete(n) ==
    /\ sock.pc = "delete" /\ n \in sock.todo
    /\ sock' = [sock EXCEPT !.todo = @ \ {n}]
    /\ IF ref[n] <= 0
         THEN /\ pool' = pool \ {n}
              /\ alive' = alive \ {n}
              /\ deleted' = deleted \cup {n}
              /\ sem' = Posted(n \in grant)
              /\ grant' = grant \ {n}
         ELSE UNCHANGED <<pool, alive, deleted, sem, grant>>
    /\ UNCHANGED <<vNodes, addr, network, disconnect, ref, msgh, opener>>

\* A peer connected to us; only this thread adds such nodes.
Accept(n) ==
    /\ sock.pc = "delete" /\ sock.todo = {}
    /\ n \in Nodes \ (alive \cup deleted)
    /\ Cardinality(vNodes \cap inbound) < MaxInbound
    /\ alive' = alive \cup {n}
    /\ addr' = [addr EXCEPT ![n] = NoAddr]
    /\ AddRefs({n})
    /\ vNodes' = vNodes \cup {n}
    /\ UNCHANGED <<deleted, network, pool, disconnect, grant, sem, sock, msgh, opener>>

\* The copy on which the sockets are served.
StartService ==
    /\ sock.pc = "delete" /\ sock.todo = {}
    /\ AddRefs(vNodes)
    /\ sock' = [sock EXCEPT !.pc = "service", !.copy = vNodes]
    /\ UNCHANGED <<nodeVars, vNodes, pool, disconnect, grant, sem, msgh, opener>>

\* Receive, send and inactivity checks end the connections whose sockets are closed,
\* fail or are silent; then the references of the copy are released.
Service ==
    /\ sock.pc = "service"
    /\ \E closed \in SUBSET sock.copy : disconnect' = disconnect \cup closed
    /\ ReleaseRefs(sock.copy)
    /\ sock' = [sock EXCEPT !.pc = "idle", !.copy = {}]
    /\ UNCHANGED <<nodeVars, vNodes, pool, grant, sem, msgh, opener>>
--------------------------------------------------------------------------------
(* ThreadMessageHandler *)

CopyNodes ==
    /\ msgh.pc = "idle" /\ NodesUnlocked
    /\ AddRefs(vNodes)
    /\ msgh' = [pc |-> "process", copy |-> vNodes]
    /\ UNCHANGED <<nodeVars, vNodes, pool, disconnect, grant, sem, sock, opener>>

\* ProcessMessages and SendMessages may disconnect the peer.
Process(n) ==
    /\ msgh.pc = "process" /\ n \in msgh.copy \ disconnect
    /\ disconnect' = disconnect \cup {n}
    /\ UNCHANGED <<nodeVars, vNodes, pool, grant, ref, sem, sock, msgh, opener>>

\* fault: a node that was disconnected meanwhile is skipped
ReleaseNodesSkipping ==
    /\ msgh.pc = "process" /\ NodesUnlocked
    /\ ReleaseRefs(msgh.copy \ disconnect)
    /\ msgh' = [pc |-> "idle", copy |-> {}]
    /\ UNCHANGED <<nodeVars, vNodes, pool, disconnect, grant, sem, sock, opener>>

ReleaseNodes ==
    /\ msgh.pc = "process" /\ NodesUnlocked
    /\ ReleaseRefs(msgh.copy)
    /\ msgh' = [pc |-> "idle", copy |-> {}]
    /\ UNCHANGED <<nodeVars, vNodes, pool, disconnect, grant, sem, sock, opener>>
--------------------------------------------------------------------------------
(* OpenNetworkConnection and ConnectNode *)

At(o, pc) == opener[o].pc = pc

\* The calls: with a slot waited for, or without (RPC addnode onetry, -connect).
Call(o, a, slot) ==
    /\ At(o, "idle") /\ a \in Targets[o]
    /\ slot => sem >= 1
    /\ sem' = IF slot THEN sem - 1 ELSE sem
    /\ opener' = [opener EXCEPT ![o] = [pc |-> "check", addr |-> a, node |-> NoNode, grant |-> slot]]
    /\ UNCHANGED <<nodeVars, vNodes, pool, disconnect, grant, ref, sock, msgh>>

ConnectedTo(a) == {n \in vNodes : addr[n] = a}

\* OpenNetworkConnection or ConnectNode gives up; ~CSemaphoreGrant returns the slot.
Abandon(o) ==
    /\ \/ At(o, "check") /\ NodesUnlocked /\ ConnectedTo(opener[o].addr) # {}
       \/ At(o, "dial")
    /\ sem' = Posted(opener[o].grant)
    /\ opener' = [opener EXCEPT ![o] = NotOpening]
    /\ UNCHANGED <<nodeVars, vNodes, pool, disconnect, grant, ref, sock, msgh>>

\* FindNode in OpenNetworkConnection finds nothing.
Check(o) ==
    /\ At(o, "check") /\ NodesUnlocked /\ ConnectedTo(opener[o].addr) = {}
    /\ opener' = [opener EXCEPT ![o].pc = "lookup"]
    /\ UNCHANGED <<nodeVars, vNodes, pool, disconnect, grant, ref, sem, sock, msgh>>

\* FindNode in ConnectNode finds nothing.
Lookup(o) ==
    /\ At(o, "lookup") /\ NodesUnlocked /\ ConnectedTo(opener[o].addr) = {}
    /\ opener' = [opener EXCEPT ![o].pc = "dial"]
    /\ UNCHANGED <<nodeVars, vNodes, pool, disconnect, grant, ref, sem, sock, msgh>>

\* ConnectSocket succeeded: the new node is published.
Publish(o, n) ==
    /\ At(o, "dial") /\ NodesUnlocked
    /\ n \in Nodes \ (alive \cup deleted)
    /\ alive' = alive \cup {n}
    /\ addr' = [addr EXCEPT ![n] = opener[o].addr]
    /\ AddRefs({n})
    /\ vNodes' = vNodes \cup {n}
    /\ opener' = [opener EXCEPT ![o] = [@ EXCEPT !.pc = "made", !.node = n]]
    /\ UNCHANGED <<deleted, network, pool, disconnect, grant, sem, sock, msgh>>

\* grantOutbound->MoveTo(pnode->grantOutbound)
MoveGrant(o) ==
    LET n == opener[o].node
    IN /\ At(o, "made")
       /\ IF opener[o].grant
            THEN /\ sem' = Posted(n \in grant)
                 /\ grant' = grant \cup {n}
            ELSE UNCHANGED <<sem, grant>>
       /\ opener' = [opener EXCEPT ![o] = [@ EXCEPT !.pc = "flag", !.grant = FALSE]]
       /\ UNCHANGED <<nodeVars, vNodes, pool, disconnect, ref, sock, msgh>>

\* pnode->fNetworkNode = true
SetNetworkNode(o) ==
    /\ At(o, "flag")
    /\ network' = network \cup {opener[o].node}
    /\ opener' = [opener EXCEPT ![o] = NotOpening]
    /\ UNCHANGED <<alive, deleted, addr, vNodes, pool, disconnect, grant, ref, sem, sock, msgh>>
--------------------------------------------------------------------------------
SocketHandler ==
    \/ StartDisconnect \/ StartDelete \/ StartService \/ Service
    \/ \E n \in Nodes : Unlink(n) \/ Cut(n) \/ Delete(n)

MessageHandler ==
    \/ CopyNodes \/ ReleaseNodes
    \/ \E n \in Nodes : Process(n)

Opener(o) ==
    \/ \E a \in Targets[o], slot \in BOOLEAN : Call(o, a, slot)
    \/ Abandon(o) \/ Check(o) \/ Lookup(o) \/ MoveGrant(o) \/ SetNetworkNode(o)
    \/ \E n \in Nodes : Publish(o, n)

Next ==
    \/ SocketHandler \/ MessageHandler
    \/ \E n \in Nodes : Accept(n)
    \/ \E o \in Openers : Opener(o)

\* The two handlers never stop, and the message handler gets cs_vNodes if it waits
\* for it again and again; an address need not answer and a peer need not come.
Fairness == WF_vars(SocketHandler) /\ SF_vars(CopyNodes \/ ReleaseNodes)

Spec == Init /\ [][Next]_vars /\ Fairness
--------------------------------------------------------------------------------
(* Spec is about threads that connect to addresses of their own (Targets disjoint), *)
(* as ConnectNode never finds a node then, and about calls without fOneShot.       *)
(* FullSpec adds the call for which a connection to the same address appears       *)
(* between the two calls of FindNode, and one-shot calls.                          *)

\* ConnectNode finds a node that was not there in OpenNetworkConnection.
Found(o, n) ==
    /\ At(o, "lookup") /\ NodesUnlocked /\ n \in ConnectedTo(opener[o].addr)
    /\ opener' = [opener EXCEPT ![o] = [@ EXCEPT !.pc = "found", !.node = n]]
    /\ UNCHANGED <<nodeVars, vNodes, pool, disconnect, grant, ref, sem, sock, msgh>>

\* pnode->AddRef(), after cs_vNodes was released.
AddRefFound(o) ==
    /\ At(o, "found")
    /\ AddRefs({opener[o].node})
    /\ opener' = [opener EXCEPT ![o].pc = "made"]
    /\ UNCHANGED <<nodeVars, vNodes, pool, disconnect, grant, sem, sock, msgh>>

\* The second assignment of a one-shot call follows that of fNetworkNode.
SetNetworkNodeOneShot(o) ==
    /\ At(o, "flag")
    /\ network' = network \cup {opener[o].node}
    /\ opener' = [opener EXCEPT ![o].pc = "oneshot"]
    /\ UNCHANGED <<alive, deleted, addr, vNodes, pool, disconnect, grant, ref, sem, sock, msgh>>

SetOneShot(o) ==
    /\ At(o, "oneshot")
    /\ opener' = [opener EXCEPT ![o] = NotOpening]
    /\ UNCHANGED <<nodeVars, vNodes, pool, disconnect, grant, ref, sem, sock, msgh>>

FullNext ==
    \/ Next
    \/ \E o \in Openers :
          \/ AddRefFound(o) \/ SetNetworkNodeOneShot(o) \/ SetOneShot(o)
          \/ \E n \in Nodes : Found(o, n)

FullSpec == Init /\ [][FullNext]_vars
--------------------------------------------------------------------------------
(* Properties *)

SocketState ==
    [pc : {"idle", "disconnect", "cut", "delete", "service"},
     todo : SUBSET Nodes, copy : SUBSET Nodes, node : Nodes \cup {NoNode}]

OpenerState ==
    [pc : {"idle", "check", "lookup", "dial", "found", "made", "flag", "oneshot"},
     addr : Addrs \cup {NoAddr}, node : Nodes \cup {NoNode}, grant : BOOLEAN]

TypeOK ==
    /\ alive \subseteq Nodes /\ deleted \subseteq Nodes
    /\ vNodes \subseteq Nodes /\ pool \subseteq Nodes
    /\ addr \in [Nodes -> Addrs \cup {NoAddr}]
    /\ network \subseteq Nodes /\ disconnect \subseteq Nodes /\ grant \subseteq Nodes
    /\ ref \in [Nodes -> Int]
    /\ sem \in Int
    /\ sock \in SocketState
    /\ msgh \in [pc : {"idle", "process"}, copy : SUBSET Nodes]
    /\ opener \in [Openers -> OpenerState]

\* The nodes that some thread has a pointer to and will dereference.
InUse ==
    vNodes \cup pool \cup sock.copy \cup msgh.copy \cup ({sock.node} \ {NoNode})
      \cup ({opener[o].node : o \in Openers} \ {NoNode})

(* No thread ever holds a pointer to a deleted node: neither the handlers, with    *)
(* their counted copies of vNodes, nor OpenNetworkConnection, which sets the       *)
(* grant and fNetworkNode of a node it has already published and counts no         *)
(* reference of its own.                                                           *)
NoUseAfterDelete == InUse \subseteq alive

(* The assertion of GetRefCount: no reference is released twice.                   *)
RefCountAssert == \A n \in Nodes : ref[n] >= 0

\* The threads that have a slot for the node they are about to make.
Connecting == {o \in Openers : opener[o].grant}

\* The references of a node that the copies of the two handlers account for.
Held(n) == (IF n \in sock.copy THEN 1 ELSE 0) + (IF n \in msgh.copy THEN 1 ELSE 0)

\* Disconnected nodes that keep the reference of their connection.  Nobody releases it
\* any more, so that they stay in the pool for ever, with a slot if they have one.
Stranded == {n \in pool : ref[n] > Held(n)}
LostSlots == grant \cap Stranded

\* The outbound slots that are free or will be: of threads that are connecting, and of
\* nodes that give theirs back when they are disconnected or deleted.
Slots == sem + Cardinality(Connecting) + Cardinality(grant \ Stranded)

\* OpenNetworkConnection still sets up a node that the socket handler has already taken
\* out of vNodes.
ClosedTooEarly == \E o \in Openers : opener[o].node \notin vNodes \cup {NoNode}

(* The outbound slots are MAX_OUTBOUND_CONNECTIONS at the start; none is ever made,  *)
(* and one is lost, one at a time, only when a connection is closed before           *)
(* OpenNetworkConnection has set the grant and fNetworkNode of the node it published. *)
SlotsConserved ==
    /\ Slots = MaxOutbound
    /\ [][Slots' = Slots \/ (ClosedTooEarly /\ Slots' = Slots - 1)]_vars

(* "release outbound grant (if any)" (net.cpp): a node that is disconnected for good  *)
(* has no slot.  It does not hold: Release finds no grant yet, MoveTo brings it      *)
(* later, and the reference that is never released keeps the node and the slot.      *)
NoSlotLost == LostSlots = {}

(* A connection to be closed, of a node whose flags are set, ends with the         *)
(* deletion of the node: its reference is released once, and each thread lets go   *)
(* of it.                                                                          *)
Reclaimed ==
    \A n \in Nodes :
        n \in vNodes \cap disconnect \cap (network \cup inbound) ~> n \in deleted

(* "hold in disconnected pool until all refs are released" (net.cpp): a node in    *)
(* the pool that no thread works on is not referred to any more, so that it will   *)
(* be deleted.  A connection closed between push_back in ConnectNode and           *)
(* fNetworkNode = true keeps its reference for ever.                               *)
PoolDrains ==
    \A n \in pool :
        n \notin sock.copy \cup msgh.copy \cup {opener[o].node : o \in Openers} => ref[n] = 0
================================================================================
