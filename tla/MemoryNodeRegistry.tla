------------------------- MODULE MemoryNodeRegistry -------------------------
(***************************************************************************)
(* Node snapshots (orbitrelay-node, node.rs) and the in-memory registry of *)
(* them (memory.rs): one map behind one lock, so that each operation is    *)
(* one step.  Identifiers are numbers, for list answers in their order.    *)
(***************************************************************************)
EXTENDS Selection, Functions

CONSTANTS None,
          NodeIds,
          Metadata,
          Capabilities,
          Unusable   \* the capabilities that are blank or have blank ends

ASSUME RegistryAssumption ==
    /\ NodeIds \subseteq Nat
    /\ Unusable \subseteq Capabilities

VARIABLE nodes    \* node id -> snapshot

NodeStates == {"Starting", "Ready", "Draining", "Offline"}

Nodes == [id : NodeIds, metadata : Metadata, state : NodeStates,
          capabilities : SUBSET Capabilities]

NewNode(id, metadata, state, capabilities) ==
    [id |-> id, metadata |-> metadata, state |-> state,
     capabilities |-> capabilities]

IsValidNode(node) == node.capabilities \cap Unusable = {}

RegistryTypeOK ==
    /\ DOMAIN nodes \subseteq NodeIds
    /\ \A id \in DOMAIN nodes : nodes[id] \in Nodes /\ nodes[id].id = id

RegistryInit == nodes = <<>>

\* Creates or replaces; an invalid snapshot is refused and changes nothing.
Register(node) ==
    nodes' = IF IsValidNode(node)
             THEN [id \in DOMAIN nodes \cup {node.id} |->
                      IF id = node.id THEN node ELSE nodes[id]]
             ELSE nodes

\* Mutant: everything is forgotten.
Clear(id) == <<>>

\* Mutant: nothing is.
Keep(id) == nodes

Without(id) == Restrict(nodes, DOMAIN nodes \ {id})

\* The absence of the node is no error.
Unregister(id) == nodes' = Without(id)

Get(id) == IF id \in DOMAIN nodes THEN nodes[id] ELSE None

List == LET ids == InOrder(DOMAIN nodes)
        IN  [i \in DOMAIN ids |-> nodes[ids[i]]]

=============================================================================
