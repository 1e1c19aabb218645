------------------------------- MODULE Cluster -------------------------------
(***************************************************************************)
(* Server contexts that share one node registry and somebody who lists it. *)
(* A context comes from Bootstrap::build_with, which registers its node    *)
(* with what the configuration advertises, or is composed of existing      *)
(* parts by ServerContext::new, which is ready from the start, registers   *)
(* nothing and knows of nothing to advertise; the node is its owner's to   *)
(* register, and to withdraw, until the owner shuts the context down.      *)
(* Either way shutdown registers the node as draining and offline and      *)
(* removes it.                                                             *)
(*                                                                         *)
(* Identifiers are distinct, as NodeId::new makes them; ids that are       *)
(* configured have to be.  ServerProcess has the racing shutdowns and the  *)
(* failures of one context; here each is told to shut down once.           *)
(***************************************************************************)
EXTENDS MemoryNodeRegistry

CONSTANTS Bootstrapped,   \* the nodes of contexts built by Bootstrap
          Advertises,     \* what a node's configuration advertises
          Announced       \* what the owners of composed contexts register

Composed == NodeIds \ Bootstrapped

ASSUME ClusterAssumption ==
    /\ Bootstrapped \subseteq NodeIds
    /\ Advertises \in [NodeIds -> [metadata : Metadata,
                                   capabilities : SUBSET (Capabilities \ Unusable)]]
    /\ Announced \subseteq Nodes
    /\ "" \in Metadata
    /\ None \notin Nodes \cup NodeStates \cup
                  {"Starting", "Ready", "Draining", "Stopped"}

VARIABLES
    lifecycle, health, setting,   \* of each context, as in ServerLifecycle
    pc,       \* the step each is at
    view      \* what the last list has answered

contextVars == <<lifecycle, health, setting, pc>>
vars == <<nodes, contextVars, view>>

Boot == "boot"
Caller == "caller"

\* A context as ServerProcess sees it: a thread that boots and one that calls
\* shutdown share the steps of the context.
StateOf(id) == IF Get(id) = None THEN None ELSE Get(id).state
BootSteps == {"start", "register_starting", "register_ready", "ready"}
IsBooting(id) == pc[id] \in BootSteps
ThreadOf(id) == IF IsBooting(id) THEN Boot ELSE Caller

\* Before its shutdown writes it, a composed context's node is its owner's.
NotYetWritten == {"built", "begin_shutdown", "register_draining"}
OwnNode(id) ==
    IF id \in Composed /\ pc[id] \in NotYetWritten THEN "Ready" ELSE StateOf(id)

Process(id) == INSTANCE ServerProcess WITH
    Threads <- {Boot, Caller}, Workers <- {}, RegistryFails <- FALSE,
    lifecycle <- lifecycle[id],
    health <- health[id],
    setting <- [t \in {Boot, Caller} |->
                   IF t = ThreadOf(id) THEN setting[id] ELSE None],
    pc <- [t \in {Boot, Caller} |->
              IF t = ThreadOf(id) THEN IF pc[id] = "built" THEN "idle" ELSE pc[id]
              ELSE IF t = Boot THEN "built" ELSE "idle"],
    node <- OwnNode(id),
    working <- {}

TypeOK ==
    /\ RegistryTypeOK
    /\ view \in Seq(Nodes)
    /\ \A id \in NodeIds : Process(id)!TypeOK

Init ==
    /\ RegistryInit
    /\ lifecycle = [id \in NodeIds |->
                       IF id \in Bootstrapped THEN "Stopped" ELSE "Ready"]
    /\ health = lifecycle
    /\ setting = [id \in NodeIds |-> None]
    /\ pc = [id \in NodeIds |-> IF id \in Bootstrapped THEN "start" ELSE "built"]
    /\ view = <<>>

\* Mutant: a context forgets what its configuration advertises.
Unconfigured(id) == NewNode(id, "", "Ready", {})

\* The node a context was built with: ready_node, or the one of new.
LocalNode(id) ==
    IF id \in Bootstrapped
    THEN NewNode(id, Advertises[id].metadata, "Ready", Advertises[id].capabilities)
    ELSE NewNode(id, "", "Ready", {})

Configured(id, state) ==
    NewNode(id, Advertises[id].metadata, state, Advertises[id].capabilities)

\* register_state_with while booting, register_node_state of the context then.
Snapshot(id, state) ==
    IF IsBooting(id) THEN Configured(id, state)
    ELSE NewNode(id, LocalNode(id).metadata, state, LocalNode(id).capabilities)

ChangeLifecycle(id) ==
    /\ pc[id] \in Process(id)!Operations
    /\ setting[id] = None
    /\ lifecycle[id] \in Process(id)!AllowedFrom(pc[id])
    /\ lifecycle' = [lifecycle EXCEPT ![id] = Process(id)!Target(pc[id])]
    /\ setting' = [setting EXCEPT ![id] = Process(id)!Target(pc[id])]
    /\ UNCHANGED <<nodes, health, pc, view>>

\* The end of bootstrap is the beginning of the context's use.
Following(id) == Process(id)!After(pc[id])

ChangeHealth(id) ==
    /\ setting[id] # None
    /\ health' = [health EXCEPT ![id] = Process(id)!HealthFor(setting[id])]
    /\ setting' = [setting EXCEPT ![id] = None]
    /\ pc' = [pc EXCEPT ![id] = Following(id)]
    /\ UNCHANGED <<nodes, lifecycle, view>>

CallRegistry(id) ==
    /\ pc[id] \in Process(id)!RegistrySteps
    /\ IF pc[id] = "unregister" THEN Unregister(id)
       ELSE Register(Snapshot(id, Process(id)!Writes[pc[id]]))
    /\ pc' = [pc EXCEPT ![id] = Following(id)]
    /\ UNCHANGED <<lifecycle, health, setting, view>>

Shutdown(id) ==
    /\ pc[id] = "built"
    /\ pc' = [pc EXCEPT ![id] = "begin_shutdown"]
    /\ UNCHANGED <<nodes, lifecycle, health, setting, view>>

\* The owner of a composed context registers its node, as anything and as
\* often as it likes, or removes it.  The guard on pc is the owner's duty: the
\* registry would take a node after the shutdown, which would then be left.
Announce(node) ==
    /\ node.id \in Composed
    /\ pc[node.id] = "built"
    /\ Register(node)
    /\ UNCHANGED <<contextVars, view>>

Withdraw(id) ==
    /\ id \in Composed
    /\ pc[id] = "built"
    /\ Unregister(id)
    /\ UNCHANGED <<contextVars, view>>

LookUp ==
    /\ view' = List
    /\ UNCHANGED <<nodes, contextVars>>

Next ==
    \/ \E id \in NodeIds :
          \/ ChangeLifecycle(id)
          \/ ChangeHealth(id)
          \/ CallRegistry(id)
          \/ Shutdown(id)
          \/ Withdraw(id)
    \/ \E node \in Announced : Announce(node)
    \/ LookUp

Spec == Init /\ [][Next]_vars

(***************************************************************************)
(* Properties                                                              *)
(***************************************************************************)
\* Whatever the other contexts do to the registry they share, each context
\* behaves as ServerProcess, its node's snapshot included: nobody else writes,
\* removes or brings it back (memory.rs:40-49).  A composed context does so
\* from where bootstrap would have left it.
EachIsAProcess ==
    /\ \A id \in Bootstrapped : Process(id)!Init
    /\ [][\A id \in NodeIds : [Process(id)!Next]_(Process(id)!vars)]_vars

\* What a bootstrapped node advertises does not change from its first
\* snapshot to its last, though bootstrap and the context write it in
\* different ways (bootstrap.rs:97, context.rs:125).
AdvertisedUnchanged ==
    [][\A id \in Bootstrapped : id \in DOMAIN nodes \cap DOMAIN nodes' =>
          /\ nodes'[id].metadata = nodes[id].metadata
          /\ nodes'[id].capabilities = nodes[id].capabilities]_nodes

\* A context that has shut down has left no node behind, whether it was built
\* or composed and whatever its owner had registered for it before.
StoppedIsGone ==
    \A id \in NodeIds : pc[id] = "stopped" => id \notin DOMAIN nodes

Age == [Starting |-> 1, Ready |-> 2, Draining |-> 3, Offline |-> 4]

\* Somebody who lists the nodes again and again sees no node that Bootstrap
\* registers go back to an earlier state of its life.  Of a composed context
\* this depends on its owner, whose registration may be any.
ViewOnlyAges ==
    [][\A i \in DOMAIN view, j \in DOMAIN view' :
          view[i].id \in Bootstrapped /\ view[i].id = view'[j].id =>
              Age[view[i].state] <= Age[view'[j].state]]_view

=============================================================================
