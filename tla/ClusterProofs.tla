---------------------------- MODULE ClusterProofs ----------------------------
(***************************************************************************)
(* Theorems about contexts that share a node registry, for any number of   *)
(* nodes and whatever they advertise.                                      *)
(***************************************************************************)
EXTENDS Cluster, SelectionProofs

-----------------------------------------------------------------------------
\* What the registry has of a node.
Gone(id) == id \notin DOMAIN nodes
StateIs(id, state) == id \in DOMAIN nodes /\ nodes[id].state = state

\* A composed context's node may be registered as anything, or not at all.
MayBe(id, state) == id \in Bootstrapped => StateIs(id, state)

\* What is true at each step of a context.
AtStep(id) ==
    /\ pc[id] = "start" =>
         /\ Gone(id)
         /\ lifecycle[id] = IF setting[id] = None THEN "Stopped" ELSE "Starting"
    /\ pc[id] = "register_starting" => Gone(id) /\ lifecycle[id] = "Starting"
    /\ pc[id] = "register_ready" =>
         StateIs(id, "Starting") /\ lifecycle[id] = "Starting"
    /\ pc[id] = "ready" =>
         /\ StateIs(id, "Ready")
         /\ lifecycle[id] = IF setting[id] = None THEN "Starting" ELSE "Ready"
    /\ pc[id] = "built" => MayBe(id, "Ready") /\ lifecycle[id] = "Ready"
    /\ pc[id] = "begin_shutdown" =>
         /\ MayBe(id, "Ready")
         /\ lifecycle[id] = IF setting[id] = None THEN "Ready" ELSE "Draining"
    /\ pc[id] = "register_draining" =>
         MayBe(id, "Ready") /\ lifecycle[id] = "Draining"
    /\ pc[id] = "register_offline" =>
         StateIs(id, "Draining") /\ lifecycle[id] = "Draining"
    /\ pc[id] = "unregister" =>
         StateIs(id, "Offline") /\ lifecycle[id] = "Draining"
    /\ pc[id] = "stop" =>
         /\ Gone(id)
         /\ lifecycle[id] = IF setting[id] = None THEN "Draining" ELSE "Stopped"
    /\ pc[id] = "stopped" => Gone(id) /\ lifecycle[id] = "Stopped"

Between == {"built", "begin_shutdown", "register_draining", "register_offline",
            "unregister", "stop", "stopped"}
Locked == {"start", "ready", "begin_shutdown", "stop"}

\* A context's own variables; one that boots is one that Bootstrap builds.
ContextOK(id) ==
    /\ lifecycle[id] \in {"Starting", "Ready", "Draining", "Stopped"}
    /\ health[id] \in {"Starting", "Ready", "Stopping", "Stopped"}
    /\ pc[id] \in BootSteps \cup Between
    /\ pc[id] \in BootSteps => id \in Bootstrapped
    /\ setting[id] # None =>
         /\ pc[id] \in Locked
         /\ setting[id] = [start |-> "Starting", ready |-> "Ready",
                           begin_shutdown |-> "Draining",
                           stop |-> "Stopped"][pc[id]]

Advertised(id) ==
    id \in Bootstrapped /\ id \in DOMAIN nodes =>
       /\ nodes[id].metadata = Advertises[id].metadata
       /\ nodes[id].capabilities = Advertises[id].capabilities

\* A bootstrapped node that has been listed is still registered, no earlier in
\* its life, or has been removed for good.
StillListed(i) ==
    LET id == view[i].id
    IN  id \in Bootstrapped =>
          IF Gone(id) THEN pc[id] \in {"stop", "stopped"}
          ELSE Age[view[i].state] <= Age[nodes[id].state]

ClusterInv ==
    /\ lifecycle \in [NodeIds -> {"Starting", "Ready", "Draining", "Stopped"}]
    /\ health \in [NodeIds -> {"Starting", "Ready", "Stopping", "Stopped"}]
    /\ setting \in [NodeIds -> {None, "Starting", "Ready", "Draining", "Stopped"}]
    /\ pc \in [NodeIds -> BootSteps \cup Between]
    /\ IsFiniteSet(DOMAIN nodes)
    /\ RegistryTypeOK
    /\ view \in Seq(Nodes)
    /\ \A id \in NodeIds : ContextOK(id) /\ AtStep(id) /\ Advertised(id)
    /\ \A i \in DOMAIN view : StillListed(i)

-----------------------------------------------------------------------------
\* The chains of ServerProcess, the same for every context.
LEMMA Chains ==
  ASSUME NEW id
  PROVE  /\ Process(id)!Operations = Locked
         /\ Process(id)!RegistrySteps =
              {"register_starting", "register_ready", "register_draining",
               "register_offline", "unregister"}
         /\ Process(id)!After("start") = "register_starting"
         /\ Process(id)!After("register_starting") = "register_ready"
         /\ Process(id)!After("register_ready") = "ready"
         /\ Process(id)!After("ready") = "built"
         /\ Process(id)!After("begin_shutdown") = "register_draining"
         /\ Process(id)!After("register_draining") = "register_offline"
         /\ Process(id)!After("register_offline") = "unregister"
         /\ Process(id)!After("unregister") = "stop"
         /\ Process(id)!After("stop") = "stopped"
BY DEF Process!Operations, Process!RegistrySteps, Process!Writes, Process!After,
       Process!AfterBoot, Process!AfterShutdown, Locked

LEMMA Targets ==
  ASSUME NEW id
  PROVE  /\ Process(id)!Target("start") = "Starting"
         /\ Process(id)!Target("ready") = "Ready"
         /\ Process(id)!Target("begin_shutdown") = "Draining"
         /\ Process(id)!Target("stop") = "Stopped"
         /\ Process(id)!AllowedFrom("start") = {"Stopped"}
         /\ Process(id)!AllowedFrom("ready") = {"Starting"}
         /\ Process(id)!AllowedFrom("begin_shutdown") = {"Starting", "Ready"}
         /\ Process(id)!AllowedFrom("stop") = {"Draining"}
         /\ Process(id)!Writes["register_starting"] = "Starting"
         /\ Process(id)!Writes["register_ready"] = "Ready"
         /\ Process(id)!Writes["register_draining"] = "Draining"
         /\ Process(id)!Writes["register_offline"] = "Offline"
         /\ Process(id)!Writes["unregister"] = None
BY DEF Process!Target, Process!AllowedFrom, Process!Writes

\* The names of the steps: five call the registry, four the lifecycle.
LEMMA StepNames ==
  /\ BootSteps = {"start", "register_starting", "register_ready", "ready"}
  /\ Between = {"built", "begin_shutdown", "register_draining",
                "register_offline", "unregister", "stop", "stopped"}
  /\ Locked = {"start", "ready", "begin_shutdown", "stop"}
BY DEF BootSteps, Between, Locked

\* A registration replaces one snapshot and no other.
LEMMA RegisterIs ==
  ASSUME RegistryTypeOK, IsFiniteSet(DOMAIN nodes),
         NEW n \in Nodes, IsValidNode(n), Register(n)
  PROVE  /\ DOMAIN nodes' = DOMAIN nodes \cup {n.id}
         /\ nodes'[n.id] = n
         /\ \A id \in DOMAIN nodes : id # n.id => nodes'[id] = nodes[id]
         /\ IsFiniteSet(DOMAIN nodes')
         /\ RegistryTypeOK'
<1>1. nodes' = [id \in DOMAIN nodes \cup {n.id} |->
                  IF id = n.id THEN n ELSE nodes[id]]
  BY DEF Register
<1>2. n.id \in NodeIds
  BY DEF Nodes
<1>3. IsFiniteSet(DOMAIN nodes \cup {n.id})
  BY FS_AddElement
<1>4. DOMAIN nodes' = DOMAIN nodes \cup {n.id}
  BY <1>1
<1> QED
  BY <1>1, <1>2, <1>3, <1>4 DEF RegistryTypeOK

LEMMA UnregisterIs ==
  ASSUME RegistryTypeOK, IsFiniteSet(DOMAIN nodes), NEW id, Unregister(id)
  PROVE  /\ DOMAIN nodes' = DOMAIN nodes \ {id}
         /\ \A k \in DOMAIN nodes : k # id => nodes'[k] = nodes[k]
         /\ IsFiniteSet(DOMAIN nodes')
         /\ RegistryTypeOK'
<1>1. nodes' = [k \in DOMAIN nodes \ {id} |-> nodes[k]]
  BY DEF Unregister, Without, Restrict
<1>2. IsFiniteSet(DOMAIN nodes \ {id})
  BY FS_RemoveElement
<1>3. DOMAIN nodes' = DOMAIN nodes \ {id}
  BY <1>1
<1> QED
  BY <1>1, <1>2, <1>3 DEF RegistryTypeOK

-----------------------------------------------------------------------------
\* What a step must not do to the nodes that Bootstrap has registered.
OnlyAges(id) ==
    id \in Bootstrapped =>
      /\ Gone(id) /\ pc[id] \in {"stop", "stopped"} =>
           Gone(id)' /\ pc'[id] \in {"stop", "stopped"}
      /\ ~Gone(id) => IF Gone(id)' THEN pc'[id] \in {"stop", "stopped"}
                      ELSE Age[nodes[id].state] <= Age[nodes'[id].state]

\* The registry has of the node what it had.
SameNode(id) ==
    /\ id \in DOMAIN nodes' <=> id \in DOMAIN nodes
    /\ id \in DOMAIN nodes => nodes'[id] = nodes[id]

LEMMA AgeOf ==
  /\ Age["Starting"] = 1 /\ Age["Ready"] = 2
  /\ Age["Draining"] = 3 /\ Age["Offline"] = 4
BY DEF Age

LEMMA AgeIs == \A state \in NodeStates : Age[state] \in Nat
BY AgeOf DEF NodeStates

LEMMA NodeIs ==
  ASSUME RegistryTypeOK, NEW id \in DOMAIN nodes
  PROVE  /\ nodes[id] \in Nodes /\ nodes[id].id = id /\ id \in NodeIds
         /\ nodes[id].state \in NodeStates
         /\ Age[nodes[id].state] \in Nat
<1>1. nodes[id] \in Nodes /\ nodes[id].id = id /\ id \in NodeIds
  BY DEF RegistryTypeOK
<1>2. nodes[id].state \in NodeStates
  BY <1>1 DEF Nodes
<1> QED
  BY <1>1, <1>2, AgeIs

\* A step of one context that keeps its own part of the invariant.
LEMMA OneContext ==
  ASSUME ClusterInv, NEW id \in NodeIds, UNCHANGED view,
         \A k \in NodeIds \ {id} :
            /\ UNCHANGED <<lifecycle[k], health[k], setting[k], pc[k]>>
            /\ SameNode(k),
         lifecycle' \in [NodeIds -> {"Starting", "Ready", "Draining", "Stopped"}],
         health' \in [NodeIds -> {"Starting", "Ready", "Stopping", "Stopped"}],
         setting' \in [NodeIds -> {None, "Starting", "Ready", "Draining", "Stopped"}],
         pc' \in [NodeIds -> BootSteps \cup Between],
         IsFiniteSet(DOMAIN nodes'), RegistryTypeOK',
         ContextOK(id)', AtStep(id)', Advertised(id)', OnlyAges(id)
  PROVE  ClusterInv'
<1>1. ASSUME NEW k \in NodeIds \ {id}
      PROVE  ContextOK(k)' /\ AtStep(k)' /\ Advertised(k)' /\ OnlyAges(k)
  <2>1. /\ ContextOK(k) /\ AtStep(k) /\ Advertised(k) /\ RegistryTypeOK
        /\ UNCHANGED <<lifecycle[k], health[k], setting[k], pc[k]>>
        /\ SameNode(k)
    BY DEF ClusterInv
  <2>2. ContextOK(k)'
    BY <2>1 DEF ContextOK
  <2>3. Gone(k)' <=> Gone(k)
    BY <2>1 DEF SameNode, Gone
  <2>4. \A state : StateIs(k, state)' <=> StateIs(k, state)
    BY <2>1 DEF SameNode, StateIs
  <2>5. AtStep(k)'
    BY <2>1, <2>3, <2>4 DEF AtStep, MayBe
  <2>6. Advertised(k)'
    BY <2>1 DEF SameNode, Advertised
  <2>7. OnlyAges(k)
    <3>1. k \in DOMAIN nodes => /\ Age[nodes[k].state] \in Nat
                                /\ nodes'[k] = nodes[k]
      BY <2>1, NodeIs DEF SameNode
    <3> QED
      BY <2>1, <2>3, <3>1 DEF OnlyAges, Gone
  <2> QED
    BY <2>2, <2>5, <2>6, <2>7
<1>2. ASSUME NEW i \in DOMAIN view PROVE StillListed(i)'
  <2>1. /\ StillListed(i) /\ view' = view /\ RegistryTypeOK
        /\ view \in Seq(Nodes)
    BY DEF ClusterInv
  <2>a. view[i] \in Nodes
    BY <2>1
  <2>b. view[i].state \in NodeStates
    BY <2>a DEF Nodes
  <2>2. PICK k : k = view[i].id
    OBVIOUS
  <2>c. SUFFICES ASSUME k \in Bootstrapped PROVE StillListed(i)'
    BY <2>1, <2>2 DEF StillListed
  <2>3. OnlyAges(k)
    BY <1>1, <2>c, ClusterAssumption
  <2>4. CASE Gone(k)
    BY <2>1, <2>2, <2>3, <2>4 DEF StillListed, OnlyAges
  <2>5. CASE ~Gone(k)
    <3>1. Age[view[i].state] \in Nat /\ Age[nodes[k].state] \in Nat
      BY <2>1, <2>b, <2>5, AgeIs, NodeIs DEF Gone
    <3>2. ASSUME ~Gone(k)' PROVE Age[nodes'[k].state] \in Nat
      <4>1. nodes'[k] \in Nodes
        BY <3>2 DEF Gone, RegistryTypeOK
      <4> QED
        BY <4>1, AgeIs DEF Nodes
    <3> QED
      BY <2>1, <2>2, <2>3, <2>5, <3>1, <3>2 DEF StillListed, OnlyAges
  <2> QED
    BY <2>4, <2>5
<1> QED
  BY <1>1, <1>2 DEF ClusterInv
-----------------------------------------------------------------------------
\* What is true of one context before its step.
LEMMA Before ==
  ASSUME ClusterInv, NEW id \in NodeIds
  PROVE  /\ ContextOK(id) /\ AtStep(id) /\ Advertised(id)
         /\ RegistryTypeOK /\ IsFiniteSet(DOMAIN nodes)
         /\ lifecycle \in [NodeIds -> {"Starting", "Ready", "Draining", "Stopped"}]
         /\ health \in [NodeIds -> {"Starting", "Ready", "Stopping", "Stopped"}]
         /\ setting \in [NodeIds -> {None, "Starting", "Ready", "Draining", "Stopped"}]
         /\ pc \in [NodeIds -> BootSteps \cup Between]
BY DEF ClusterInv

\* A step that leaves the registry alone ages nobody.
LEMMA NodesAlone ==
  ASSUME ClusterInv, UNCHANGED nodes, NEW id \in NodeIds,
         pc[id] \in {"stop", "stopped"} => pc'[id] \in {"stop", "stopped"}
  PROVE  /\ OnlyAges(id) /\ Advertised(id)'
         /\ \A k \in NodeIds : SameNode(k)
         /\ IsFiniteSet(DOMAIN nodes') /\ RegistryTypeOK'
<1>1. Advertised(id) /\ RegistryTypeOK /\ IsFiniteSet(DOMAIN nodes)
  BY Before
<1>2. id \in DOMAIN nodes => Age[nodes[id].state] \in Nat
  BY <1>1, NodeIs
<1>3. OnlyAges(id)
  BY <1>2 DEF OnlyAges, Gone
<1>4. Advertised(id)'
  BY <1>1 DEF Advertised
<1>5. IsFiniteSet(DOMAIN nodes') /\ RegistryTypeOK'
  BY <1>1 DEF RegistryTypeOK
<1> QED
  BY <1>3, <1>4, <1>5 DEF SameNode

LEMMA LifecycleChanges ==
  ASSUME ClusterInv, NEW id \in NodeIds, ChangeLifecycle(id)
  PROVE  ClusterInv'
<1>1. /\ ContextOK(id) /\ AtStep(id)
      /\ lifecycle \in [NodeIds -> {"Starting", "Ready", "Draining", "Stopped"}]
      /\ health \in [NodeIds -> {"Starting", "Ready", "Stopping", "Stopped"}]
      /\ setting \in [NodeIds -> {None, "Starting", "Ready", "Draining", "Stopped"}]
      /\ pc \in [NodeIds -> BootSteps \cup Between]
  BY Before
<1>2. PICK t : t = Process(id)!Target(pc[id])
  OBVIOUS
<1>3. /\ pc[id] \in Locked /\ setting[id] = None
      /\ lifecycle' = [lifecycle EXCEPT ![id] = t]
      /\ setting' = [setting EXCEPT ![id] = t]
      /\ UNCHANGED <<nodes, health, pc, view>>
  BY <1>2, Chains DEF ChangeLifecycle
<1>4. /\ pc[id] = "start" => t = "Starting"
      /\ pc[id] = "ready" => t = "Ready"
      /\ pc[id] = "begin_shutdown" => t = "Draining"
      /\ pc[id] = "stop" => t = "Stopped"
  BY <1>2, Targets
<1>5. t \in {"Starting", "Ready", "Draining", "Stopped"}
  BY <1>3, <1>4 DEF Locked
<1>6. /\ lifecycle' \in [NodeIds -> {"Starting", "Ready", "Draining", "Stopped"}]
      /\ setting' \in [NodeIds -> {None, "Starting", "Ready", "Draining", "Stopped"}]
      /\ health' = health /\ pc' = pc
      /\ lifecycle'[id] = t /\ setting'[id] = t
  BY <1>1, <1>3, <1>5
<1>7. t # None
  BY <1>5, ClusterAssumption
<1>8. ContextOK(id)'
  BY <1>1, <1>3, <1>4, <1>5, <1>6, <1>7 DEF ContextOK, Locked
<1>9. Gone(id)' <=> Gone(id)
  BY <1>3 DEF Gone
<1>10. \A state : StateIs(id, state)' <=> StateIs(id, state)
  BY <1>3 DEF StateIs
<1>11. AtStep(id)'
  BY <1>1, <1>3, <1>4, <1>6, <1>7, <1>9, <1>10 DEF AtStep, MayBe, Locked
<1>12. /\ OnlyAges(id) /\ Advertised(id)' /\ \A k \in NodeIds : SameNode(k)
       /\ IsFiniteSet(DOMAIN nodes') /\ RegistryTypeOK'
  BY <1>3, <1>6, NodesAlone
<1>13. \A k \in NodeIds \ {id} :
          UNCHANGED <<lifecycle[k], health[k], setting[k], pc[k]>>
  BY <1>1, <1>3
<1>14. UNCHANGED view
  BY <1>3
<1>15. /\ health' \in [NodeIds -> {"Starting", "Ready", "Stopping", "Stopped"}]
       /\ pc' \in [NodeIds -> BootSteps \cup Between]
  BY <1>1, <1>6
<1> QED
  BY <1>6, <1>8, <1>11, <1>12, <1>13, <1>14, <1>15, OneContext

\* The step after each of the others.
LEMMA FollowingIs ==
  ASSUME NEW id \in NodeIds
  PROVE  /\ pc[id] = "start" => Following(id) = "register_starting"
         /\ pc[id] = "register_starting" => Following(id) = "register_ready"
         /\ pc[id] = "register_ready" => Following(id) = "ready"
         /\ pc[id] = "ready" => Following(id) = "built"
         /\ pc[id] = "begin_shutdown" => Following(id) = "register_draining"
         /\ pc[id] = "register_draining" => Following(id) = "register_offline"
         /\ pc[id] = "register_offline" => Following(id) = "unregister"
         /\ pc[id] = "unregister" => Following(id) = "stop"
         /\ pc[id] = "stop" => Following(id) = "stopped"
BY Chains DEF Following

LEMMA HealthChanges ==
  ASSUME ClusterInv, NEW id \in NodeIds, ChangeHealth(id)
  PROVE  ClusterInv'
<1>1. /\ ContextOK(id) /\ AtStep(id)
      /\ lifecycle \in [NodeIds -> {"Starting", "Ready", "Draining", "Stopped"}]
      /\ health \in [NodeIds -> {"Starting", "Ready", "Stopping", "Stopped"}]
      /\ setting \in [NodeIds -> {None, "Starting", "Ready", "Draining", "Stopped"}]
      /\ pc \in [NodeIds -> BootSteps \cup Between]
  BY Before
<1>2. PICK h : h = Process(id)!HealthFor(setting[id])
  OBVIOUS
<1>3. PICK p : p = Following(id)
  OBVIOUS
<1>4. /\ setting[id] # None
      /\ health' = [health EXCEPT ![id] = h]
      /\ setting' = [setting EXCEPT ![id] = None]
      /\ pc' = [pc EXCEPT ![id] = p]
      /\ UNCHANGED <<nodes, lifecycle, view>>
  BY <1>2, <1>3 DEF ChangeHealth
<1>5. pc[id] \in Locked
  BY <1>1, <1>4 DEF ContextOK
<1>6. h \in {"Starting", "Ready", "Stopping", "Stopped"}
  <2>1. setting[id] \in {"Starting", "Ready", "Draining", "Stopped"}
    BY <1>1, <1>4
  <2> QED
    BY <1>2, <2>1 DEF Process!HealthFor
<1>7. /\ pc[id] = "start" => p = "register_starting"
      /\ pc[id] = "ready" => p = "built"
      /\ pc[id] = "begin_shutdown" => p = "register_draining"
      /\ pc[id] = "stop" => p = "stopped"
  BY <1>3, FollowingIs
<1>8. p \in BootSteps \cup Between
  BY <1>5, <1>7 DEF Locked, BootSteps, Between
<1>9. /\ health' \in [NodeIds -> {"Starting", "Ready", "Stopping", "Stopped"}]
      /\ setting' \in [NodeIds -> {None, "Starting", "Ready", "Draining", "Stopped"}]
      /\ pc' \in [NodeIds -> BootSteps \cup Between]
      /\ health'[id] = h /\ setting'[id] = None /\ pc'[id] = p
      /\ lifecycle' = lifecycle
  BY <1>1, <1>4, <1>6, <1>8
<1>10. ContextOK(id)'
  BY <1>1, <1>5, <1>6, <1>7, <1>8, <1>9 DEF ContextOK, Locked, BootSteps
<1>11. Gone(id)' <=> Gone(id)
  BY <1>4 DEF Gone
<1>12. \A state : StateIs(id, state)' <=> StateIs(id, state)
  BY <1>4 DEF StateIs
<1>13. AtStep(id)'
  BY <1>1, <1>4, <1>5, <1>7, <1>9, <1>11, <1>12 DEF AtStep, MayBe, Locked
<1>14. /\ OnlyAges(id) /\ Advertised(id)' /\ \A k \in NodeIds : SameNode(k)
       /\ IsFiniteSet(DOMAIN nodes') /\ RegistryTypeOK'
  <2>1. pc[id] \in {"stop", "stopped"} => pc'[id] \in {"stop", "stopped"}
    BY <1>5, <1>7, <1>9 DEF Locked
  <2> QED
    BY <1>4, <2>1, NodesAlone
<1>15. \A k \in NodeIds \ {id} :
          UNCHANGED <<lifecycle[k], health[k], setting[k], pc[k]>>
  BY <1>1, <1>4
<1>16. /\ UNCHANGED view
       /\ lifecycle' \in [NodeIds -> {"Starting", "Ready", "Draining", "Stopped"}]
  BY <1>1, <1>4
<1> QED
  BY <1>9, <1>10, <1>13, <1>14, <1>15, <1>16, OneContext

LEMMA ShutdownBegins ==
  ASSUME ClusterInv, NEW id \in NodeIds, Shutdown(id)
  PROVE  ClusterInv'
<1>1. /\ ContextOK(id) /\ AtStep(id)
      /\ lifecycle \in [NodeIds -> {"Starting", "Ready", "Draining", "Stopped"}]
      /\ health \in [NodeIds -> {"Starting", "Ready", "Stopping", "Stopped"}]
      /\ setting \in [NodeIds -> {None, "Starting", "Ready", "Draining", "Stopped"}]
      /\ pc \in [NodeIds -> BootSteps \cup Between]
  BY Before
<1>2. /\ pc[id] = "built"
      /\ pc' = [pc EXCEPT ![id] = "begin_shutdown"]
      /\ UNCHANGED <<nodes, lifecycle, health, setting, view>>
  BY DEF Shutdown
<1>3. /\ pc' \in [NodeIds -> BootSteps \cup Between]
      /\ pc'[id] = "begin_shutdown"
  BY <1>1, <1>2 DEF Between
<1>4. setting[id] = None
  BY <1>1, <1>2 DEF ContextOK, Locked
<1>5. ContextOK(id)'
  BY <1>1, <1>2, <1>3, <1>4 DEF ContextOK, BootSteps, Between
<1>6. Gone(id)' <=> Gone(id)
  BY <1>2 DEF Gone
<1>7. \A state : StateIs(id, state)' <=> StateIs(id, state)
  BY <1>2 DEF StateIs
<1>8. AtStep(id)'
  BY <1>1, <1>2, <1>3, <1>4, <1>6, <1>7 DEF AtStep, MayBe
<1>9. /\ OnlyAges(id) /\ Advertised(id)' /\ \A k \in NodeIds : SameNode(k)
      /\ IsFiniteSet(DOMAIN nodes') /\ RegistryTypeOK'
  BY <1>2, NodesAlone
<1>10. \A k \in NodeIds \ {id} :
          UNCHANGED <<lifecycle[k], health[k], setting[k], pc[k]>>
  BY <1>1, <1>2
<1>11. /\ UNCHANGED view
       /\ lifecycle' \in [NodeIds -> {"Starting", "Ready", "Draining", "Stopped"}]
       /\ health' \in [NodeIds -> {"Starting", "Ready", "Stopping", "Stopped"}]
       /\ setting' \in [NodeIds -> {None, "Starting", "Ready", "Draining", "Stopped"}]
  BY <1>1, <1>2
<1> QED
  BY <1>3, <1>5, <1>8, <1>9, <1>10, <1>11, OneContext

\* What a context registers is valid, and what its node advertises.
LEMMA SnapshotIs ==
  ASSUME NEW id \in NodeIds, NEW state \in NodeStates, ContextOK(id)
  PROVE  /\ Snapshot(id, state) \in Nodes /\ IsValidNode(Snapshot(id, state))
         /\ Snapshot(id, state).id = id /\ Snapshot(id, state).state = state
         /\ id \in Bootstrapped =>
              /\ Snapshot(id, state).metadata = Advertises[id].metadata
              /\ Snapshot(id, state).capabilities = Advertises[id].capabilities
<1>1. PICK c : c = Advertises[id].capabilities
  OBVIOUS
<1>2. PICK d : d = Advertises[id].metadata
  OBVIOUS
<1>3. c \subseteq Capabilities /\ c \cap Unusable = {} /\ d \in Metadata
  <2>1. Advertises \in [NodeIds -> [metadata : Metadata,
                                   capabilities : SUBSET (Capabilities \ Unusable)]]
    BY ClusterAssumption
  <2>2. Advertises[id] \in [metadata : Metadata,
                            capabilities : SUBSET (Capabilities \ Unusable)]
    BY <2>1
  <2> QED
    BY <1>1, <1>2, <2>2
<1>4. "" \in Metadata
  BY ClusterAssumption
<1>5. CASE IsBooting(id) \/ id \in Bootstrapped
  <2>1. Snapshot(id, state) = [id |-> id, metadata |-> d, state |-> state,
                               capabilities |-> c] /\ id \in Bootstrapped
    BY <1>1, <1>2, <1>5
       DEF Snapshot, Configured, LocalNode, NewNode, ContextOK, IsBooting
  <2> QED
    BY <1>1, <1>2, <1>3, <2>1 DEF Nodes, IsValidNode
<1>6. CASE ~IsBooting(id) /\ id \notin Bootstrapped
  <2>1. PICK n : n = Snapshot(id, state)
    OBVIOUS
  <2>2. PICK e : e = {}
    OBVIOUS
  <2>3. e \in SUBSET Capabilities /\ e \cap Unusable = {}
    BY <2>2
  <2>4. PICK d0 : d0 = ""
    OBVIOUS
  <2>5. n = [id |-> id, metadata |-> d0, state |-> state, capabilities |-> e]
    BY <1>6, <2>1, <2>2, <2>4 DEF Snapshot, LocalNode, NewNode
  <2>6. d0 \in Metadata
    BY <1>4, <2>4
  <2>7. /\ n \in Nodes /\ n.id = id /\ n.state = state /\ n.capabilities = e
    BY <2>3, <2>5, <2>6 DEF Nodes
  <2> QED
    BY <1>6, <2>1, <2>3, <2>7 DEF IsValidNode
<1> QED
  BY <1>5, <1>6

LEMMA Registers ==
  ASSUME ClusterInv, NEW id \in NodeIds, CallRegistry(id), pc[id] # "unregister"
  PROVE  ClusterInv'
<1>1. /\ ContextOK(id) /\ AtStep(id) /\ RegistryTypeOK
      /\ IsFiniteSet(DOMAIN nodes)
      /\ lifecycle \in [NodeIds -> {"Starting", "Ready", "Draining", "Stopped"}]
      /\ health \in [NodeIds -> {"Starting", "Ready", "Stopping", "Stopped"}]
      /\ setting \in [NodeIds -> {None, "Starting", "Ready", "Draining", "Stopped"}]
      /\ pc \in [NodeIds -> BootSteps \cup Between]
  BY Before
<1>2. PICK w : w = Process(id)!Writes[pc[id]]
  OBVIOUS
<1>3. PICK p : p = Following(id)
  OBVIOUS
<1>4. PICK n : n = Snapshot(id, w)
  OBVIOUS
<1>5. /\ pc[id] \in {"register_starting", "register_ready", "register_draining",
                     "register_offline"}
      /\ Register(n)
      /\ pc' = [pc EXCEPT ![id] = p]
      /\ UNCHANGED <<lifecycle, health, setting, view>>
  BY <1>2, <1>3, <1>4, Chains DEF CallRegistry
<1>6. /\ pc[id] = "register_starting" => p = "register_ready" /\ w = "Starting"
      /\ pc[id] = "register_ready" => p = "ready" /\ w = "Ready"
      /\ pc[id] = "register_draining" => p = "register_offline" /\ w = "Draining"
      /\ pc[id] = "register_offline" => p = "unregister" /\ w = "Offline"
  BY <1>2, <1>3, FollowingIs, Targets
<1>7. w \in NodeStates
  BY <1>5, <1>6 DEF NodeStates
<1>8. /\ n \in Nodes /\ IsValidNode(n) /\ n.id = id /\ n.state = w
      /\ id \in Bootstrapped => /\ n.metadata = Advertises[id].metadata
                                /\ n.capabilities = Advertises[id].capabilities
  BY <1>1, <1>4, <1>7, SnapshotIs
<1>9. /\ DOMAIN nodes' = DOMAIN nodes \cup {id}
      /\ nodes'[id] = n
      /\ \A k \in DOMAIN nodes : k # id => nodes'[k] = nodes[k]
      /\ IsFiniteSet(DOMAIN nodes')
      /\ RegistryTypeOK'
  BY <1>1, <1>5, <1>8, RegisterIs
<1>10. ~Gone(id)' /\ StateIs(id, w)'
  BY <1>8, <1>9 DEF Gone, StateIs
<1>11. /\ pc' \in [NodeIds -> BootSteps \cup Between] /\ pc'[id] = p
       /\ lifecycle' = lifecycle /\ health' = health /\ setting' = setting
  BY <1>1, <1>5, <1>6 DEF BootSteps, Between
<1>12. setting[id] = None
  BY <1>1, <1>5 DEF ContextOK, Locked
<1>13. ContextOK(id)'
  BY <1>1, <1>5, <1>6, <1>11, <1>12 DEF ContextOK, BootSteps, Between
<1>14. AtStep(id)'
  BY <1>1, <1>5, <1>6, <1>10, <1>11, <1>12 DEF AtStep, MayBe
<1>15. Advertised(id)'
  BY <1>8, <1>9 DEF Advertised
<1>16. OnlyAges(id)
  <2>0. SUFFICES ASSUME id \in Bootstrapped PROVE OnlyAges(id)
    BY DEF OnlyAges
  <2>1. Gone(id) \/ nodes[id].state =
          [register_starting |-> "Starting", register_ready |-> "Starting",
           register_draining |-> "Ready", register_offline |-> "Draining"][pc[id]]
    BY <1>1, <1>5, <2>0 DEF AtStep, MayBe, StateIs
  <2>2. ~Gone(id) => Age[nodes[id].state] <= Age[nodes'[id].state]
    BY <1>1, <1>5, <1>6, <1>8, <1>9, <2>1, AgeOf DEF AtStep
  <2> QED
    BY <1>5, <1>10, <2>2 DEF OnlyAges
<1>17. \A k \in NodeIds \ {id} :
          /\ UNCHANGED <<lifecycle[k], health[k], setting[k], pc[k]>>
          /\ SameNode(k)
  BY <1>1, <1>5, <1>9 DEF SameNode
<1>18. UNCHANGED view
  BY <1>5
<1> QED
  BY <1>1, <1>9, <1>11, <1>13, <1>14, <1>15, <1>16, <1>17, <1>18, OneContext

LEMMA Unregisters ==
  ASSUME ClusterInv, NEW id \in NodeIds, CallRegistry(id), pc[id] = "unregister"
  PROVE  ClusterInv'
<1>1. /\ ContextOK(id) /\ AtStep(id) /\ RegistryTypeOK
      /\ IsFiniteSet(DOMAIN nodes)
      /\ lifecycle \in [NodeIds -> {"Starting", "Ready", "Draining", "Stopped"}]
      /\ health \in [NodeIds -> {"Starting", "Ready", "Stopping", "Stopped"}]
      /\ setting \in [NodeIds -> {None, "Starting", "Ready", "Draining", "Stopped"}]
      /\ pc \in [NodeIds -> BootSteps \cup Between]
  BY Before
<1>2. /\ Unregister(id)
      /\ pc' = [pc EXCEPT ![id] = "stop"]
      /\ UNCHANGED <<lifecycle, health, setting, view>>
  BY FollowingIs DEF CallRegistry
<1>3. /\ DOMAIN nodes' = DOMAIN nodes \ {id}
      /\ \A k \in DOMAIN nodes : k # id => nodes'[k] = nodes[k]
      /\ IsFiniteSet(DOMAIN nodes')
      /\ RegistryTypeOK'
  BY <1>1, <1>2, UnregisterIs
<1>4. Gone(id)'
  BY <1>3 DEF Gone
<1>5. /\ pc' \in [NodeIds -> BootSteps \cup Between] /\ pc'[id] = "stop"
      /\ lifecycle' = lifecycle /\ health' = health /\ setting' = setting
  BY <1>1, <1>2 DEF Between
<1>6. setting[id] = None
  BY <1>1 DEF ContextOK, Locked
<1>7. ContextOK(id)'
  BY <1>1, <1>5, <1>6 DEF ContextOK, BootSteps, Between
<1>8. AtStep(id)'
  BY <1>1, <1>4, <1>5, <1>6 DEF AtStep
<1>9. Advertised(id)' /\ OnlyAges(id)
  BY <1>4, <1>5 DEF Advertised, OnlyAges, Gone
<1>10. \A k \in NodeIds \ {id} :
          /\ UNCHANGED <<lifecycle[k], health[k], setting[k], pc[k]>>
          /\ SameNode(k)
  BY <1>1, <1>2, <1>3 DEF SameNode
<1>11. UNCHANGED view
  BY <1>2
<1> QED
  BY <1>1, <1>3, <1>5, <1>7, <1>8, <1>9, <1>10, <1>11, OneContext

LEMMA Announces ==
  ASSUME ClusterInv, NEW node \in Announced, Announce(node)
  PROVE  ClusterInv'
<1>1. PICK id : id = node.id
  OBVIOUS
<1>2. /\ node \in Nodes /\ id \in NodeIds
  BY <1>1, ClusterAssumption DEF Nodes
<1>3. /\ ContextOK(id) /\ AtStep(id) /\ Advertised(id) /\ RegistryTypeOK
      /\ IsFiniteSet(DOMAIN nodes)
      /\ lifecycle \in [NodeIds -> {"Starting", "Ready", "Draining", "Stopped"}]
      /\ health \in [NodeIds -> {"Starting", "Ready", "Stopping", "Stopped"}]
      /\ setting \in [NodeIds -> {None, "Starting", "Ready", "Draining", "Stopped"}]
      /\ pc \in [NodeIds -> BootSteps \cup Between]
  BY <1>2, Before
<1>4. /\ pc[id] = "built" /\ id \notin Bootstrapped /\ Register(node)
      /\ lifecycle' = lifecycle /\ health' = health /\ setting' = setting
      /\ pc' = pc /\ view' = view
  BY <1>1 DEF Announce, Composed, contextVars
<1>5. ContextOK(id)' /\ AtStep(id)' /\ Advertised(id)' /\ OnlyAges(id)
  BY <1>3, <1>4 DEF ContextOK, AtStep, MayBe, Advertised, OnlyAges
<1>6. CASE ~IsValidNode(node)
  <2>1. nodes' = nodes
    BY <1>4, <1>6 DEF Register
  <2>2. /\ \A k \in NodeIds : SameNode(k)
        /\ IsFiniteSet(DOMAIN nodes') /\ RegistryTypeOK'
    BY <1>2, <1>4, <2>1, NodesAlone
  <2> QED
    BY <1>2, <1>3, <1>4, <1>5, <2>2, OneContext
<1>7. CASE IsValidNode(node)
  <2>1. /\ DOMAIN nodes' = DOMAIN nodes \cup {id}
        /\ \A k \in DOMAIN nodes : k # id => nodes'[k] = nodes[k]
        /\ IsFiniteSet(DOMAIN nodes')
        /\ RegistryTypeOK'
    BY <1>1, <1>2, <1>3, <1>4, <1>7, RegisterIs
  <2>2. \A k \in NodeIds \ {id} :
          /\ UNCHANGED <<lifecycle[k], health[k], setting[k], pc[k]>>
          /\ SameNode(k)
    BY <1>4, <2>1 DEF SameNode
  <2> QED
    BY <1>2, <1>3, <1>4, <1>5, <2>1, <2>2, OneContext
<1> QED
  BY <1>6, <1>7

LEMMA Withdraws ==
  ASSUME ClusterInv, NEW id \in NodeIds, Withdraw(id)
  PROVE  ClusterInv'
<1>1. /\ ContextOK(id) /\ AtStep(id) /\ Advertised(id) /\ RegistryTypeOK
      /\ IsFiniteSet(DOMAIN nodes)
      /\ lifecycle \in [NodeIds -> {"Starting", "Ready", "Draining", "Stopped"}]
      /\ health \in [NodeIds -> {"Starting", "Ready", "Stopping", "Stopped"}]
      /\ setting \in [NodeIds -> {None, "Starting", "Ready", "Draining", "Stopped"}]
      /\ pc \in [NodeIds -> BootSteps \cup Between]
  BY Before
<1>2. /\ pc[id] = "built" /\ id \notin Bootstrapped /\ Unregister(id)
      /\ lifecycle' = lifecycle /\ health' = health /\ setting' = setting
      /\ pc' = pc /\ view' = view
  BY DEF Withdraw, Composed, contextVars
<1>3. ContextOK(id)' /\ AtStep(id)' /\ Advertised(id)' /\ OnlyAges(id)
  BY <1>1, <1>2 DEF ContextOK, AtStep, MayBe, Advertised, OnlyAges
<1>4. /\ DOMAIN nodes' = DOMAIN nodes \ {id}
      /\ \A k \in DOMAIN nodes : k # id => nodes'[k] = nodes[k]
      /\ IsFiniteSet(DOMAIN nodes')
      /\ RegistryTypeOK'
  BY <1>1, <1>2, UnregisterIs
<1>5. \A k \in NodeIds \ {id} :
        /\ UNCHANGED <<lifecycle[k], health[k], setting[k], pc[k]>>
        /\ SameNode(k)
  BY <1>2, <1>4 DEF SameNode
<1> QED
  BY <1>1, <1>2, <1>3, <1>4, <1>5, OneContext

\* A list has every node once, as it is registered now.
LEMMA ListIs ==
  ASSUME RegistryTypeOK, IsFiniteSet(DOMAIN nodes)
  PROVE  /\ List \in Seq(Nodes)
         /\ \A i \in DOMAIN List : /\ List[i].id \in DOMAIN nodes
                                   /\ List[i] = nodes[List[i].id]
<1>1. PICK ids : ids = InOrder(DOMAIN nodes)
  OBVIOUS
<1>2. DOMAIN nodes \in SUBSET Nat
  BY RegistryAssumption DEF RegistryTypeOK
<1>3. ids \in [1..Cardinality(DOMAIN nodes) -> DOMAIN nodes]
  BY <1>1, <1>2, InOrderIs
<1>4. PICK n : n = Cardinality(DOMAIN nodes)
  OBVIOUS
<1>5. n \in Nat
  BY <1>4, FS_CardinalityType
<1>6. List = [i \in 1..n |-> nodes[ids[i]]]
  BY <1>1, <1>3, <1>4 DEF List
<1>7. \A i \in 1..n : /\ ids[i] \in DOMAIN nodes /\ nodes[ids[i]] \in Nodes
                      /\ nodes[ids[i]].id = ids[i]
  BY <1>3, <1>4 DEF RegistryTypeOK
<1>8. List \in [1..n -> Nodes]
  BY <1>6, <1>7
<1>9. List \in Seq(Nodes)
  BY <1>5, <1>8
<1> QED
  BY <1>6, <1>7, <1>9

LEMMA Lists ==
  ASSUME ClusterInv, LookUp
  PROVE  ClusterInv'
<1>1. /\ view' = List /\ nodes' = nodes
      /\ lifecycle' = lifecycle /\ health' = health /\ setting' = setting
      /\ pc' = pc
  BY DEF LookUp, contextVars
<1>2. /\ lifecycle' \in [NodeIds -> {"Starting", "Ready", "Draining", "Stopped"}]
      /\ health' \in [NodeIds -> {"Starting", "Ready", "Stopping", "Stopped"}]
      /\ setting' \in [NodeIds -> {None, "Starting", "Ready", "Draining", "Stopped"}]
      /\ pc' \in [NodeIds -> BootSteps \cup Between]
      /\ IsFiniteSet(DOMAIN nodes')
      /\ RegistryTypeOK'
      /\ RegistryTypeOK /\ IsFiniteSet(DOMAIN nodes)
  BY <1>1 DEF ClusterInv, RegistryTypeOK
<1>3. \A id \in NodeIds : ContextOK(id)' /\ AtStep(id)' /\ Advertised(id)'
  <2> TAKE id \in NodeIds
  <2>1. ContextOK(id) /\ AtStep(id) /\ Advertised(id)
    BY DEF ClusterInv
  <2> QED
    BY <1>1, <2>1 DEF ContextOK, AtStep, Advertised, MayBe, StateIs, Gone
<1>4. /\ List \in Seq(Nodes)
      /\ \A i \in DOMAIN List : /\ List[i].id \in DOMAIN nodes
                                /\ List[i] = nodes[List[i].id]
  BY <1>2, ListIs
<1>5. ASSUME NEW i \in DOMAIN view' PROVE StillListed(i)'
  <2>1. PICK k : k = view'[i].id
    OBVIOUS
  <2>2. k \in DOMAIN nodes /\ view'[i] = nodes[k]
    BY <1>1, <1>4, <1>5, <2>1
  <2>3. Age[nodes[k].state] \in Nat
    BY <1>2, <2>2, NodeIs
  <2>4. Age[nodes[k].state] <= Age[nodes[k].state]
    BY <2>3
  <2> QED
    BY <1>1, <2>1, <2>2, <2>3, <2>4 DEF StillListed, Gone
<1>6. view' \in Seq(Nodes)
  BY <1>1, <1>4
<1> QED
  BY <1>2, <1>3, <1>5, <1>6 DEF ClusterInv

-----------------------------------------------------------------------------
LEMMA ClusterInit ==
  ASSUME Init
  PROVE  ClusterInv
<1>1. /\ nodes = <<>> /\ view = <<>>
      /\ lifecycle = [id \in NodeIds |->
                       IF id \in Bootstrapped THEN "Stopped" ELSE "Ready"]
      /\ health = lifecycle /\ setting = [id \in NodeIds |-> None]
      /\ pc = [id \in NodeIds |-> IF id \in Bootstrapped THEN "start" ELSE "built"]
  BY DEF Init, RegistryInit
<1>2. DOMAIN nodes = {} /\ DOMAIN view = {} /\ view \in Seq(Nodes)
  BY <1>1
<1>3. IsFiniteSet(DOMAIN nodes)
  BY <1>2, FS_EmptySet
<1>4. /\ lifecycle \in [NodeIds -> {"Starting", "Ready", "Draining", "Stopped"}]
      /\ health \in [NodeIds -> {"Starting", "Ready", "Stopping", "Stopped"}]
      /\ setting \in [NodeIds -> {None, "Starting", "Ready", "Draining", "Stopped"}]
      /\ pc \in [NodeIds -> BootSteps \cup Between]
  BY <1>1 DEF BootSteps, Between
<1>5. RegistryTypeOK
  BY <1>2 DEF RegistryTypeOK
<1>6. ASSUME NEW id \in NodeIds
      PROVE  ContextOK(id) /\ AtStep(id) /\ Advertised(id)
  <2>1. Gone(id)
    BY <1>2 DEF Gone
  <2>2. ContextOK(id)
    BY <1>1 DEF ContextOK, BootSteps, Between
  <2>3. AtStep(id)
    BY <1>1, <2>1 DEF AtStep, MayBe
  <2> QED
    BY <2>1, <2>2, <2>3 DEF Advertised, Gone
<1> QED
  BY <1>2, <1>3, <1>4, <1>5, <1>6 DEF ClusterInv

LEMMA ClusterStutter ==
  ASSUME ClusterInv, UNCHANGED vars
  PROVE  ClusterInv'
<1>1. /\ view' = view /\ nodes' = nodes
      /\ lifecycle' = lifecycle /\ health' = health /\ setting' = setting
      /\ pc' = pc
  BY DEF vars, contextVars
<1>2. \A id \in NodeIds : ContextOK(id)' /\ AtStep(id)' /\ Advertised(id)'
  <2> TAKE id \in NodeIds
  <2>1. ContextOK(id) /\ AtStep(id) /\ Advertised(id)
    BY DEF ClusterInv
  <2> QED
    BY <1>1, <2>1 DEF ContextOK, AtStep, Advertised, MayBe, StateIs, Gone
<1>3. \A i \in DOMAIN view : StillListed(i)'
  BY <1>1 DEF ClusterInv, StillListed, Gone
<1> QED
  BY <1>1, <1>2, <1>3 DEF ClusterInv, RegistryTypeOK

\* The steps of one context, and no other's.
OwnStep(id) ==
    \/ ChangeLifecycle(id)
    \/ ChangeHealth(id)
    \/ CallRegistry(id)
    \/ Shutdown(id)
    \/ Withdraw(id)
    \/ \E node \in Announced : node.id = id /\ Announce(node)

\* Every step but a look at the registry is a context's.
LEMMA NextIs ==
  ASSUME Next
  PROVE  LookUp \/ \E id \in NodeIds : OwnStep(id)
<1>1. ASSUME NEW node \in Announced, Announce(node)
      PROVE  \E id \in NodeIds : OwnStep(id)
  <2>1. node.id \in NodeIds
    BY ClusterAssumption DEF Nodes
  <2> QED
    BY <1>1, <2>1 DEF OwnStep
<1> QED
  BY <1>1 DEF Next, OwnStep

LEMMA NextClusterInv ==
  ASSUME ClusterInv, [Next]_vars
  PROVE  ClusterInv'
<1>1. ASSUME NEW id \in NodeIds, OwnStep(id) PROVE ClusterInv'
  BY <1>1, LifecycleChanges, HealthChanges, Registers, Unregisters,
     ShutdownBegins, Announces, Withdraws DEF OwnStep
<1> QED
  BY <1>1, Lists, ClusterStutter, NextIs

LEMMA ClusterInvariant == Spec => []ClusterInv
BY ClusterInit, NextClusterInv, PTL DEF Spec

-----------------------------------------------------------------------------
\* A context that has shut down has left no node behind, whoever registered
\* one for it before (ServerContext::shutdown, context.rs:112).
THEOREM StoppedIsAlwaysGone == Spec => []StoppedIsGone
<1>1. ClusterInv => StoppedIsGone
  BY DEF ClusterInv, AtStep, StoppedIsGone, Gone
<1> QED
  BY <1>1, ClusterInvariant, PTL

\* What a bootstrapped node advertises is the same from its first snapshot to
\* its last (register_state_with, register_node_state).
THEOREM AlwaysAdvertised == Spec => AdvertisedUnchanged
<1>1. ASSUME ClusterInv, [Next]_vars
      PROVE  [\A id \in Bootstrapped : id \in DOMAIN nodes \cap DOMAIN nodes' =>
                /\ nodes'[id].metadata = nodes[id].metadata
                /\ nodes'[id].capabilities = nodes[id].capabilities]_nodes
  <2>1. ClusterInv'
    BY <1>1, NextClusterInv
  <2>2. Bootstrapped \subseteq NodeIds
    BY ClusterAssumption
  <2>3. ASSUME NEW id \in Bootstrapped, id \in DOMAIN nodes \cap DOMAIN nodes'
        PROVE  /\ nodes'[id].metadata = nodes[id].metadata
               /\ nodes'[id].capabilities = nodes[id].capabilities
    <3>1. Advertised(id) /\ Advertised(id)'
      BY <1>1, <2>1, <2>2 DEF ClusterInv
    <3> QED
      BY <2>3, <3>1 DEF Advertised
  <2> QED
    BY <2>3
<1> QED
  BY <1>1, ClusterInvariant, PTL DEF Spec, AdvertisedUnchanged

\* Who lists the nodes again and again sees none that Bootstrap registers go
\* back to an earlier state of its life (MemoryNodeRegistry::list).
THEOREM ViewsOnlyAge == Spec => ViewOnlyAges
<1>1. ASSUME ClusterInv, [Next]_vars
      PROVE  [\A i \in DOMAIN view, j \in DOMAIN view' :
                view[i].id \in Bootstrapped /\ view[i].id = view'[j].id =>
                  Age[view[i].state] <= Age[view'[j].state]]_view
  <2>1. ASSUME LookUp, NEW i \in DOMAIN view, NEW j \in DOMAIN view',
               view[i].id \in Bootstrapped, view[i].id = view'[j].id
        PROVE  Age[view[i].state] <= Age[view'[j].state]
    <3>1. RegistryTypeOK /\ IsFiniteSet(DOMAIN nodes) /\ StillListed(i)
      BY <1>1, <2>1 DEF ClusterInv
    <3>2. view' = List
      BY <2>1 DEF LookUp
    <3>3. view'[j].id \in DOMAIN nodes /\ view'[j] = nodes[view'[j].id]
      BY <2>1, <3>1, <3>2, ListIs
    <3> QED
      BY <2>1, <3>1, <3>3 DEF StillListed, Gone
  <2>2. CASE UNCHANGED view
    BY <2>2
  <2>3. CASE \E id \in NodeIds : OwnStep(id)
    BY <2>3 DEF OwnStep, ChangeLifecycle, ChangeHealth, CallRegistry, Shutdown,
                Announce, Withdraw
  <2> QED
    BY <1>1, <2>1, <2>2, <2>3, NextIs DEF vars
<1> QED
  BY <1>1, ClusterInvariant, PTL DEF Spec, ViewOnlyAges

-----------------------------------------------------------------------------
\* The state of a node, and of the threads of its process.
LEMMA StateOfIs ==
  ASSUME RegistryTypeOK, NEW id
  PROVE  /\ Gone(id) => StateOf(id) = None
         /\ \A state : StateIs(id, state) => StateOf(id) = state
         /\ StateOf(id) \in NodeStates \cup {None}
<1>1. CASE id \in DOMAIN nodes
  <2>1. nodes[id] \in Nodes /\ nodes[id].state \in NodeStates
    BY <1>1, NodeIs
  <2>2. nodes[id] # None
    BY <2>1, ClusterAssumption
  <2>3. Get(id) = nodes[id]
    BY <1>1 DEF Get
  <2>4. StateOf(id) = nodes[id].state
    BY <2>2, <2>3 DEF StateOf
  <2> QED
    BY <1>1, <2>1, <2>4 DEF Gone, StateIs
<1>2. CASE id \notin DOMAIN nodes
  BY <1>2 DEF Gone, StateIs, StateOf, Get
<1> QED
  BY <1>1, <1>2

LEMMA ProcessTypes ==
  ASSUME ClusterInv, NEW id \in NodeIds
  PROVE  Process(id)!TypeOK
<1>1. /\ RegistryTypeOK
      /\ lifecycle[id] \in {"Starting", "Ready", "Draining", "Stopped"}
      /\ health[id] \in {"Starting", "Ready", "Stopping", "Stopped"}
      /\ setting[id] \in {None, "Starting", "Ready", "Draining", "Stopped"}
      /\ pc[id] \in BootSteps \cup Between
  BY DEF ClusterInv
<1>2. OwnNode(id) \in NodeStates \cup {None}
  BY <1>1, StateOfIs DEF OwnNode, NodeStates
<1>3. Process(id)!LifecycleTypeOK
  BY <1>1 DEF Process!LifecycleTypeOK, Process!LifecycleStates,
              Process!HealthStates
<1>4. OwnNode(id) \in Process(id)!NodeStates \cup {None}
  BY <1>2 DEF NodeStates, Process!NodeStates
<1>5. (IF pc[id] = "built" THEN "idle" ELSE pc[id])
        \in Process(id)!Steps \cup {"idle", "built", "stopped", "refused", "failed"}
  <2>1. Process(id)!Steps =
          {"start", "register_starting", "register_ready", "ready",
           "begin_shutdown", "register_draining", "register_offline",
           "unregister", "stop"}
    BY DEF Process!Steps, Process!AfterBoot, Process!AfterShutdown
  <2> QED
    BY <1>1, <2>1 DEF BootSteps, Between
<1> QED
  BY <1>3, <1>4, <1>5 DEF Process!TypeOK

\* Every snapshot is well formed and so is every context (Nodes, ServerProcess).
THEOREM ClusterTypes == Spec => []TypeOK
<1>1. ClusterInv => TypeOK
  BY ProcessTypes DEF ClusterInv, TypeOK
<1> QED
  BY <1>1, ClusterInvariant, PTL

-----------------------------------------------------------------------------
\* The two threads of a context, as its process sees them.
SettingOf(id) == [t \in {Boot, Caller} |->
                    IF t = ThreadOf(id) THEN setting[id] ELSE None]
PcOf(id) == [t \in {Boot, Caller} |->
               IF t = ThreadOf(id) THEN IF pc[id] = "built" THEN "idle" ELSE pc[id]
               ELSE IF t = Boot THEN "built" ELSE "idle"]

\* A step that is not its own leaves a process as it is.
LEMMA OtherStep ==
  ASSUME NEW id, RegistryTypeOK, RegistryTypeOK', SameNode(id),
         UNCHANGED <<lifecycle[id], health[id], setting[id], pc[id]>>
  PROVE  UNCHANGED Process(id)!vars
<1>1. OwnNode(id)' = OwnNode(id)
  BY DEF SameNode, OwnNode, StateOf, Get
<1>2. ThreadOf(id)' = ThreadOf(id)
  BY DEF ThreadOf, IsBooting
<1>3. SettingOf(id)' = SettingOf(id)
  BY <1>2 DEF SettingOf
<1>4. PcOf(id)' = PcOf(id)
  BY <1>2 DEF PcOf
<1> QED
  BY <1>1, <1>3, <1>4 DEF Process!vars, Process!lifecycleVars, Process!processVars,
     SettingOf, PcOf

LEMMA ProcessInit ==
  ASSUME Init, NEW id \in Bootstrapped
  PROVE  Process(id)!Init
<1>1. /\ nodes = <<>> /\ id \in NodeIds
      /\ lifecycle[id] = "Stopped" /\ health[id] = "Stopped"
      /\ setting[id] = None /\ pc[id] = "start"
  BY ClusterAssumption DEF Init, RegistryInit
<1>2. OwnNode(id) = None
  BY <1>1 DEF OwnNode, Composed, StateOf, Get
<1>3. ThreadOf(id) = Boot
  BY <1>1 DEF ThreadOf, IsBooting, BootSteps
<1>4. SettingOf(id) = [t \in {Boot, Caller} |-> None]
  BY <1>1 DEF SettingOf
<1>5. PcOf(id) = [t \in {Boot, Caller} |-> IF t = Boot THEN "start" ELSE "idle"]
  BY <1>1, <1>3 DEF PcOf, Boot, Caller
<1> QED
  BY <1>1, <1>2, <1>4, <1>5
     DEF Process!Init, Process!LifecycleInit, Process!HealthFor, SettingOf, PcOf

LEMMA ProcessChangesLifecycle ==
  ASSUME ClusterInv, NEW id \in NodeIds, NEW t, t = ThreadOf(id), ChangeLifecycle(id)
  PROVE  Process(id)!ChangeLifecycle(t)
<1>1. t = ThreadOf(id)
  OBVIOUS
<1>2. PICK g : g = Process(id)!Target(pc[id])
  OBVIOUS
<1>3. /\ lifecycle \in [NodeIds -> {"Starting", "Ready", "Draining", "Stopped"}]
      /\ setting \in [NodeIds -> {None, "Starting", "Ready", "Draining", "Stopped"}]
  BY DEF ClusterInv
<1>4. /\ pc[id] \in Process(id)!Operations
      /\ setting[id] = None
      /\ lifecycle[id] \in Process(id)!AllowedFrom(pc[id])
      /\ lifecycle' = [lifecycle EXCEPT ![id] = g]
      /\ setting' = [setting EXCEPT ![id] = g]
      /\ nodes' = nodes /\ health' = health /\ pc' = pc
  BY <1>2 DEF ChangeLifecycle
<1>5. /\ lifecycle'[id] = g /\ setting'[id] = g /\ health'[id] = health[id]
  BY <1>3, <1>4
<1>6. t \in {Boot, Caller} /\ ThreadOf(id)' = t
  BY <1>1, <1>4 DEF ThreadOf, IsBooting
<1>7. pc[id] # "built"
  BY <1>4, Chains DEF Locked
<1>8. PcOf(id)[t] = pc[id] /\ PcOf(id)' = PcOf(id)
  BY <1>1, <1>4, <1>6, <1>7 DEF PcOf
<1>9. \A u \in {Boot, Caller} : SettingOf(id)[u] = None
  BY <1>4 DEF SettingOf
<1>10. SettingOf(id)' = [SettingOf(id) EXCEPT ![t] = g]
  BY <1>4, <1>5, <1>6, <1>1 DEF SettingOf
<1>11. OwnNode(id)' = OwnNode(id)
  BY <1>4 DEF OwnNode, StateOf, Get
<1>12. /\ PcOf(id)[t] \in Process(id)!Operations
       /\ SettingOf(id)[t] = None
       /\ lifecycle[id] \in Process(id)!AllowedFrom(PcOf(id)[t])
       /\ g = Process(id)!Target(PcOf(id)[t])
  BY <1>2, <1>4, <1>6, <1>8, <1>9
<1> QED
  BY <1>1, <1>5, <1>8, <1>9, <1>10, <1>11, <1>12
     DEF Process!ChangeLifecycle, Process!Transition, Process!Allowed, Process!Free,
         Process!processVars, SettingOf, PcOf

LEMMA ProcessChangesHealth ==
  ASSUME ClusterInv, NEW id \in NodeIds, NEW t, t = ThreadOf(id), ChangeHealth(id)
  PROVE  Process(id)!ChangeHealth(t)
<1>1. t = ThreadOf(id)
  OBVIOUS
<1>2. PICK h : h = Process(id)!HealthFor(setting[id])
  OBVIOUS
<1>3. PICK p : p = Following(id)
  OBVIOUS
<1>4. /\ health \in [NodeIds -> {"Starting", "Ready", "Stopping", "Stopped"}]
      /\ setting \in [NodeIds -> {None, "Starting", "Ready", "Draining", "Stopped"}]
      /\ pc \in [NodeIds -> BootSteps \cup Between]
      /\ ContextOK(id)
  BY DEF ClusterInv
<1>5. /\ setting[id] # None
      /\ health' = [health EXCEPT ![id] = h]
      /\ setting' = [setting EXCEPT ![id] = None]
      /\ pc' = [pc EXCEPT ![id] = p]
      /\ nodes' = nodes /\ lifecycle' = lifecycle
  BY <1>2, <1>3 DEF ChangeHealth
<1>6. /\ health'[id] = h /\ setting'[id] = None /\ pc'[id] = p
      /\ lifecycle'[id] = lifecycle[id]
  BY <1>4, <1>5
<1>7. pc[id] \in Locked
  BY <1>4, <1>5 DEF ContextOK
<1>8. /\ pc[id] = "start" => p = "register_starting"
      /\ pc[id] = "ready" => p = "built"
      /\ pc[id] = "begin_shutdown" => p = "register_draining"
      /\ pc[id] = "stop" => p = "stopped"
  BY <1>3, FollowingIs
<1>9. t \in {Boot, Caller} /\ SettingOf(id)[t] = setting[id]
      /\ PcOf(id)[t] = pc[id]
  BY <1>1, <1>7 DEF ThreadOf, IsBooting, SettingOf, PcOf, Locked
<1>10. SettingOf(id)' = [SettingOf(id) EXCEPT ![t] = None]
  BY <1>1, <1>6 DEF SettingOf
<1>11. PcOf(id)' = [PcOf(id) EXCEPT ![t] = p]
  BY <1>1, <1>6, <1>7, <1>8
     DEF PcOf, ThreadOf, IsBooting, BootSteps, Locked, Boot, Caller
<1>12. OwnNode(id)' = OwnNode(id)
  <2>1. id \in Composed => (pc'[id] \in NotYetWritten <=> pc[id] \in NotYetWritten)
    BY <1>4, <1>6, <1>7, <1>8
       DEF ContextOK, Composed, BootSteps, Locked, NotYetWritten
  <2> QED
    BY <1>5, <2>1 DEF OwnNode, StateOf, Get
<1>13. p = Process(id)!After(PcOf(id)[t])
  BY <1>3, <1>9 DEF Following
<1>14. h = Process(id)!HealthFor(SettingOf(id)[t])
  BY <1>2, <1>9
<1> QED
  BY <1>1, <1>5, <1>6, <1>9, <1>10, <1>11, <1>12, <1>13, <1>14
     DEF Process!ChangeHealth, Process!SetHealth, SettingOf, PcOf

LEMMA ProcessCallsRegistry ==
  ASSUME ClusterInv, NEW id \in NodeIds, NEW t, t = ThreadOf(id), CallRegistry(id)
  PROVE  Process(id)!CallRegistry(t)
<1>1. t = ThreadOf(id)
  OBVIOUS
<1>2. PICK w : w = Process(id)!Writes[pc[id]]
  OBVIOUS
<1>3. PICK p : p = Following(id)
  OBVIOUS
<1>4. /\ pc \in [NodeIds -> BootSteps \cup Between] /\ ContextOK(id)
      /\ RegistryTypeOK /\ IsFiniteSet(DOMAIN nodes)
  BY DEF ClusterInv
<1>5. /\ pc[id] \in Process(id)!RegistrySteps
      /\ pc' = [pc EXCEPT ![id] = p]
      /\ lifecycle' = lifecycle /\ health' = health /\ setting' = setting
  BY <1>3 DEF CallRegistry
<1>6. /\ pc'[id] = p
      /\ pc[id] \in {"register_starting", "register_ready", "register_draining",
                     "register_offline", "unregister"}
  BY <1>4, <1>5, Chains
<1>7. /\ pc[id] = "register_starting" => p = "register_ready" /\ w = "Starting"
      /\ pc[id] = "register_ready" => p = "ready" /\ w = "Ready"
      /\ pc[id] = "register_draining" => p = "register_offline" /\ w = "Draining"
      /\ pc[id] = "register_offline" => p = "unregister" /\ w = "Offline"
      /\ pc[id] = "unregister" => p = "stop" /\ w = None
  BY <1>2, <1>3, FollowingIs, Targets
<1>8. t \in {Boot, Caller} /\ ThreadOf(id)' = t
  BY <1>1, <1>6, <1>7 DEF ThreadOf, IsBooting, BootSteps
<1>9. PcOf(id)[t] = pc[id]
  BY <1>1, <1>6, <1>8 DEF PcOf
<1>10. PcOf(id)' = [PcOf(id) EXCEPT ![t] = p]
  BY <1>1, <1>6, <1>7, <1>8 DEF PcOf
<1>11. SettingOf(id)' = SettingOf(id)
  BY <1>1, <1>5, <1>8 DEF SettingOf
<1>12. OwnNode(id)' = w
  <2>0. SUFFICES StateOf(id)' = w
    BY <1>4, <1>6, <1>7
       DEF OwnNode, NotYetWritten, ContextOK, Composed, BootSteps
  <2>1. CASE pc[id] = "unregister"
    <3>1. Unregister(id)
      BY <2>1 DEF CallRegistry
    <3>2. DOMAIN nodes' = DOMAIN nodes \ {id}
      BY <1>4, <3>1, UnregisterIs
    <3> QED
      BY <1>7, <2>1, <3>2 DEF StateOf, Get
  <2>2. CASE pc[id] # "unregister"
    <3>1. PICK n : n = Snapshot(id, w)
      OBVIOUS
    <3>2. Register(n)
      BY <1>2, <2>2, <3>1 DEF CallRegistry
    <3>3. w \in NodeStates
      BY <1>6, <1>7, <2>2 DEF NodeStates
    <3>4. n \in Nodes /\ IsValidNode(n) /\ n.id = id /\ n.state = w
      BY <1>4, <3>1, <3>3, SnapshotIs
    <3>5. id \in DOMAIN nodes' /\ nodes'[id] = n
      BY <1>4, <3>2, <3>4, RegisterIs
    <3>6. n # None
      BY <3>4, ClusterAssumption
    <3> QED
      BY <3>4, <3>5, <3>6 DEF StateOf, Get
  <2> QED
    BY <2>1, <2>2
<1>13. /\ PcOf(id)[t] \in Process(id)!RegistrySteps
       /\ p = Process(id)!After(PcOf(id)[t])
       /\ w = Process(id)!Writes[PcOf(id)[t]]
  BY <1>2, <1>3, <1>5, <1>9 DEF Following
<1> QED
  BY <1>1, <1>5, <1>8, <1>10, <1>11, <1>12, <1>13
     DEF Process!CallRegistry, Process!lifecycleVars, SettingOf, PcOf

LEMMA ProcessShutsDown ==
  ASSUME ClusterInv, NEW id \in NodeIds, Shutdown(id)
  PROVE  Process(id)!Shutdown(Caller)
<1>1. /\ pc \in [NodeIds -> BootSteps \cup Between]
      /\ pc[id] = "built" /\ pc' = [pc EXCEPT ![id] = "begin_shutdown"]
      /\ nodes' = nodes /\ lifecycle' = lifecycle /\ health' = health
      /\ setting' = setting
  BY DEF ClusterInv, Shutdown
<1>2. pc'[id] = "begin_shutdown"
  BY <1>1
<1>3. ThreadOf(id) = Caller /\ ThreadOf(id)' = Caller
  BY <1>1, <1>2 DEF ThreadOf, IsBooting, BootSteps
<1>4. PcOf(id)[Boot] = "built" /\ PcOf(id)[Caller] = "idle"
  BY <1>1, <1>3 DEF PcOf, Boot, Caller
<1>5. PcOf(id)' = [PcOf(id) EXCEPT ![Caller] = "begin_shutdown"]
  BY <1>1, <1>2, <1>3 DEF PcOf, Boot, Caller
<1>6. SettingOf(id)' = SettingOf(id)
  BY <1>1, <1>3 DEF SettingOf
<1>7. OwnNode(id)' = OwnNode(id)
  BY <1>1, <1>2 DEF OwnNode, NotYetWritten, StateOf, Get
<1>8. Caller \in Process(id)!Callers
  BY DEF Process!Callers, Boot, Caller
<1> QED
  BY <1>1, <1>4, <1>5, <1>6, <1>7, <1>8
     DEF Process!Shutdown, Process!lifecycleVars, SettingOf, PcOf

\* What its owner does with a composed context's node is no step of its process.
LEMMA OwnersStep ==
  ASSUME ClusterInv, NEW id \in Composed, pc[id] = "built",
         UNCHANGED contextVars
  PROVE  UNCHANGED Process(id)!vars
<1>1. /\ lifecycle' = lifecycle /\ health' = health /\ setting' = setting
      /\ pc' = pc
  BY DEF contextVars
<1>2. OwnNode(id)' = OwnNode(id)
  BY <1>1 DEF OwnNode, NotYetWritten
<1>3. SettingOf(id)' = SettingOf(id) /\ PcOf(id)' = PcOf(id)
  BY <1>1 DEF SettingOf, PcOf, ThreadOf, IsBooting
<1> QED
  BY <1>1, <1>2, <1>3 DEF Process!vars, Process!lifecycleVars, Process!processVars,
     SettingOf, PcOf

\* A step of a context is one of its process, or its owner's.
LEMMA ProcessStep ==
  ASSUME ClusterInv, NEW id \in NodeIds, OwnStep(id)
  PROVE  [Process(id)!Next]_(Process(id)!vars)
<1>1. PICK t \in {Boot, Caller} : t = ThreadOf(id)
  BY DEF ThreadOf
<1>2. CASE Shutdown(id)
  BY <1>2, ProcessShutsDown DEF Process!Next
<1>3. CASE ChangeLifecycle(id) \/ ChangeHealth(id) \/ CallRegistry(id)
  <2>1. Process(id)!Proceed(t)
    BY <1>1, <1>3, ProcessChangesLifecycle, ProcessChangesHealth,
       ProcessCallsRegistry DEF Process!Proceed
  <2> QED
    BY <2>1 DEF Process!Next
<1>4. CASE Withdraw(id) \/ \E node \in Announced : node.id = id /\ Announce(node)
  <2>1. id \in Composed /\ pc[id] = "built" /\ UNCHANGED contextVars
    BY <1>4 DEF Withdraw, Announce
  <2> QED
    BY <2>1, OwnersStep
<1> QED
  BY <1>2, <1>3, <1>4 DEF OwnStep

\* The other contexts' steps and the lists leave it alone.
LEMMA StepOfAnother ==
  ASSUME ClusterInv, NEW id \in NodeIds, NEW k \in NodeIds \ {id}, OwnStep(k)
  PROVE  UNCHANGED Process(id)!vars
<1>1. /\ RegistryTypeOK /\ IsFiniteSet(DOMAIN nodes) /\ ContextOK(k)
      /\ lifecycle \in [NodeIds -> {"Starting", "Ready", "Draining", "Stopped"}]
      /\ health \in [NodeIds -> {"Starting", "Ready", "Stopping", "Stopped"}]
      /\ setting \in [NodeIds -> {None, "Starting", "Ready", "Draining", "Stopped"}]
      /\ pc \in [NodeIds -> BootSteps \cup Between]
  BY Before
<1>2. RegistryTypeOK'
  <2>1. ClusterInv'
    BY LifecycleChanges, HealthChanges, Registers, Unregisters, ShutdownBegins,
       Announces, Withdraws DEF OwnStep
  <2> QED
    BY <2>1 DEF ClusterInv
<1>3. UNCHANGED <<lifecycle[id], health[id], setting[id], pc[id]>>
  <2>1. CASE ChangeLifecycle(k)
    BY <1>1, <2>1 DEF ChangeLifecycle
  <2>2. CASE ChangeHealth(k)
    BY <1>1, <2>2 DEF ChangeHealth
  <2>3. CASE CallRegistry(k)
    BY <1>1, <2>3 DEF CallRegistry
  <2>4. CASE Shutdown(k)
    BY <1>1, <2>4 DEF Shutdown
  <2>5. CASE Withdraw(k) \/ \E node \in Announced : node.id = k /\ Announce(node)
    BY <2>5 DEF Withdraw, Announce, contextVars
  <2> QED
    BY <2>1, <2>2, <2>3, <2>4, <2>5 DEF OwnStep
<1>4. SameNode(id)
  <2>1. ASSUME NEW n, n.id = k, Register(n) PROVE SameNode(id)
    BY <2>1 DEF Register, SameNode
  <2>2. ASSUME Unregister(k) PROVE SameNode(id)
    BY <1>1, <2>2, UnregisterIs DEF SameNode
  <2>3. CASE CallRegistry(k) /\ pc[k] = "unregister"
    BY <2>2, <2>3 DEF CallRegistry
  <2>4. CASE CallRegistry(k) /\ pc[k] # "unregister"
    <3>1. PICK state : Register(Snapshot(k, state))
      BY <2>4 DEF CallRegistry
    <3>2. Snapshot(k, state).id = k
      BY DEF Snapshot, Configured, LocalNode, NewNode
    <3> QED
      BY <2>1, <3>1, <3>2
  <2>5. CASE \E node \in Announced : node.id = k /\ Announce(node)
    BY <2>1, <2>5 DEF Announce
  <2>7. CASE Withdraw(k)
    BY <2>2, <2>7 DEF Withdraw
  <2>6. CASE UNCHANGED nodes
    BY <2>6 DEF SameNode
  <2> QED
    BY <2>3, <2>4, <2>5, <2>6, <2>7
       DEF OwnStep, ChangeLifecycle, ChangeHealth, Shutdown
<1> QED
  BY <1>1, <1>2, <1>3, <1>4, OtherStep

\* Whatever the other contexts do to the registry, each one implements
\* ServerProcess, from its start or, if it was composed, from where bootstrap
\* would have left it (Bootstrap::build_with, ServerContext).
THEOREM ContextsAreProcesses == Spec => EachIsAProcess
<1>1. ASSUME Init PROVE \A id \in Bootstrapped : Process(id)!Init
  BY <1>1, ProcessInit
<1>2. ASSUME ClusterInv, [Next]_vars, NEW id \in NodeIds
      PROVE  [Process(id)!Next]_(Process(id)!vars)
  <2>1. CASE OwnStep(id)
    BY <1>2, <2>1, ProcessStep
  <2>2. ASSUME NEW k \in NodeIds \ {id}, OwnStep(k)
        PROVE  UNCHANGED Process(id)!vars
    BY <1>2, <2>2, StepOfAnother
  <2>3. CASE LookUp \/ UNCHANGED vars
    <3>1. /\ nodes' = nodes /\ lifecycle' = lifecycle /\ health' = health
          /\ setting' = setting /\ pc' = pc
      BY <2>3 DEF LookUp, vars, contextVars
    <3>2. RegistryTypeOK /\ RegistryTypeOK'
      BY <1>2, <3>1 DEF ClusterInv, RegistryTypeOK
    <3> QED
      BY <1>2, <3>1, <3>2, OtherStep DEF SameNode
  <2> QED
    BY <1>2, <2>1, <2>2, <2>3, NextIs
<1>3. ASSUME ClusterInv, [Next]_vars
      PROVE  [\A id \in NodeIds : [Process(id)!Next]_(Process(id)!vars)]_vars
  BY <1>2, <1>3
<1> QED
  BY <1>1, <1>3, ClusterInvariant, PTL DEF Spec, EachIsAProcess
=============================================================================
