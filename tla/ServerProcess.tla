---------------------------- MODULE ServerProcess ----------------------------
(***************************************************************************)
(* One server process of orbitrelay-server: Bootstrap takes it from        *)
(* nothing to a ServerContext (bootstrap.rs), whose clones execute actions *)
(* and may be told to shut down by several tasks at once (context.rs).     *)
(* Every one of these is a chain of steps that change the lifecycle and    *)
(* the node's snapshot in the node registry.                               *)
(*                                                                         *)
(* The registry is a port: MemoryNodeRegistry (orbitrelay-node, memory.rs) *)
(* replaces or removes the snapshot under one lock and fails only when     *)
(* that is poisoned; another one may fail before or after it has changed   *)
(* anything.  A task's caller may also drop it while it awaits the         *)
(* registry.                                                               *)
(***************************************************************************)
EXTENDS ServerLifecycle

CONSTANTS Boot,            \* the thread that runs Bootstrap::build
          Workers,         \* tasks that execute actions
          RegistryFails    \* registry calls may fail or be abandoned

NodeStates == {"Starting", "Ready", "Draining", "Offline"}

ASSUME ProcessAssumption ==
    /\ Boot \in Threads
    /\ RegistryFails \in BOOLEAN
    /\ None \notin NodeStates

Callers == Threads \ {Boot}

VARIABLES
    pc,        \* the next step of a thread
    node,      \* the state in the node's snapshot, None if not registered
    working    \* the workers that are executing an action

processVars == <<pc, node, working>>
vars == <<lifecycleVars, processVars>>

\* The steps that call the registry, and what each of them writes.
Writes == [register_starting |-> "Starting", register_ready |-> "Ready",
           register_draining |-> "Draining", register_offline |-> "Offline",
           unregister |-> None]

RegistrySteps == DOMAIN Writes

\* Mutant: the process is ready before its node is registered as such.
ReadyFirst == [start |-> "register_starting", register_starting |-> "ready",
               ready |-> "register_ready", register_ready |-> "built"]

\* The order of the steps of build_with.
AfterBoot == [start |-> "register_starting",
              register_starting |-> "register_ready",
              register_ready |-> "ready", ready |-> "built"]

\* Mutant: shutdown forgets to stop.
ForgetStop == [begin_shutdown |-> "register_draining",
               register_draining |-> "register_offline",
               register_offline |-> "unregister", unregister |-> "stopped",
               stop |-> "stopped"]

\* Mutant: a node is offline before it drains.
OfflineFirst == [begin_shutdown |-> "register_offline",
                 register_offline |-> "register_draining",
                 register_draining |-> "unregister", unregister |-> "stop",
                 stop |-> "stopped"]

\* The order of the steps of shutdown.
AfterShutdown == [begin_shutdown |-> "register_draining",
                  register_draining |-> "register_offline",
                  register_offline |-> "unregister", unregister |-> "stop",
                  stop |-> "stopped"]

Steps == DOMAIN AfterBoot \cup DOMAIN AfterShutdown
After(step) == IF step \in DOMAIN AfterBoot THEN AfterBoot[step]
                                            ELSE AfterShutdown[step]

TypeOK ==
    /\ LifecycleTypeOK
    /\ pc \in [Threads -> Steps \cup
                 {"idle", "built", "stopped", "refused", "failed"}]
    /\ node \in NodeStates \cup {None}
    /\ working \subseteq Workers

Init ==
    /\ LifecycleInit
    /\ pc = [t \in Threads |-> IF t = Boot THEN "start" ELSE "idle"]
    /\ node = None
    /\ working = {}

\* A thread's pc is the name of the lifecycle method it is calling.
ChangeLifecycle(t) ==
    /\ pc[t] \in Operations
    /\ setting[t] = None
    /\ Transition(t, pc[t])
    /\ UNCHANGED processVars

ChangeHealth(t) ==
    /\ SetHealth(t)
    /\ pc' = [pc EXCEPT ![t] = After(@)]
    /\ UNCHANGED <<node, working>>

\* LifecycleError ends the chain; the registry is left alone.
BeRefused(t) ==
    /\ pc[t] \in Operations
    /\ setting[t] = None
    /\ Refused(pc[t])
    /\ pc' = [pc EXCEPT ![t] = "refused"]
    /\ UNCHANGED <<lifecycleVars, node, working>>

CallRegistry(t) ==
    /\ pc[t] \in RegistrySteps
    /\ node' = Writes[pc[t]]
    /\ pc' = [pc EXCEPT ![t] = After(@)]
    /\ UNCHANGED <<lifecycleVars, working>>

\* The call fails, or its task is dropped while it waits: the chain ends here.
LoseRegistryCall(t) ==
    /\ RegistryFails
    /\ pc[t] \in RegistrySteps
    /\ node' \in {node, Writes[pc[t]]}
    /\ pc' = [pc EXCEPT ![t] = "failed"]
    /\ UNCHANGED <<lifecycleVars, working>>

\* ServerContext::shutdown is called, perhaps not for the first time.
Shutdown(t) ==
    /\ t \in Callers
    /\ pc[Boot] = "built"
    /\ pc[t] \in {"idle", "refused", "failed"}
    /\ pc' = [pc EXCEPT ![t] = "begin_shutdown"]
    /\ UNCHANGED <<lifecycleVars, node, working>>

\* Runtime::execute never asks for the lifecycle.
StartWork(w) ==
    /\ pc[Boot] = "built"
    /\ w \notin working
    /\ working' = working \cup {w}
    /\ UNCHANGED <<lifecycleVars, pc, node>>

FinishWork(w) ==
    /\ w \in working
    /\ working' = working \ {w}
    /\ UNCHANGED <<lifecycleVars, pc, node>>

\* The steps a thread takes on its own once it has begun.
Proceed(t) ==
    \/ ChangeLifecycle(t)
    \/ ChangeHealth(t)
    \/ BeRefused(t)
    \/ CallRegistry(t)

Next ==
    \/ \E t \in Threads : Proceed(t) \/ LoseRegistryCall(t) \/ Shutdown(t)
    \/ \E w \in Workers : StartWork(w) \/ FinishWork(w)

Spec == Init /\ [][Next]_vars

\* Tasks that have begun are polled to the end; nobody has to begin.
FairSpec == Spec /\ \A t \in Threads : WF_vars(Proceed(t))

(***************************************************************************)
(* Properties                                                              *)
(***************************************************************************)
\* The threads between begin_shutdown and the end of stop.
ShuttingDown ==
    {t \in Threads :
        \/ pc[t] \in {"register_draining", "register_offline", "unregister",
                      "stop"}
        \/ pc[t] = "begin_shutdown" /\ setting[t] # None}

\* What the registry says of the node never contradicts the process: a ready
\* process is registered as ready, a node registered as draining or offline
\* belongs to a draining process, and a process that has shut down has left
\* no snapshot behind, whichever of its callers got how far.
NodeMatchesProcess ==
    /\ lifecycle = "Ready" => node = "Ready"
    /\ node \in {"Draining", "Offline"} => lifecycle = "Draining"
    /\ lifecycle = "Stopped" => node = None

\* The node's snapshot goes through the states of its life once, in their
\* order: shutdowns that race, fail half way or are retried never bring an
\* earlier state, or an unregistered node, back.
NodeLife ==
    {<<None, "Starting">>, <<"Starting", "Ready">>, <<"Ready", "Draining">>,
     <<"Draining", "Offline">>, <<"Offline", None>>}
NodeOnlyAgesOnce == [][(<<node, node'>> \in NodeLife)]_node

\* A task that has begun to shut down stops the process, or its own call of
\* the registry fails: whoever else asks for a shutdown meanwhile, and is
\* refused, does not hold it up (context.rs:112).
ShutdownStops ==
    \A t \in Threads :
        t \in ShuttingDown ~> lifecycle = "Stopped" \/ pc[t] = "failed"

\* "Graceful shutdown is in progress" (lifecycle.rs:17): somebody is at it.
DrainingIsInProgress == lifecycle = "Draining" => ShuttingDown # {}

\* "Gracefully drains, unregisters, and stops" (context.rs:112): an action
\* whose execution began before the process stopped has ended by then, and
\* none begins later.
StoppedIsQuiet ==
    pc[Boot] = "built" /\ lifecycle = "Stopped" => working = {}

=============================================================================
