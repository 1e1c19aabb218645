------------------------- MODULE ServerProcessProofs -------------------------
(***************************************************************************)
(* Theorems about bootstrap and shutdown, for any number of tasks that     *)
(* shut the process down and a registry that may fail at every call, and   *)
(* about the lifecycle they share, whoever calls its methods.              *)
(***************************************************************************)
EXTENDS ServerProcess, LifecycleClients, TLAPS

USE LifecycleAssumption, ProcessAssumption
USE DEF LifecycleStates, NodeStates, Operations

-----------------------------------------------------------------------------
\* A thread between its two writes has set the state that is there.
Setters ==
    /\ \A t, u \in Threads : setting[t] # None /\ setting[u] # None => t = u
    /\ \A t \in Threads : setting[t] # None =>
         pc[t] \in Operations /\ setting[t] = Target(pc[t])

\* What is true at each step of bootstrap; until it is done nobody has a
\* context to shut down.
Booting ==
    /\ pc[Boot] \in DOMAIN AfterBoot \cup {"built", "failed"}
    /\ pc[Boot] # "built" => \A t \in Callers : pc[t] = "idle"
    /\ pc[Boot] = "start" =>
         /\ node = None
         /\ lifecycle = IF setting[Boot] = None THEN "Stopped" ELSE "Starting"
    /\ pc[Boot] = "register_starting" => node = None /\ lifecycle = "Starting"
    /\ pc[Boot] = "register_ready" =>
         node = "Starting" /\ lifecycle = "Starting"
    /\ pc[Boot] = "ready" =>
         /\ node = "Ready"
         /\ lifecycle = IF setting[Boot] = None THEN "Starting" ELSE "Ready"
    /\ pc[Boot] = "failed" =>
         lifecycle = "Starting" /\ node \in {None, "Starting", "Ready"}
    /\ pc[Boot] = "built" =>
         /\ lifecycle \in {"Ready", "Draining", "Stopped"}
         /\ lifecycle = "Ready" => node = "Ready"
         /\ lifecycle = "Stopped" => node = None

\* What is true at each step of a shutdown: the thread that has passed
\* begin_shutdown is the only one, and the node's snapshot is where this
\* thread has left it.
Closing ==
    /\ \A t, u \in ShuttingDown : t = u
    /\ \A t \in Callers :
         /\ pc[t] \in DOMAIN AfterShutdown
                        \cup {"idle", "stopped", "refused", "failed"}
         /\ pc[t] = "begin_shutdown" /\ setting[t] # None =>
              node = "Ready" /\ lifecycle = "Draining"
         /\ pc[t] = "register_draining" =>
              node = "Ready" /\ lifecycle = "Draining"
         /\ pc[t] = "register_offline" =>
              node = "Draining" /\ lifecycle = "Draining"
         /\ pc[t] = "unregister" =>
              node = "Offline" /\ lifecycle = "Draining"
         /\ pc[t] = "stop" =>
              /\ node = None
              /\ lifecycle =
                   IF setting[t] = None THEN "Draining" ELSE "Stopped"

Inv == TypeOK /\ Setters /\ Booting /\ Closing

-----------------------------------------------------------------------------
\* The chains of steps, spelled out.
LEMMA Chains ==
  /\ DOMAIN AfterBoot =
       {"start", "register_starting", "register_ready", "ready"}
  /\ DOMAIN AfterShutdown =
       {"begin_shutdown", "register_draining", "register_offline",
        "unregister", "stop"}
  /\ RegistrySteps =
       {"register_starting", "register_ready", "register_draining",
        "register_offline", "unregister"}
  /\ After("start") = "register_starting"
  /\ After("register_starting") = "register_ready"
  /\ After("register_ready") = "ready"
  /\ After("ready") = "built"
  /\ After("begin_shutdown") = "register_draining"
  /\ After("register_draining") = "register_offline"
  /\ After("register_offline") = "unregister"
  /\ After("unregister") = "stop"
  /\ After("stop") = "stopped"
  /\ Writes["register_starting"] = "Starting"
  /\ Writes["register_ready"] = "Ready"
  /\ Writes["register_draining"] = "Draining"
  /\ Writes["register_offline"] = "Offline"
  /\ Writes["unregister"] = None
BY DEF AfterBoot, AfterShutdown, RegistrySteps, After, Writes

LEMMA Targets ==
  /\ Target("start") = "Starting" /\ AllowedFrom("start") = {"Stopped"}
  /\ Target("ready") = "Ready" /\ AllowedFrom("ready") = {"Starting"}
  /\ Target("begin_shutdown") = "Draining"
  /\ AllowedFrom("begin_shutdown") = {"Starting", "Ready"}
  /\ Target("stop") = "Stopped" /\ AllowedFrom("stop") = {"Draining"}
BY DEF Target, AllowedFrom

LEMMA InitInv == Init => Inv
BY Chains DEF Init, LifecycleInit, HealthFor, Inv, TypeOK, LifecycleTypeOK,
   HealthStates, Steps, Setters, Booting, Closing, ShuttingDown, Callers

\* Who is where while a shutdown is in progress.
LEMMA Places ==
  ASSUME Inv
  PROVE  /\ \A t \in Threads : t = Boot \/ t \in Callers
         /\ \A t \in Callers : t \in Threads /\ t # Boot
         /\ \A t \in Callers : pc[t] # "idle" => pc[Boot] = "built"
         /\ ShuttingDown # {} => lifecycle \in {"Draining", "Stopped"}
         /\ \A t \in ShuttingDown : t \in Callers /\ pc[Boot] = "built"
<1>1. /\ \A t \in Threads : t = Boot \/ t \in Callers
      /\ \A t \in Callers : t \in Threads /\ t # Boot
  BY DEF Callers
<1>2. \A t \in Callers : pc[t] # "idle" => pc[Boot] = "built"
  BY DEF Inv, Booting
<1>3. \A t \in ShuttingDown :
         /\ t \in Callers
         /\ pc[Boot] = "built"
         /\ lifecycle \in {"Draining", "Stopped"}
  BY <1>1, <1>2, Chains DEF Inv, Booting, Closing, ShuttingDown
<1> QED
  BY <1>1, <1>2, <1>3

-----------------------------------------------------------------------------
\* A lifecycle method changes the state.  begin_shutdown gets through only
\* from a state in which nobody is shutting down.
LEMMA ChangeLifecycleInv ==
  ASSUME Inv, NEW t \in Threads, ChangeLifecycle(t)
  PROVE  Inv'
<1> USE DEF Inv
<1>1. /\ pc[t] \in Operations
      /\ \A u \in Threads : setting[u] = None
      /\ lifecycle \in AllowedFrom(pc[t])
      /\ lifecycle' = Target(pc[t])
      /\ Target(pc[t]) \in LifecycleStates
      /\ setting' = [setting EXCEPT ![t] = Target(pc[t])]
      /\ UNCHANGED <<pc, node, working, health>>
  BY Targets DEF ChangeLifecycle, Transition, Allowed, Free, processVars
<1>2. TypeOK'
  BY <1>1 DEF TypeOK, LifecycleTypeOK
<1>3. /\ setting'[t] = Target(pc[t])
      /\ setting'[t] # None
      /\ \A u \in Threads : u # t => setting'[u] = None
  BY <1>1 DEF TypeOK, LifecycleTypeOK
<1>4. Setters'
  BY <1>1, <1>3 DEF Setters
<1>5. \/ t = Boot /\ pc[t] \in {"start", "ready"}
      \/ t \in Callers /\ pc[t] \in {"begin_shutdown", "stop"}
  BY <1>1, Chains, Places DEF Booting, Closing
<1>6. CASE t = Boot
  <2>1. Booting'
    BY <1>1, <1>3, <1>5, <1>6, Targets, Chains DEF Booting, Callers
  <2>2. Closing'
    BY <1>1, <1>3, <1>5, <1>6, Places, Chains DEF Booting, Closing,
       ShuttingDown, Callers
  <2> QED
    BY <1>2, <1>4, <2>1, <2>2
<1>7. CASE t \in Callers /\ pc[t] = "begin_shutdown"
  <2>1. lifecycle = "Ready" /\ node = "Ready" /\ pc[Boot] = "built"
    BY <1>1, <1>7, Targets, Places DEF Booting
  <2>2. ShuttingDown = {}
    BY <2>1, Places
  <2>3. Booting'
    BY <1>1, <1>3, <1>7, <2>1, Targets, Chains DEF Booting, Callers
  <2>4. ShuttingDown' \subseteq {t}
    BY <1>1, <1>3, <2>2 DEF ShuttingDown
  <2>5. \A u \in Threads :
          pc[u] \notin {"register_draining", "register_offline",
                        "unregister", "stop"}
    BY <2>2 DEF ShuttingDown
  <2>6. Closing'
    BY <1>1, <1>3, <1>7, <2>1, <2>4, <2>5, Places, Targets DEF Closing,
       Callers
  <2> QED
    BY <1>2, <1>4, <2>3, <2>6
<1>8. CASE t \in Callers /\ pc[t] = "stop"
  <2>1. lifecycle = "Draining" /\ node = None /\ pc[Boot] = "built"
    BY <1>1, <1>8, Targets, Places DEF Closing
  <2>2. ShuttingDown = {t}
    BY <1>1, <1>8, Places DEF ShuttingDown, Closing
  <2>3. Booting'
    BY <1>1, <1>3, <1>8, <2>1, Targets, Chains DEF Booting, Callers
  <2>4. ShuttingDown' \subseteq {t}
    BY <1>1, <1>3, <1>8, <2>2 DEF ShuttingDown
  <2>5. \A u \in Threads : u # t =>
          pc[u] \notin {"register_draining", "register_offline",
                        "unregister", "stop"}
    BY <2>2 DEF ShuttingDown
  <2>6. Closing'
    BY <1>1, <1>3, <1>8, <2>1, <2>4, <2>5, Places, Targets DEF Closing,
       Callers
  <2> QED
    BY <1>2, <1>4, <2>3, <2>6
<1> QED
  BY <1>5, <1>6, <1>7, <1>8

\* The health follows, and the thread goes on to its next step.
LEMMA ChangeHealthInv ==
  ASSUME Inv, NEW t \in Threads, ChangeHealth(t)
  PROVE  Inv'
<1> USE DEF Inv
<1>1. /\ setting[t] # None /\ setting[t] = Target(pc[t])
      /\ pc[t] \in Operations
      /\ health' = HealthFor(setting[t])
      /\ setting' = [setting EXCEPT ![t] = None]
      /\ pc' = [pc EXCEPT ![t] = After(pc[t])]
      /\ UNCHANGED <<node, working, lifecycle>>
  BY DEF ChangeHealth, SetHealth, Setters
<1>2. /\ \A u \in Threads : setting'[u] = None
      /\ \A u \in Threads : u # t => setting[u] = None
  BY <1>1 DEF Setters, TypeOK, LifecycleTypeOK
<1>3. /\ pc'[t] = After(pc[t])
      /\ \A u \in Threads : u # t => pc'[u] = pc[u]
  BY <1>1 DEF TypeOK
<1>4. After(pc[t]) \in Steps \cup {"built", "stopped"}
  BY <1>1, Chains DEF Steps
<1>5. TypeOK'
  BY <1>1, <1>4, Targets
     DEF TypeOK, LifecycleTypeOK, HealthFor, HealthStates
<1>6. Setters'
  BY <1>2 DEF Setters
<1>7. \/ t = Boot /\ pc[t] \in {"start", "ready"}
      \/ t \in Callers /\ pc[t] \in {"begin_shutdown", "stop"}
  BY <1>1, Chains, Places DEF Booting, Closing
<1>8. CASE t = Boot
  <2>1. Booting'
    BY <1>1, <1>2, <1>3, <1>7, <1>8, Targets, Chains DEF Booting, Callers
  <2>2. Closing'
    BY <1>1, <1>2, <1>3, <1>7, <1>8, Places, Chains
       DEF Booting, Closing, ShuttingDown, Callers
  <2> QED
    BY <1>5, <1>6, <2>1, <2>2
<1>9. CASE t \in Callers
  <2>1. pc[Boot] = "built" /\ pc'[Boot] = "built"
    BY <1>1, <1>3, <1>7, <1>9, Places
  <2>2. ShuttingDown = {t}
    BY <1>1, <1>7, <1>9, Places DEF ShuttingDown, Closing
  <2>3. Booting'
    BY <1>1, <1>2, <1>3, <1>9, <2>1, Targets, Chains DEF Booting, Callers
  <2>4. ShuttingDown' \subseteq {t}
    BY <1>2, <1>3, <2>2 DEF ShuttingDown
  <2>5. \A u \in Threads : u # t =>
          pc[u] \notin {"register_draining", "register_offline",
                        "unregister", "stop"}
    BY <2>2 DEF ShuttingDown
  <2>6. Closing'
    BY <1>1, <1>2, <1>3, <1>7, <1>9, <2>4, <2>5, Places, Chains
       DEF Closing, Callers
  <2> QED
    BY <1>5, <1>6, <2>3, <2>6
<1> QED
  BY <1>7, <1>8, <1>9

\* A call of the registry finds the snapshot where the step before has left
\* it, and takes it to the next state of the node's life.
LEMMA RegistryFollows ==
  ASSUME Inv, NEW t \in Threads, pc[t] \in RegistrySteps
  PROVE  /\ <<node, Writes[pc[t]]>> \in NodeLife
         /\ Writes[pc[t]] \in NodeStates \cup {None}
         /\ setting[t] = None
         /\ \/ t = Boot /\ lifecycle = "Starting"
               /\ pc[t] \in {"register_starting", "register_ready"}
            \/ t \in Callers /\ lifecycle = "Draining" /\ ShuttingDown = {t}
               /\ pc[t] \in {"register_draining", "register_offline",
                             "unregister"}
               /\ pc[Boot] = "built"
<1> USE DEF Inv
<1>1. setting[t] = None
  BY Chains DEF Setters
<1>2. CASE t = Boot
  BY <1>1, <1>2, Chains DEF Booting, NodeLife
<1>3. CASE t \in Callers
  <2>1. pc[t] \in {"register_draining", "register_offline", "unregister"}
    BY <1>3, Chains DEF Closing
  <2>2. ShuttingDown = {t}
    BY <2>1 DEF Closing, ShuttingDown
  <2> QED
    BY <1>1, <1>3, <2>1, <2>2, Places, Chains DEF Closing, NodeLife
<1> QED
  BY <1>2, <1>3, Places

LEMMA CallRegistryInv ==
  ASSUME Inv, NEW t \in Threads, CallRegistry(t)
  PROVE  Inv'
<1> USE DEF Inv
<1>1. /\ pc[t] \in RegistrySteps
      /\ node' = Writes[pc[t]]
      /\ pc' = [pc EXCEPT ![t] = After(pc[t])]
      /\ UNCHANGED <<lifecycle, health, setting, working>>
  BY DEF CallRegistry, lifecycleVars
<1>2. /\ pc'[t] = After(pc[t])
      /\ \A u \in Threads : u # t => pc'[u] = pc[u]
  BY <1>1 DEF TypeOK
<1>3. After(pc[t]) \in Steps
  BY <1>1, Chains DEF Steps
<1>4. TypeOK'
  BY <1>1, <1>3, RegistryFollows DEF TypeOK, LifecycleTypeOK
<1>5. Setters'
  BY <1>1, <1>2, RegistryFollows DEF Setters
<1>6. CASE t = Boot
  <2> DEFINE after == After(pc[t])
  <2>a. /\ \/ pc[t] = "register_starting" /\ after = "register_ready"
              /\ node' = "Starting"
           \/ pc[t] = "register_ready" /\ after = "ready"
              /\ node' = "Ready"
        /\ lifecycle' = "Starting" /\ setting'[Boot] = None
        /\ pc[Boot] # "built"
    BY <1>1, <1>6, RegistryFollows, Chains
  <2>b. /\ pc'[Boot] = after
        /\ \A u \in Callers : pc'[u] = "idle"
    BY <1>2, <1>6, <2>a DEF Booting, Callers
  <2>1. Booting'
    BY <2>a, <2>b, Chains DEF Booting
  <2>2. Closing'
    BY <1>1, <1>2, <1>6, RegistryFollows, Places, Chains
       DEF Booting, Closing, ShuttingDown, Callers
  <2> QED
    BY <1>4, <1>5, <2>1, <2>2
<1>7. CASE t \in Callers
  <2>1. ShuttingDown = {t} /\ pc[Boot] = "built" /\ lifecycle = "Draining"
    BY <1>1, <1>7, RegistryFollows, Places
  <2>2. Booting'
    BY <1>1, <1>2, <1>7, <2>1, Chains DEF Booting, Callers
  <2>3. ShuttingDown' \subseteq {t}
    BY <1>1, <1>2, <2>1 DEF ShuttingDown
  <2>4. \A u \in Threads : u # t =>
          /\ pc[u] \notin {"register_draining", "register_offline",
                           "unregister", "stop"}
          /\ ~(pc[u] = "begin_shutdown" /\ setting[u] # None)
    BY <2>1 DEF ShuttingDown
  <2>5. /\ \/ pc[t] = "register_draining" /\ pc'[t] = "register_offline"
              /\ node' = "Draining"
           \/ pc[t] = "register_offline" /\ pc'[t] = "unregister"
              /\ node' = "Offline"
           \/ pc[t] = "unregister" /\ pc'[t] = "stop" /\ node' = None
        /\ lifecycle' = "Draining" /\ setting'[t] = None
    <3>1. t # Boot
      BY <1>7, Places
    <3>2. /\ pc[t] \in {"register_draining", "register_offline",
                        "unregister"}
          /\ setting[t] = None
      BY <1>1, <3>1, RegistryFollows
    <3> QED
      BY <1>1, <1>2, <2>1, <3>2, Chains
  <2>6. \A u \in Callers : u # t =>
          /\ pc'[u] \in DOMAIN AfterShutdown
                          \cup {"idle", "stopped", "refused", "failed"}
          /\ pc'[u] \notin {"register_draining", "register_offline",
                            "unregister", "stop"}
          /\ ~(pc'[u] = "begin_shutdown" /\ setting'[u] # None)
    BY <1>1, <1>2, <2>4, Places DEF Closing
  <2>7. \A u, v \in ShuttingDown' : u = v
    BY <2>3
  <2>8. \A u \in Callers :
          /\ pc'[u] \in DOMAIN AfterShutdown
                          \cup {"idle", "stopped", "refused", "failed"}
          /\ pc'[u] = "begin_shutdown" /\ setting'[u] # None =>
               node' = "Ready" /\ lifecycle' = "Draining"
          /\ pc'[u] = "register_draining" =>
               node' = "Ready" /\ lifecycle' = "Draining"
          /\ pc'[u] = "register_offline" =>
               node' = "Draining" /\ lifecycle' = "Draining"
          /\ pc'[u] = "unregister" =>
               node' = "Offline" /\ lifecycle' = "Draining"
          /\ pc'[u] = "stop" =>
               /\ node' = None
               /\ lifecycle' =
                    IF setting'[u] = None THEN "Draining" ELSE "Stopped"
    <3>1. TAKE u \in Callers
    <3>2. CASE u = t
      BY <2>5, <3>2, Chains
    <3>3. CASE u # t
      BY <2>6, <3>3
    <3> QED
      BY <3>2, <3>3
  <2>9. Closing'
    BY <2>7, <2>8 DEF Closing, AfterShutdown, Callers
  <2> QED
    BY <1>4, <1>5, <2>2, <2>9
<1> QED
  BY <1>6, <1>7, Places

\* A lost call ends the chain of its thread, and no other thread can be
\* in one whose steps depend on the snapshot.
LEMMA LoseRegistryCallInv ==
  ASSUME Inv, NEW t \in Threads, LoseRegistryCall(t)
  PROVE  Inv'
<1> USE DEF Inv
<1>1. /\ pc[t] \in RegistrySteps
      /\ node' = node \/ node' = Writes[pc[t]]
      /\ pc' = [pc EXCEPT ![t] = "failed"]
      /\ UNCHANGED <<lifecycle, health, setting, working>>
  BY DEF LoseRegistryCall, lifecycleVars
<1>2. /\ pc'[t] = "failed"
      /\ \A u \in Threads : u # t => pc'[u] = pc[u]
  BY <1>1 DEF TypeOK
<1>3. TypeOK'
  BY <1>1, RegistryFollows DEF TypeOK, LifecycleTypeOK
<1>4. Setters'
  BY <1>1, <1>2, RegistryFollows DEF Setters
<1>5. CASE t = Boot
  <2>1. Booting'
    BY <1>1, <1>2, <1>5, RegistryFollows, Chains DEF Booting, Callers
  <2>2. Closing'
    BY <1>1, <1>2, <1>5, RegistryFollows, Places, Chains
       DEF Booting, Closing, ShuttingDown, Callers
  <2> QED
    BY <1>3, <1>4, <2>1, <2>2
<1>6. CASE t \in Callers
  <2>1. ShuttingDown = {t} /\ pc[Boot] = "built" /\ lifecycle = "Draining"
    BY <1>1, <1>6, RegistryFollows, Places
  <2>2. Booting'
    BY <1>1, <1>2, <1>6, <2>1, Chains DEF Booting, Callers
  <2>3. ShuttingDown' = {}
    BY <1>1, <1>2, <2>1 DEF ShuttingDown
  <2>4. \A u \in Threads : u # t =>
          /\ pc[u] \notin {"register_draining", "register_offline",
                           "unregister", "stop"}
          /\ ~(pc[u] = "begin_shutdown" /\ setting[u] # None)
    BY <2>1 DEF ShuttingDown
  <2>5. Closing'
    BY <1>1, <1>2, <1>6, <2>1, <2>3, <2>4, Places, Chains
       DEF Closing, Callers
  <2> QED
    BY <1>3, <1>4, <2>2, <2>5
<1> QED
  BY <1>5, <1>6, Places

\* Bootstrap is never refused; a shutdown that is refused was at its first
\* step.
LEMMA BeRefusedInv ==
  ASSUME Inv, NEW t \in Threads, BeRefused(t)
  PROVE  Inv'
<1> USE DEF Inv
<1>1. /\ pc[t] \in Operations
      /\ setting[t] = None
      /\ lifecycle \notin AllowedFrom(pc[t])
      /\ pc' = [pc EXCEPT ![t] = "refused"]
      /\ UNCHANGED <<lifecycle, health, setting, node, working>>
  BY DEF BeRefused, Refused, lifecycleVars
<1>2. t \in Callers /\ pc[t] = "begin_shutdown"
  BY <1>1, Places, Chains, Targets DEF Booting, Closing
<1>3. /\ pc'[t] = "refused"
      /\ \A u \in Threads : u # t => pc'[u] = pc[u]
  BY <1>1 DEF TypeOK
<1>4. TypeOK' /\ Setters'
  BY <1>1, <1>3 DEF TypeOK, LifecycleTypeOK, Setters
<1>5. Booting'
  BY <1>1, <1>2, <1>3, Places, Chains DEF Booting, Callers
<1>6. ShuttingDown' \subseteq ShuttingDown
  BY <1>1, <1>3 DEF ShuttingDown
<1>7. Closing'
  BY <1>1, <1>2, <1>3, <1>6, Chains DEF Closing, Callers
<1> QED
  BY <1>4, <1>5, <1>7

\* Another shutdown is called: its caller has yet to pass begin_shutdown.
LEMMA ShutdownInv ==
  ASSUME Inv, NEW t \in Threads, Shutdown(t)
  PROVE  Inv'
<1> USE DEF Inv
<1>1. /\ t \in Callers /\ pc[Boot] = "built"
      /\ pc[t] \in {"idle", "refused", "failed"}
      /\ pc' = [pc EXCEPT ![t] = "begin_shutdown"]
      /\ UNCHANGED <<lifecycle, health, setting, node, working>>
  BY DEF Shutdown, lifecycleVars
<1>2. /\ pc'[t] = "begin_shutdown" /\ setting[t] = None
      /\ \A u \in Threads : u # t => pc'[u] = pc[u]
  BY <1>1 DEF TypeOK, Setters
<1>3. "begin_shutdown" \in Steps
  BY Chains DEF Steps
<1>4. TypeOK' /\ Setters'
  BY <1>1, <1>2, <1>3 DEF TypeOK, LifecycleTypeOK, Setters
<1>5. Booting'
  BY <1>1, <1>2, Places, Chains DEF Booting, Callers
<1>6. ShuttingDown' \subseteq ShuttingDown
  BY <1>1, <1>2 DEF ShuttingDown
<1>7. Closing'
  BY <1>1, <1>2, <1>6, Chains DEF Closing, Callers
<1> QED
  BY <1>4, <1>5, <1>7

LEMMA NextInv == Inv /\ [Next]_vars => Inv'
<1> SUFFICES ASSUME Inv, [Next]_vars PROVE Inv'
  OBVIOUS
<1>1. ASSUME UNCHANGED <<lifecycleVars, pc, node>>,
             working' \subseteq Workers
      PROVE  Inv'
  BY <1>1 DEF Inv, lifecycleVars, TypeOK, LifecycleTypeOK, Setters, Booting,
              Closing, ShuttingDown
<1>2. ASSUME NEW w \in Workers, StartWork(w) \/ FinishWork(w)
      PROVE  Inv'
  BY <1>1, <1>2 DEF StartWork, FinishWork, Inv, TypeOK
<1>3. CASE UNCHANGED vars
  BY <1>1, <1>3 DEF vars, processVars, Inv, TypeOK
<1> QED
  BY <1>2, <1>3, ChangeLifecycleInv, ChangeHealthInv, BeRefusedInv,
     CallRegistryInv, LoseRegistryCallInv, ShutdownInv DEF Next, Proceed

LEMMA InvAlways == Spec => []Inv
BY InitInv, NextInv, PTL DEF Spec

-----------------------------------------------------------------------------
\* The variables keep their types: no chain of calls leaves its steps, also
\* when it is refused or one of its calls of the registry is lost.
THEOREM ProcessTypeCorrect == Spec => []TypeOK
<1>1. Inv => TypeOK
  BY DEF Inv
<1> QED
  BY <1>1, InvAlways, PTL

\* What the registry says of the node never contradicts the process
\* (bootstrap.rs:42-78, context.rs:112-123).
THEOREM NodeAlwaysMatches == Spec => []NodeMatchesProcess
<1>1. ASSUME Inv PROVE NodeMatchesProcess
  BY <1>1, Places, Chains
     DEF Inv, TypeOK, LifecycleTypeOK, Booting, NodeMatchesProcess
<1> QED
  BY <1>1, InvAlways, PTL

\* The node's snapshot ages once, however many shutdowns are called and
\* wherever they fail (context.rs:114-120).
THEOREM NodeAlwaysAges == Spec => NodeOnlyAgesOnce
<1>1. Inv /\ [Next]_vars => [(<<node, node'>> \in NodeLife)]_node
  <2> SUFFICES ASSUME Inv, [Next]_vars, node' # node
               PROVE  <<node, node'>> \in NodeLife
    OBVIOUS
  <2>1. PICK t \in Threads : CallRegistry(t) \/ LoseRegistryCall(t)
    BY DEF Next, Proceed, vars, processVars, ChangeLifecycle, ChangeHealth,
           BeRefused, Shutdown, StartWork, FinishWork
  <2> QED
    BY <2>1, RegistryFollows DEF CallRegistry, LoseRegistryCall
<1> QED
  BY <1>1, InvAlways, PTL DEF Spec, NodeOnlyAgesOnce

-----------------------------------------------------------------------------
(***************************************************************************)
(* The lifecycle and the health alone, for any number of threads that call *)
(* the lifecycle's methods in any order.                                   *)
(***************************************************************************)
\* One thread at a time is between its two writes; what it has yet to write is
\* the health of the current state, and follows the health that is there.
OneSetter ==
    /\ \A t, u \in Threads : setting[t] # None /\ setting[u] # None => t = u
    /\ \A t \in Threads : setting[t] # None =>
         /\ setting[t] = lifecycle
         /\ <<health, HealthFor(lifecycle)>> \in HealthOrder

ClientInv == ClientTypeOK /\ OneSetter /\ HealthAgrees

LEMMA InitClientInv == ClientInit => ClientInv
BY DEF ClientInit, LifecycleInit, HealthFor, ClientInv, ClientTypeOK,
       LifecycleTypeOK, HealthStates, OneSetter, HealthAgrees

\* A transition keeps to the order of one life.
LEMMA TargetFollows ==
  ASSUME NEW op \in Operations, lifecycle \in AllowedFrom(op)
  PROVE  /\ Target(op) \in LifecycleStates
         /\ <<HealthFor(lifecycle), HealthFor(Target(op))>> \in HealthOrder
BY DEF AllowedFrom, Target, HealthFor, HealthOrder

LEMMA ChangeInv ==
  ASSUME ClientInv, NEW t \in Threads, Change(t)
  PROVE  ClientInv'
<1> USE DEF ClientInv
<1>1. /\ request[t] \in Operations
      /\ \A u \in Threads : setting[u] = None
      /\ lifecycle \in AllowedFrom(request[t])
      /\ lifecycle' = Target(request[t])
      /\ setting' = [setting EXCEPT ![t] = lifecycle']
      /\ health' = health /\ request' = request
  BY DEF Change, Transition, Allowed, Free, ClientTypeOK
<1>2. health = HealthFor(lifecycle)
  BY <1>1 DEF HealthAgrees
<1>3. /\ lifecycle' \in LifecycleStates
      /\ <<health, HealthFor(lifecycle')>> \in HealthOrder
  BY <1>1, <1>2, TargetFollows
<1>4. ClientTypeOK'
  BY <1>1, <1>3 DEF ClientTypeOK, LifecycleTypeOK
<1>5. /\ setting'[t] = lifecycle'
      /\ \A u \in Threads : u # t => setting'[u] = None
  BY <1>1 DEF ClientTypeOK, LifecycleTypeOK
<1>6. OneSetter'
  BY <1>1, <1>3, <1>5 DEF OneSetter, HealthFor
<1>7. HealthAgrees'
  BY <1>3, <1>5 DEF HealthAgrees
<1> QED
  BY <1>4, <1>6, <1>7

LEMMA AnswerInv ==
  ASSUME ClientInv, NEW t \in Threads, Answer(t)
  PROVE  ClientInv'
<1> USE DEF ClientInv
<1>1. /\ setting[t] = lifecycle
      /\ health' = HealthFor(lifecycle)
      /\ setting' = [setting EXCEPT ![t] = None]
      /\ request' = [request EXCEPT ![t] = None]
      /\ lifecycle' = lifecycle
  BY DEF Answer, SetHealth, OneSetter
<1>2. \A u \in Threads : setting'[u] = None
  BY <1>1 DEF Answer, SetHealth, OneSetter, ClientTypeOK, LifecycleTypeOK
<1>3. ClientTypeOK'
  BY <1>1 DEF ClientTypeOK, LifecycleTypeOK, HealthStates, HealthFor
<1>4. OneSetter' /\ HealthAgrees'
  BY <1>1, <1>2 DEF OneSetter, HealthAgrees, HealthFor
<1> QED
  BY <1>3, <1>4

LEMMA NextClientInv == ClientInv /\ [ClientNext]_clientVars => ClientInv'
<1> SUFFICES ASSUME ClientInv, [ClientNext]_clientVars PROVE ClientInv'
  OBVIOUS
<1> USE DEF ClientInv
<1>1. ASSUME UNCHANGED lifecycleVars, request' \in [Threads -> Operations \cup {None}]
      PROVE  ClientInv'
  BY <1>1 DEF lifecycleVars, ClientTypeOK, LifecycleTypeOK, OneSetter,
              HealthAgrees, HealthFor
<1>2. ASSUME NEW t \in Threads, NEW op \in Operations, Call(t, op)
      PROVE  ClientInv'
  BY <1>1, <1>2 DEF Call, ClientTypeOK
<1>3. ASSUME NEW t \in Threads, Reject(t)
      PROVE  ClientInv'
  BY <1>1, <1>3 DEF Reject, ClientTypeOK
<1>4. CASE UNCHANGED clientVars
  BY <1>1, <1>4 DEF clientVars, ClientTypeOK
<1> QED
  BY <1>2, <1>3, <1>4, ChangeInv, AnswerInv DEF ClientNext

LEMMA ClientInvAlways == ClientSpec => []ClientInv
BY InitClientInv, NextClientInv, PTL DEF ClientSpec

\* The variables keep their types, whatever the threads call.
THEOREM LifecycleTypeCorrect == ClientSpec => []ClientTypeOK
<1>1. ClientInv => ClientTypeOK
  BY DEF ClientInv
<1> QED
  BY <1>1, ClientInvAlways, PTL

-----------------------------------------------------------------------------
\* Whenever no transition is under way the health is that of the state
\* (lifecycle.rs:97-111).
THEOREM HealthAgreesAlways == ClientSpec => []HealthAgrees
<1>1. ClientInv => HealthAgrees
  BY DEF ClientInv
<1> QED
  BY <1>1, ClientInvAlways, PTL

\* The health alone shows the states of one life in their order, though it is
\* written after the state and under another lock (lifecycle.rs:108-109).
THEOREM HealthFollowsLife == ClientSpec => HealthCycle
<1>1. ClientInv /\ [ClientNext]_clientVars => [(<<health, health'>> \in HealthOrder)]_health
  <2> SUFFICES ASSUME ClientInv, [ClientNext]_clientVars, health' # health
               PROVE  <<health, health'>> \in HealthOrder
    OBVIOUS
  <2>1. PICK t \in Threads : Answer(t)
    BY DEF ClientNext, clientVars, lifecycleVars, Call, Change, Transition, Reject
  <2>2. setting[t] # None /\ health' = HealthFor(setting[t])
    BY <2>1 DEF Answer, SetHealth
  <2> QED
    BY <2>2 DEF ClientInv, OneSetter
<1> QED
  BY <1>1, ClientInvAlways, PTL DEF ClientSpec, HealthCycle

=============================================================================
