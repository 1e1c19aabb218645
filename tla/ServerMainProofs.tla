-------------------------- MODULE ServerMainProofs --------------------------
(***************************************************************************)
(* Theorems about the program from its environment to its exit, for every  *)
(* environment, any width of a usize and any number of tasks beside main.  *)
(***************************************************************************)
EXTENDS ServerMain, ServerProcessProofs

USE LifecycleAssumption, ProcessAssumption
USE DEF LifecycleStates, NodeStates, Operations

-----------------------------------------------------------------------------
\* A thread that has got through begin_shutdown, and one that is past it.
PastFirst(t) == pc[t] \in RegistrySteps \cup {"stop", "stopped"}
Begun(t) == PastFirst(t) \/ (pc[t] = "begin_shutdown" /\ setting[t] # None)

\* When a shutdown has ended nothing of it is left to do for anybody.
Ended ==
    \A t \in Callers : pc[t] = "stopped" =>
        /\ lifecycle = "Stopped" /\ health = "Stopped" /\ node = None
        /\ \A u \in Threads : setting[u] = None

\* No call of the registry is lost: who has begun to shut down is still at it,
\* or has done it.
Somebody ==
    pc[Boot] = "built" /\ lifecycle \in {"Draining", "Stopped"} =>
        \E t \in Callers : Begun(t)

\* Whoever is refused a shutdown is refused it because of another.
WhoRefused ==
    \A t \in Callers : pc[t] = "refused" => \E u \in Callers : PastFirst(u)

ShutdownsInv == Inv /\ Ended /\ Somebody /\ WhoRefused

\* What load has made of the environment.
Known == Parses(env) /\ config = Loaded(env)

\* Where main is.
Along ==
    /\ stage \in {"load", "build", "wait"} => pc[Main] = "idle"
    /\ stage \in {"wait", "shutdown"} => pc[Boot] = "built"
    /\ stage \in {"build", "wait", "shutdown"} => Known
    /\ exit # "running" => stage = "end"
    /\ exit = "ok" => pc[Main] = "stopped"
    /\ exit = "Lifecycle" => pc[Main] = "refused"

\* What the subscriptions have got.
Queued == \A t \in Tasks : queues[t] # 0 => Known /\ queues[t] = config.capacity

MainInv == MainTypeOK /\ ShutdownsInv /\ Along /\ Queued

-----------------------------------------------------------------------------
\* A step of a thread is one of ServerProcess.
LEMMA StepInv ==
  ASSUME Inv, NEW t \in Threads, Proceed(t) \/ Shutdown(t)
  PROVE  Inv'
<1>1. [Next]_vars
  BY DEF Next
<1> QED
  BY <1>1, NextInv

\* A step moves one thread; who has begun to shut down goes on with it.
LEMMA StepMoves ==
  ASSUME Inv, NEW t \in Threads, Proceed(t) \/ Shutdown(t)
  PROVE  /\ \A u \in Threads : u # t => pc'[u] = pc[u]
         /\ \A u \in Callers : PastFirst(u) => PastFirst(u)'
         /\ \A u \in Callers : Begun(u) => Begun(u)'
<1>1. pc \in [Threads -> Steps \cup {"idle", "built", "stopped", "refused", "failed"}]
      /\ setting \in [Threads -> LifecycleStates \cup {None}]
  BY DEF Inv, TypeOK, LifecycleTypeOK
<1>2. CASE ChangeLifecycle(t)
  <2>1. pc' = pc /\ setting[t] = None
        /\ setting' = [setting EXCEPT ![t] = Target(pc[t])]
        /\ pc[t] \in Operations
    BY <1>2 DEF ChangeLifecycle, Transition, processVars
  <2>2. Target(pc[t]) # None
    BY <2>1, Targets
  <2> QED
    BY <1>1, <2>1, <2>2 DEF PastFirst, Begun, Callers
<1>3. CASE ChangeHealth(t)
  <2>1. /\ setting[t] # None
        /\ setting' = [setting EXCEPT ![t] = None]
        /\ pc' = [pc EXCEPT ![t] = After(pc[t])]
        /\ pc[t] \in Operations
    BY <1>3 DEF ChangeHealth, SetHealth, Inv, Setters
  <2>2. \A u \in Threads : u # t => pc'[u] = pc[u] /\ setting'[u] = setting[u]
    BY <1>1, <2>1
  <2>3. pc'[t] = After(pc[t])
    BY <1>1, <2>1
  <2>4. t \in Callers => pc[t] \in {"begin_shutdown", "stop"}
    BY <2>1, Chains DEF Inv, Closing
  <2>5. t \in Callers => PastFirst(t)'
    BY <2>3, <2>4, Chains DEF PastFirst
  <2> QED
    BY <2>2, <2>5 DEF PastFirst, Begun, Callers
<1>4. CASE BeRefused(t)
  <2>1. /\ setting[t] = None /\ setting' = setting
        /\ pc' = [pc EXCEPT ![t] = "refused"]
        /\ pc[t] \in Operations /\ lifecycle \notin AllowedFrom(pc[t])
    BY <1>4 DEF BeRefused, Refused, lifecycleVars
  <2>2. \A u \in Threads : u # t => pc'[u] = pc[u]
    BY <1>1, <2>1
  <2>3. t \in Callers => pc[t] \in {"begin_shutdown", "stop"}
    BY <2>1, Chains DEF Inv, Closing
  <2>4. t \in Callers => pc[t] = "begin_shutdown"
    BY <2>1, <2>3, Targets DEF Inv, Closing
  <2>5. t \in Callers => ~Begun(t)
    BY <2>1, <2>4, Chains DEF Begun, PastFirst
  <2> QED
    BY <2>1, <2>2, <2>5 DEF PastFirst, Begun, Callers
<1>5. CASE CallRegistry(t)
  <2>1. /\ pc[t] \in RegistrySteps /\ setting' = setting
        /\ pc' = [pc EXCEPT ![t] = After(pc[t])]
    BY <1>5 DEF CallRegistry, lifecycleVars
  <2>2. \A u \in Threads : u # t => pc'[u] = pc[u]
    BY <1>1, <2>1
  <2>3. pc'[t] = After(pc[t])
    BY <1>1, <2>1
  <2>4. t \in Callers => pc[t] \in {"register_draining", "register_offline",
                                   "unregister"}
    BY <2>1, RegistryFollows DEF Callers
  <2>5. t \in Callers => PastFirst(t)'
    BY <2>3, <2>4, Chains DEF PastFirst
  <2> QED
    BY <2>1, <2>2, <2>5 DEF PastFirst, Begun, Callers
<1>6. CASE Shutdown(t)
  <2>1. /\ setting' = setting /\ pc[t] \in {"idle", "refused", "failed"}
        /\ pc' = [pc EXCEPT ![t] = "begin_shutdown"]
    BY <1>6 DEF Shutdown, lifecycleVars
  <2>2. \A u \in Threads : u # t => pc'[u] = pc[u]
    BY <1>1, <2>1
  <2>3. ~Begun(t)
    BY <2>1, Chains DEF Begun, PastFirst
  <2> QED
    BY <2>1, <2>2, <2>3 DEF PastFirst, Begun, Callers
<1> QED
  BY <1>2, <1>3, <1>4, <1>5, <1>6 DEF Proceed

\* After a shutdown has ended nobody changes anything any more.
LEMMA StepEnded ==
  ASSUME Inv, Ended, NEW t \in Threads, Proceed(t) \/ Shutdown(t)
  PROVE  Ended'
<1>1. pc \in [Threads -> Steps \cup {"idle", "built", "stopped", "refused", "failed"}]
      /\ setting \in [Threads -> LifecycleStates \cup {None}]
  BY DEF Inv, TypeOK, LifecycleTypeOK
<1> SUFFICES ASSUME NEW u \in Callers, pc'[u] = "stopped"
             PROVE  /\ lifecycle' = "Stopped" /\ health' = "Stopped"
                    /\ node' = None
                    /\ \A v \in Threads : setting'[v] = None
  BY DEF Ended
<1>2. CASE pc[u] = "stopped"
  <2>1. /\ lifecycle = "Stopped" /\ health = "Stopped" /\ node = None
        /\ \A v \in Threads : setting[v] = None
    BY <1>2 DEF Ended
  <2>2. pc[Boot] = "built"
    BY <1>2, Places
  <2>3. ~ChangeHealth(t)
    BY <2>1 DEF ChangeHealth, SetHealth
  <2>4. ~CallRegistry(t)
    BY <2>1, RegistryFollows DEF CallRegistry
  <2>5. ~ChangeLifecycle(t)
    <3>1. SUFFICES ASSUME ChangeLifecycle(t) PROVE FALSE
      OBVIOUS
    <3>2. pc[t] \in Operations /\ lifecycle \in AllowedFrom(pc[t])
      BY <3>1 DEF ChangeLifecycle, Transition, Allowed
    <3>3. pc[t] = "start"
      BY <2>1, <3>2, Targets
    <3>4. t \in Callers
      BY <2>2, <3>3, Places
    <3> QED
      BY <3>3, <3>4, Chains DEF Inv, Closing
  <2> QED
    BY <2>1, <2>3, <2>4, <2>5
       DEF Proceed, BeRefused, Shutdown, lifecycleVars
<1>3. CASE pc[u] # "stopped"
  <2>1. u = t /\ u \in Threads
    BY <1>3, StepMoves DEF Callers
  <2>2. ChangeHealth(t) \/ CallRegistry(t)
    BY <1>1, <1>3, <2>1
       DEF Proceed, ChangeLifecycle, processVars, BeRefused, Shutdown
  <2>3. pc'[t] = After(pc[t])
    BY <1>1, <2>2 DEF ChangeHealth, CallRegistry
  <2>4. CASE CallRegistry(t)
    <3>1. pc[t] \in {"register_draining", "register_offline", "unregister"}
      BY <2>1, <2>4, RegistryFollows DEF CallRegistry, Callers
    <3> QED
      BY <2>1, <2>3, <3>1, Chains
  <2>5. CASE ChangeHealth(t)
    <3>1. /\ setting[t] # None /\ setting[t] = Target(pc[t])
          /\ pc[t] \in Operations
          /\ health' = HealthFor(setting[t])
          /\ setting' = [setting EXCEPT ![t] = None]
          /\ lifecycle' = lifecycle /\ node' = node
      BY <2>5 DEF ChangeHealth, SetHealth, Inv, Setters
    <3>2. pc[t] \in {"begin_shutdown", "stop"}
      BY <2>1, <3>1, Chains DEF Inv, Closing
    <3>3. pc[t] = "stop"
      BY <2>1, <2>3, <3>2, Chains
    <3>4. node = None /\ lifecycle = "Stopped"
      BY <2>1, <3>1, <3>3 DEF Inv, Closing
    <3>5. health' = "Stopped"
      BY <3>1, <3>3, Targets DEF HealthFor
    <3>6. \A v \in Threads : setting'[v] = None
      BY <1>1, <3>1 DEF Inv, Setters
    <3> QED
      BY <3>1, <3>4, <3>5, <3>6
  <2> QED
    BY <2>2, <2>4, <2>5
<1> QED
  BY <1>2, <1>3

\* The process drains because somebody has begun to shut it down.
LEMMA StepSomebody ==
  ASSUME Inv, Somebody, NEW t \in Threads, Proceed(t) \/ Shutdown(t)
  PROVE  Somebody'
<1> SUFFICES ASSUME pc'[Boot] = "built", lifecycle' \in {"Draining", "Stopped"}
             PROVE  \E u \in Callers : Begun(u)'
  BY DEF Somebody
<1>1. pc \in [Threads -> Steps \cup {"idle", "built", "stopped", "refused", "failed"}]
      /\ setting \in [Threads -> LifecycleStates \cup {None}]
  BY DEF Inv, TypeOK, LifecycleTypeOK
<1>2. CASE pc[Boot] = "built" /\ lifecycle \in {"Draining", "Stopped"}
  BY <1>2, StepMoves DEF Somebody
<1>3. CASE pc[Boot] # "built"
  <2>1. t = Boot /\ pc[Boot] \in DOMAIN AfterBoot \cup {"failed"}
    BY <1>3, StepMoves DEF Inv, Booting
  <2>2. ChangeHealth(t) \/ CallRegistry(t)
    BY <1>1, <1>3, <2>1
       DEF Proceed, ChangeLifecycle, processVars, BeRefused, Shutdown, Callers
  <2>3. pc'[t] = After(pc[t]) /\ lifecycle' = lifecycle
    BY <1>1, <2>2 DEF ChangeHealth, SetHealth, CallRegistry, lifecycleVars
  <2>4. pc[Boot] # "failed"
    BY <2>1, <2>2, Chains
       DEF ChangeHealth, SetHealth, CallRegistry, Inv, Setters
  <2>5. pc[Boot] = "ready"
    BY <2>1, <2>3, <2>4, Chains
  <2> QED
    BY <2>3, <2>5 DEF Inv, Booting
<1>4. CASE pc[Boot] = "built" /\ lifecycle \notin {"Draining", "Stopped"}
  <2>1. ChangeLifecycle(t)
    BY <1>4 DEF Proceed, ChangeHealth, SetHealth, BeRefused, CallRegistry,
                Shutdown, lifecycleVars
  <2>2. /\ pc[t] \in Operations /\ setting[t] = None
        /\ lifecycle \in AllowedFrom(pc[t])
        /\ setting' = [setting EXCEPT ![t] = Target(pc[t])] /\ pc' = pc
    BY <2>1 DEF ChangeLifecycle, Transition, Allowed, processVars
  <2>3. t \in Callers
    BY <1>4, <2>2, Places
  <2>4. pc[t] = "begin_shutdown"
    BY <1>4, <2>2, <2>3, Chains, Targets DEF Inv, Closing
  <2>5. setting'[t] # None
    BY <1>1, <2>2, <2>4, Targets
  <2> QED
    BY <2>2, <2>3, <2>4, <2>5 DEF Begun
<1> QED
  BY <1>2, <1>3, <1>4

LEMMA StepWhoRefused ==
  ASSUME Inv, Somebody, WhoRefused, NEW t \in Threads, Proceed(t) \/ Shutdown(t)
  PROVE  WhoRefused'
<1> SUFFICES ASSUME NEW u \in Callers, pc'[u] = "refused"
             PROVE  \E v \in Callers : PastFirst(v)'
  BY DEF WhoRefused
<1>1. pc \in [Threads -> Steps \cup {"idle", "built", "stopped", "refused", "failed"}]
      /\ setting \in [Threads -> LifecycleStates \cup {None}]
  BY DEF Inv, TypeOK, LifecycleTypeOK
<1>2. CASE pc[u] = "refused"
  BY <1>2, StepMoves DEF WhoRefused
<1>3. CASE pc[u] # "refused"
  <2>1. u = t /\ t \in Callers
    BY <1>3, StepMoves DEF Callers
  <2>2. BeRefused(t)
    <3>1. CASE ChangeLifecycle(t)
      BY <1>3, <2>1, <3>1 DEF ChangeLifecycle, processVars
    <3>2. CASE ChangeHealth(t)
      <4>1. pc[t] \in {"begin_shutdown", "stop"} /\ pc'[t] = After(pc[t])
        BY <1>1, <2>1, <3>2, Chains
           DEF ChangeHealth, SetHealth, Inv, Setters, Closing
      <4> QED
        BY <2>1, <4>1, Chains
    <3>3. CASE CallRegistry(t)
      <4>1. pc[t] \in RegistrySteps /\ pc'[t] = After(pc[t])
        BY <1>1, <3>3 DEF CallRegistry
      <4> QED
        BY <2>1, <4>1, Chains
    <3>4. CASE Shutdown(t)
      BY <1>1, <2>1, <3>4 DEF Shutdown
    <3> QED
      BY <3>1, <3>2, <3>3, <3>4 DEF Proceed
  <2>3. /\ pc[t] \in Operations /\ lifecycle \notin AllowedFrom(pc[t])
        /\ \A v \in Threads : setting[v] = None
    BY <2>2 DEF BeRefused, Refused, Free
  <2>4. pc[t] \in {"begin_shutdown", "stop"}
    BY <2>1, <2>3, Chains DEF Inv, Closing
  <2>5. pc[t] = "begin_shutdown"
    BY <2>1, <2>3, <2>4, Targets DEF Inv, Closing
  <2>6. pc[Boot] = "built"
    BY <2>1, <2>5, Places
  <2>7. lifecycle \in {"Draining", "Stopped"}
    BY <2>3, <2>5, <2>6, Targets DEF Inv, Booting
  <2>8. PICK v \in Callers : Begun(v)
    BY <2>6, <2>7 DEF Somebody
  <2>9. PastFirst(v)
    BY <2>3, <2>8 DEF Begun, Callers
  <2> QED
    BY <2>9, StepMoves
<1> QED
  BY <1>2, <1>3

LEMMA StepShutdowns ==
  ASSUME ShutdownsInv, NEW t \in Threads, Proceed(t) \/ Shutdown(t)
  PROVE  ShutdownsInv'
BY StepInv, StepEnded, StepSomebody, StepWhoRefused DEF ShutdownsInv

LEMMA StillShutdowns ==
  ASSUME ShutdownsInv, UNCHANGED vars
  PROVE  ShutdownsInv'
<1>1. Inv'
  BY NextInv DEF ShutdownsInv
<1>2. /\ lifecycle' = lifecycle /\ health' = health /\ setting' = setting
      /\ pc' = pc /\ node' = node
  BY DEF vars, lifecycleVars, processVars
<1> QED
  BY <1>1, <1>2
     DEF ShutdownsInv, Ended, Somebody, WhoRefused, Begun, PastFirst

-----------------------------------------------------------------------------
LEMMA Numbers ==
  /\ UsizeMax \in Nat /\ MaxPermits \in Nat /\ MaxPermits <= UsizeMax
  /\ DefaultCapacity \in 1..MaxPermits
<1>1. UsizeMax \in Int /\ DefaultCapacity \in 1..MaxPermits
  BY MainAssumption DEF UsizeMax
<1>2. MaxPermits = UsizeMax \div 8
  BY DEF MaxPermits
<1> QED
  BY <1>1, <1>2

\* What load makes of an environment that parses is a configuration, with the
\* capacity that is asked for or the default.
LEMMA LoadedIs ==
  ASSUME NEW e \in Environments, Parses(e)
  PROVE  /\ Loaded(e) \in Configs
         /\ e.capacity.kind \in {"unset", "number", "set"}
         /\ e.capacity.kind \in {"number", "set"} =>
              Loaded(e).capacity = e.capacity.number
         /\ e.capacity.kind = "unset" => Loaded(e).capacity = DefaultCapacity
<1>1. PICK k : k = e.capacity.kind
  OBVIOUS
<1>2. PICK n : n = e.capacity.number
  OBVIOUS
<1>3. k \in {"unset", "number", "set"} /\ n <= UsizeMax
  BY <1>1, <1>2 DEF Parses
<1>4. e.capacity \in CapacityTexts
  BY DEF Environments
<1>5. k \in {"number", "set"} => n \in Nat
  BY <1>1, <1>2, <1>4, Numbers DEF CapacityTexts
<1>6. k \in {"number", "set"} => n \in 0..UsizeMax
  BY <1>3, <1>5, Numbers
<1>7. DefaultCapacity \in 0..UsizeMax
  BY Numbers
<1>8. PICK g : g = (e.nodeId = "uuid")
  OBVIOUS
<1>9. g \in BOOLEAN
  BY <1>8
<1>10. Loaded(e) = [nodeIdGiven |-> g,
                    capacity |-> IF k \in {"number", "set"} THEN n
                                 ELSE DefaultCapacity]
  BY <1>1, <1>2, <1>8
     DEF Loaded, WithNodeId, WithSubscriptionQueueCapacity, DefaultConfig
<1>11. k \in {"number", "set"} => Loaded(e) = [nodeIdGiven |-> g, capacity |-> n]
  BY <1>10
<1>12. k \notin {"number", "set"} =>
         Loaded(e) = [nodeIdGiven |-> g, capacity |-> DefaultCapacity]
  BY <1>10
<1>13. Loaded(e) \in Configs
  BY <1>6, <1>7, <1>9, <1>11, <1>12 DEF Configs
<1> QED
  BY <1>1, <1>2, <1>3, <1>11, <1>12, <1>13

LEMMA MainInitInv ==
  ASSUME MainInit
  PROVE  MainInv
<1>1. Inv /\ Init
  BY InitInv DEF MainInit
<1>2. /\ env \in Environments /\ config = None /\ stage = "load"
      /\ interrupted = FALSE /\ queues = [t \in Tasks |-> 0]
      /\ panicked = {} /\ exit = "running"
      /\ lifecycle = "Stopped" /\ Main \in Callers
      /\ pc = [t \in Threads |-> IF t = Boot THEN "start" ELSE "idle"]
  BY MainAssumption DEF MainInit, Init, LifecycleInit
<1>3. pc[Boot] = "start" /\ \A t \in Callers : pc[t] = "idle"
  BY <1>2 DEF Callers
<1>4. ShutdownsInv
  BY <1>1, <1>3 DEF ShutdownsInv, Ended, Somebody, WhoRefused
<1>5. MainTypeOK
  <2>1. queues \in [Tasks -> 0..MaxPermits]
    BY <1>2, Numbers
  <2>2. TypeOK /\ exit \in Exits
    BY <1>1, <1>2 DEF Inv, Exits
  <2> QED
    BY <1>2, <2>1, <2>2 DEF MainTypeOK
<1>6. Along
  BY <1>2, <1>3 DEF Along
<1>7. Queued
  BY <1>2 DEF Queued
<1> QED
  BY <1>4, <1>5, <1>6, <1>7 DEF MainInv

\* A step of main alone.
LEMMA MainAlone ==
  ASSUME MainInv, UNCHANGED <<vars, env, queues>>,
         config' = config \/ (Parses(env) /\ config' = Loaded(env)),
         stage' \in {"load", "build", "wait", "shutdown", "end"},
         interrupted' \in BOOLEAN, panicked' \subseteq Tasks, exit' \in Exits,
         Along'
  PROVE  MainInv'
<1>1. ShutdownsInv'
  BY StillShutdowns DEF MainInv
<1>2. config' \in Configs \cup {None}
  BY LoadedIs DEF MainInv, MainTypeOK
<1>3. Parses(env)' <=> Parses(env)
  BY DEF Parses, ParsesNodeId
<1>4. Loaded(env)' = Loaded(env)
  BY DEF Loaded, WithNodeId, WithSubscriptionQueueCapacity, DefaultConfig
<1>5. MainTypeOK'
  BY <1>1, <1>2 DEF ShutdownsInv, Inv, MainInv, MainTypeOK
<1>6. Known => Known'
  BY <1>3, <1>4 DEF Known
<1>7. Queued'
  BY <1>3, <1>4, <1>6 DEF MainInv, Queued, Known
<1> QED
  BY <1>1, <1>5, <1>7 DEF MainInv

\* A step of one thread of the process.
LEMMA ThreadSteps ==
  ASSUME MainInv, NEW t \in Threads, Proceed(t) \/ Shutdown(t),
         UNCHANGED <<env, config, interrupted, queues, panicked, exit>>,
         stage' \in {"load", "build", "wait", "shutdown", "end"},
         Along'
  PROVE  MainInv'
<1>1. ShutdownsInv'
  BY StepShutdowns DEF MainInv
<1>2. MainTypeOK'
  BY <1>1 DEF ShutdownsInv, Inv, MainInv, MainTypeOK
<1>3. Parses(env)' <=> Parses(env)
  BY DEF Parses, ParsesNodeId
<1>4. Loaded(env)' = Loaded(env)
  BY DEF Loaded, WithNodeId, WithSubscriptionQueueCapacity, DefaultConfig
<1>5. Queued'
  BY <1>3, <1>4 DEF MainInv, Queued, Known
<1> QED
  BY <1>1, <1>2, <1>5 DEF MainInv

\* The thread of main is idle until it is told to shut down.
LEMMA MainWaits ==
  ASSUME Inv, NEW t \in Threads, Proceed(t)
  PROVE  /\ t \in Callers => pc[t] \notin {"idle", "refused", "stopped"}
         /\ Main \in Callers /\ Main \in Threads /\ Main # Boot /\ Main \notin Tasks
         /\ pc[Boot] = "built" => pc'[Boot] = "built"
         /\ pc[Main] \in {"idle", "refused", "stopped"} => pc'[Main] = pc[Main]
<1>1. Main \in Callers /\ Main \in Threads /\ Main # Boot /\ Main \notin Tasks
  BY MainAssumption DEF Callers, Tasks
<1>2. pc[t] \in RegistrySteps \cup Operations
  BY DEF Proceed, ChangeLifecycle, ChangeHealth, SetHealth, BeRefused, CallRegistry,
         Inv, Setters
<1>3. pc[t] \notin {"idle", "refused", "stopped", "built"}
  BY <1>2, Chains
<1>4. \A u \in Threads : u # t => pc'[u] = pc[u]
  BY StepMoves
<1> QED
  BY <1>1, <1>3, <1>4

LEMMA MainNextInv ==
  ASSUME MainInv, [MainNext]_allVars
  PROVE  MainInv'
<1>1. /\ Along /\ Inv /\ stage \in {"load", "build", "wait", "shutdown", "end"}
      /\ interrupted \in BOOLEAN /\ panicked \subseteq Tasks /\ exit \in Exits
      /\ pc \in [Threads -> Steps \cup {"idle", "built", "stopped", "refused", "failed"}]
      /\ env \in Environments
      /\ exit \in Exits /\ {"ok", "Config", "Shutdown", "Lifecycle", "killed"} \subseteq Exits
  BY DEF MainInv, ShutdownsInv, MainTypeOK, Inv, TypeOK, Exits
<1>2. Main \in Callers /\ Main \in Threads /\ Main # Boot
  BY MainAssumption DEF Callers
<1>3. ASSUME UNCHANGED env PROVE /\ Parses(env)' <=> Parses(env)
                                /\ Loaded(env)' = Loaded(env)
  BY <1>3 DEF Parses, ParsesNodeId, Loaded, WithNodeId,
              WithSubscriptionQueueCapacity, DefaultConfig
<1>4. ASSUME UNCHANGED <<env, config>> PROVE Known' <=> Known
  BY <1>3, <1>4 DEF Known
<1>5. CASE Load
  <2>1. /\ stage = "load" /\ stage' = "build" /\ Parses(env)
        /\ config' = Loaded(env)
        /\ UNCHANGED <<vars, env, interrupted, queues, panicked, exit>>
    BY <1>5 DEF Load
  <2>2. Known' /\ pc' = pc
    BY <1>3, <2>1 DEF Known, vars, processVars
  <2>3. Along'
    BY <1>1, <2>1, <2>2 DEF Along
  <2> QED
    BY <1>1, <2>1, <2>3, MainAlone
<1>6. ASSUME UNCHANGED <<vars, env, config, queues, panicked>>,
             stage' = "end", exit' \in {"Config", "Shutdown", "killed"},
             interrupted' \in BOOLEAN
      PROVE  MainInv'
  <2>1. Along'
    BY <1>6 DEF Along
  <2> QED
    BY <1>1, <1>6, <2>1, MainAlone
<1>7. CASE RefuseConfig \/ WaitFails \/ Kill
  BY <1>1, <1>6, <1>7 DEF RefuseConfig, WaitFails, Kill, End
<1>8. CASE Build
  <2>1. /\ stage = "build" /\ Proceed(Boot) /\ Boot \in Threads
        /\ UNCHANGED <<env, config, stage, interrupted, queues, panicked, exit>>
    BY <1>8 DEF Build, mainVars
  <2>2. pc'[Main] = pc[Main]
    BY <1>1, <1>2, <2>1, StepMoves
  <2>3. Along'
    BY <1>1, <1>4, <2>1, <2>2 DEF Along
  <2> QED
    BY <1>1, <2>1, <2>3, ThreadSteps
<1>9. CASE Wait
  <2>1. /\ stage = "build" /\ pc[Boot] = "built" /\ stage' = "wait"
        /\ UNCHANGED <<vars, env, config, interrupted, queues, panicked, exit>>
    BY <1>9 DEF Wait
  <2>2. pc' = pc
    BY <2>1 DEF vars, processVars
  <2>3. Along'
    BY <1>1, <1>4, <2>1, <2>2 DEF Along
  <2> QED
    BY <1>1, <2>1, <2>3, MainAlone
<1>10. CASE Interrupt
  <2>1. /\ stage = "wait" /\ interrupted' = TRUE /\ stage' = "shutdown"
        /\ pc' = [pc EXCEPT ![Main] = "begin_shutdown"]
        /\ UNCHANGED <<lifecycleVars, node, working, env, config, queues, panicked,
                       exit>>
    BY <1>10 DEF Interrupt
  <2>2. pc[Main] = "idle" /\ pc[Boot] = "built"
    BY <1>1, <2>1 DEF Along
  <2>3. Shutdown(Main)
    BY <1>2, <2>1, <2>2 DEF Shutdown
  <2>4. ShutdownsInv'
    BY <1>2, <2>3, StepShutdowns DEF MainInv
  <2>5. pc'[Boot] = "built"
    BY <1>1, <1>2, <2>1, <2>2
  <2>6. Along'
    BY <1>1, <1>4, <2>1, <2>5 DEF Along
  <2>7. MainTypeOK'
    BY <2>1, <2>4 DEF ShutdownsInv, Inv, MainInv, MainTypeOK
  <2>8. Queued'
    BY <1>4, <2>1 DEF MainInv, Queued
  <2> QED
    BY <2>4, <2>6, <2>7, <2>8 DEF MainInv
<1>11. CASE Return
  <2>1. /\ stage = "shutdown" /\ pc[Main] \in {"stopped", "refused"}
        /\ stage' = "end"
        /\ exit' = IF pc[Main] = "refused" THEN "Lifecycle" ELSE "ok"
        /\ UNCHANGED <<vars, env, config, interrupted, queues, panicked>>
    BY <1>11 DEF Return, Awaited, End
  <2>2. pc' = pc
    BY <2>1 DEF vars, processVars
  <2>3. Along' /\ exit' \in Exits
    BY <1>1, <2>1, <2>2 DEF Along
  <2> QED
    BY <1>1, <2>1, <2>3, MainAlone
<1>12. ASSUME NEW t \in Callers, Run(t) PROVE MainInv'
  <2>1. /\ stage \in {"wait", "shutdown"} /\ Proceed(t) /\ t \in Threads
        /\ UNCHANGED <<env, config, stage, interrupted, queues, panicked, exit>>
    BY <1>12 DEF Run, mainVars, Callers
  <2>2. /\ pc[Boot] = "built" => pc'[Boot] = "built"
        /\ pc[Main] \in {"idle", "refused", "stopped"} => pc'[Main] = pc[Main]
    BY <1>1, <2>1, MainWaits
  <2>3. Along'
    BY <1>1, <1>4, <2>1, <2>2 DEF Along
  <2> QED
    BY <1>1, <2>1, <2>3, ThreadSteps
<1>13. ASSUME NEW t \in Tasks, AskForShutdown(t) PROVE MainInv'
  <2>1. /\ stage \in {"wait", "shutdown"} /\ Shutdown(t)
        /\ t \in Threads /\ t # Main /\ t # Boot
        /\ UNCHANGED <<env, config, stage, interrupted, queues, panicked, exit>>
    BY <1>13 DEF AskForShutdown, mainVars, Tasks, Callers
  <2>2. pc'[Boot] = pc[Boot] /\ pc'[Main] = pc[Main]
    BY <1>1, <1>2, <2>1, StepMoves
  <2>3. Along'
    BY <1>1, <1>4, <2>1, <2>2 DEF Along
  <2> QED
    BY <1>1, <2>1, <2>3, ThreadSteps
<1>14. ASSUME NEW t \in Tasks, Subscribe(t) PROVE MainInv'
  <2>1. /\ stage \in {"wait", "shutdown"}
        /\ UNCHANGED <<vars, env, config, stage, interrupted, exit>>
    BY <1>14 DEF Subscribe
  <2>2. \/ /\ config.capacity <= MaxPermits /\ panicked' = panicked
           /\ queues' = [queues EXCEPT ![t] = config.capacity]
        \/ queues' = queues /\ panicked' = panicked \cup {t}
    BY <1>14 DEF Subscribe
  <2>3. Known /\ pc' = pc
    BY <1>1, <2>1 DEF Along, vars, processVars
  <2>4. Along'
    BY <1>1, <1>4, <2>1, <2>3 DEF Along
  <2>5. ShutdownsInv'
    BY <2>1, StillShutdowns DEF MainInv
  <2>6. config \in Configs
    BY <1>1, <2>3, LoadedIs DEF Known
  <2>7. config.capacity \in 0..UsizeMax
    BY <2>6 DEF Configs
  <2>8. queues \in [Tasks -> 0..MaxPermits]
    BY DEF MainInv, MainTypeOK
  <2>9. queues' \in [Tasks -> 0..MaxPermits]
    BY <2>2, <2>7, <2>8, Numbers
  <2>10. panicked' \subseteq Tasks
    BY <1>1, <1>14, <2>2
  <2>11. MainTypeOK'
    BY <2>1, <2>5, <2>9, <2>10 DEF ShutdownsInv, Inv, MainInv, MainTypeOK
  <2>12. Queued'
    <3>1. Known'
      BY <1>4, <2>1, <2>3
    <3> SUFFICES ASSUME NEW u \in Tasks, queues'[u] # 0
                 PROVE  queues'[u] = config'.capacity
      BY <3>1 DEF Queued
    <3>2. config' = config
      BY <2>1
    <3>3. CASE queues'[u] = queues[u]
      BY <3>2, <3>3 DEF MainInv, Queued
    <3>4. CASE queues'[u] = config.capacity
      BY <3>2, <3>4
    <3> QED
      BY <2>2, <2>8, <3>3, <3>4
  <2> QED
    BY <2>4, <2>5, <2>11, <2>12 DEF MainInv
<1>15. CASE UNCHANGED allVars
  <2>1. /\ UNCHANGED <<vars, env, config, stage, interrupted, queues, panicked, exit>>
    BY <1>15 DEF allVars, mainVars
  <2>2. pc' = pc
    BY <2>1 DEF vars, processVars
  <2>3. Along'
    BY <1>1, <1>4, <2>1, <2>2 DEF Along
  <2> QED
    BY <1>1, <2>1, <2>3, MainAlone
<1> QED
  BY <1>5, <1>7, <1>8, <1>9, <1>10, <1>11, <1>12, <1>13, <1>14, <1>15
     DEF MainNext, MainSteps

LEMMA MainInvariant == MainSpec => []MainInv
BY MainInitInv, MainNextInv, PTL DEF MainSpec

-----------------------------------------------------------------------------
\* The variables keep their types; no subscription gets a channel that tokio
\* would refuse to make (ServerConfig, memory.rs:130).
THEOREM MainTypeCorrect == MainSpec => []MainTypeOK
<1>1. MainInv => MainTypeOK
  BY DEF MainInv
<1> QED
  BY <1>1, MainInvariant, PTL

\* After a success the process has stopped in every respect, and main is
\* refused its shutdown only because a task has begun one (main.rs:33).
THEOREM ExitAlwaysTells == MainSpec => []ExitTellsAll
<1>1. ASSUME MainInv PROVE ExitTellsAll
  <2>1. Main \in Callers
    BY MainAssumption
  <2>2. Along /\ Ended /\ WhoRefused
    BY <1>1 DEF MainInv, ShutdownsInv
  <2>3. exit = "ok" => lifecycle = "Stopped" /\ health = "Stopped" /\ node = None
    BY <2>1, <2>2 DEF Along, Ended
  <2>4. ASSUME exit = "Lifecycle"
        PROVE  \E t \in Tasks : pc[t] \in RegistrySteps \cup {"stop", "stopped"}
    <3>1. pc[Main] = "refused"
      BY <2>2, <2>4 DEF Along
    <3>2. PICK t \in Callers : PastFirst(t)
      BY <2>1, <2>2, <3>1 DEF WhoRefused
    <3>3. t # Main
      BY <3>1, <3>2, Chains DEF PastFirst
    <3> QED
      BY <3>2, <3>3 DEF PastFirst, Tasks
  <2> QED
    BY <2>3, <2>4 DEF ExitTellsAll
<1> QED
  BY <1>1, MainInvariant, PTL

\* What the environment or the program asks for is the capacity a subscription
\* gets, whenever it gets one (config.rs:47, memory.rs:130).
THEOREM OverrideAlwaysHonoured == MainSpec => []OverrideHonoured
<1>1. ASSUME MainInv PROVE OverrideHonoured
  <2> SUFFICES ASSUME NEW t \in Tasks, queues[t] # 0
               PROVE  CASE env.capacity.kind \in {"number", "set"} ->
                              queues[t] = env.capacity.number
                        [] env.capacity.kind = "unset" ->
                              queues[t] = DefaultCapacity
                        [] OTHER -> FALSE
    BY DEF OverrideHonoured
  <2>1. /\ Parses(env) /\ config = Loaded(env) /\ queues[t] = config.capacity
        /\ env \in Environments
    BY <1>1 DEF MainInv, MainTypeOK, Queued, Known
  <2> QED
    BY <2>1, LoadedIs
<1> QED
  BY <1>1, MainInvariant, PTL
=============================================================================
