----------------------------- MODULE ServerMain -----------------------------
(***************************************************************************)
(* The program of orbitrelay-server from its environment to its exit: main *)
(* loads the configuration (config.rs), builds the context, waits for an   *)
(* interrupt and shuts the context down (main.rs).  A program that embeds  *)
(* the server the same way has tasks of its own, which subscribe to the    *)
(* bus and may ask for the shutdown too.                                   *)
(*                                                                         *)
(* The registry is the MemoryNodeRegistry of Bootstrap::build and the      *)
(* lifecycle is new: past the validation of the configuration nothing in   *)
(* build can fail.                                                         *)
(***************************************************************************)
EXTENDS ServerProcess, Integers

CONSTANTS Main,              \* the thread of main
          Width,             \* the bits of a usize
          DefaultCapacity    \* DEFAULT_SUBSCRIPTION_QUEUE_CAPACITY

Tasks == Callers \ {Main}
UsizeMax == 2^Width - 1

\* The largest channel tokio makes, Semaphore::MAX_PERMITS: it panics above.
MaxPermits == UsizeMax \div 8

ASSUME MainAssumption ==
    /\ Main \in Callers
    /\ Workers = {}
    /\ ~RegistryFails
    /\ Width \in Nat \ {0}
    /\ DefaultCapacity \in 1..MaxPermits

\* What the two variables may hold; a number need not fit a usize.  A program
\* that embeds the server may set the capacity itself, which is one.
CapacityTexts == [kind : {"unset", "not_unicode", "malformed"}, number : {0}]
                    \cup [kind : {"number"}, number : 0..(UsizeMax + 1)]
                    \cup [kind : {"set"}, number : 0..UsizeMax]
NodeIdTexts == {"unset", "not_unicode", "malformed", "uuid"}
Environments == [nodeId : NodeIdTexts, capacity : CapacityTexts]

Configs == [nodeIdGiven : BOOLEAN, capacity : 0..UsizeMax]

\* How main has ended.  Bootstrap and NodeLifecycle errors do not occur here.
Exits == {"running", "ok", "Config", "Shutdown", "Lifecycle", "killed"}

VARIABLES
    env,           \* the environment and what the program sets itself
    config,        \* the ServerConfig of main, None before it is loaded
    stage,         \* where main is
    interrupted,   \* somebody has sent an interrupt
    queues,        \* the capacity of a task's subscription, 0 before it has one
    panicked,      \* the tasks that a subscription has ended
    exit           \* how main has ended

mainVars == <<env, config, stage, interrupted, queues, panicked, exit>>
allVars == <<vars, mainVars>>

MainTypeOK ==
    /\ TypeOK
    /\ env \in Environments
    /\ config \in Configs \cup {None}
    /\ stage \in {"load", "build", "wait", "shutdown", "end"}
    /\ interrupted \in BOOLEAN
    /\ queues \in [Tasks -> 0..MaxPermits]
    /\ panicked \subseteq Tasks
    /\ exit \in Exits

MainInit ==
    /\ Init
    /\ env \in Environments
    /\ config = None
    /\ stage = "load"
    /\ interrupted = FALSE
    /\ queues = [t \in Tasks |-> 0]
    /\ panicked = {}
    /\ exit = "running"

\* An identifier is parsed as a UUID.
ParsesNodeId(e) == e.nodeId \in {"unset", "uuid"}

\* Mutant: an override that does not parse counts as none.
ParsesOrIgnores(e) == TRUE

\* Mutant: the range of a usize is forgotten.
ParsesAnyNumber(e) ==
    /\ ParsesNodeId(e)
    /\ e.capacity.kind \in {"unset", "number", "set"}

\* Both variables are unset, or are text that parses.
Parses(e) ==
    /\ ParsesNodeId(e)
    /\ e.capacity.kind \in {"unset", "number", "set"}
    /\ e.capacity.number <= UsizeMax

DefaultConfig == [nodeIdGiven |-> FALSE, capacity |-> DefaultCapacity]
WithNodeId(c) == [c EXCEPT !.nodeIdGiven = TRUE]
WithSubscriptionQueueCapacity(c, n) == [c EXCEPT !.capacity = n]

\* Each override replaces the default.
Loaded(e) ==
    LET c == IF e.nodeId = "uuid" THEN WithNodeId(DefaultConfig)
                                  ELSE DefaultConfig
    IN  IF e.capacity.kind \in {"number", "set"}
        THEN WithSubscriptionQueueCapacity(c, e.capacity.number)
        ELSE c

\* validate, which load and then build call.
IsValid(c) == c.capacity > 0

End(how) == stage' = "end" /\ exit' = how

Load ==
    /\ stage = "load"
    /\ Parses(env) /\ IsValid(Loaded(env))
    /\ config' = Loaded(env)
    /\ stage' = "build"
    /\ UNCHANGED <<vars, env, interrupted, queues, panicked, exit>>

RefuseConfig ==
    /\ stage = "load"
    /\ ~(Parses(env) /\ IsValid(Loaded(env)))
    /\ End("Config")
    /\ UNCHANGED <<vars, env, config, interrupted, queues, panicked>>

Build ==
    /\ stage = "build"
    /\ Proceed(Boot)
    /\ UNCHANGED mainVars

\* ctrl_c is polled for the first time, which installs its handler.
Wait ==
    /\ stage = "build"
    /\ pc[Boot] = "built"
    /\ stage' = "wait"
    /\ UNCHANGED <<vars, env, config, interrupted, queues, panicked, exit>>

\* ctrl_c answers with an error.
WaitFails ==
    /\ stage = "wait"
    /\ End("Shutdown")
    /\ UNCHANGED <<vars, env, config, interrupted, queues, panicked>>

\* An interrupt before there is a handler ends the process.
Kill ==
    /\ stage \in {"load", "build"}
    /\ interrupted' = TRUE
    /\ End("killed")
    /\ UNCHANGED <<vars, env, config, queues, panicked>>

Interrupt ==
    /\ stage = "wait"
    /\ interrupted' = TRUE
    /\ stage' = "shutdown"
    /\ pc' = [pc EXCEPT ![Main] = "begin_shutdown"]
    /\ UNCHANGED <<lifecycleVars, node, working, env, config, queues, panicked, exit>>

\* Mutant: main does not wait for the shutdown it asks for.
Spawned == stage = "shutdown"

\* Mutant: main waits for a stop that it has been refused.
StoppedOnly == stage = "shutdown" /\ pc[Main] = "stopped"

\* The future of shutdown is awaited to its end.
Awaited == stage = "shutdown" /\ pc[Main] \in {"stopped", "refused"}

Return ==
    /\ Awaited
    /\ End(IF pc[Main] = "refused" THEN "Lifecycle" ELSE "ok")
    /\ UNCHANGED <<vars, env, config, interrupted, queues, panicked>>

\* A task, and main in its shutdown, take their steps until main returns.
Run(t) ==
    /\ stage \in {"wait", "shutdown"}
    /\ Proceed(t)
    /\ UNCHANGED mainVars

AskForShutdown(t) ==
    /\ stage \in {"wait", "shutdown"}
    /\ t \notin panicked
    /\ Shutdown(t)
    /\ UNCHANGED mainVars

\* EventBus::subscribe makes a channel of the configured capacity.
Subscribe(t) ==
    /\ stage \in {"wait", "shutdown"}
    /\ t \notin panicked /\ queues[t] = 0
    /\ pc[t] = "idle"
    /\ IF config.capacity <= MaxPermits
       THEN /\ queues' = [queues EXCEPT ![t] = config.capacity]
            /\ UNCHANGED panicked
       ELSE panicked' = panicked \cup {t} /\ UNCHANGED queues
    /\ UNCHANGED <<vars, env, config, stage, interrupted, exit>>

MainSteps ==
    \/ Load
    \/ RefuseConfig
    \/ Build
    \/ Wait
    \/ Return

\* Once main has returned the process is gone.
MainNext ==
    \/ MainSteps
    \/ WaitFails
    \/ Kill
    \/ Interrupt
    \/ \E t \in Callers : Run(t)
    \/ \E t \in Tasks : AskForShutdown(t) \/ Subscribe(t)

MainSpec == MainInit /\ [][MainNext]_allVars

\* Main is polled to its end, and so is a shutdown that has begun.
MainFairSpec ==
    /\ MainSpec
    /\ WF_allVars(MainSteps)
    /\ \A t \in Callers : WF_allVars(Run(t))

(***************************************************************************)
(* Properties                                                              *)
(***************************************************************************)
\* The exit tells what has become of the server: after a success the process
\* has stopped in every respect, whoever else wanted to stop it, and main is
\* refused its shutdown only when a task has begun one (main.rs:33).
ExitTellsAll ==
    /\ exit = "ok" => lifecycle = "Stopped" /\ health = "Stopped" /\ node = None
    /\ exit = "Lifecycle" =>
          \E t \in Tasks : pc[t] \in RegistrySteps \cup {"stop", "stopped"}

\* What the environment or the program asks for is what a subscription gets,
\* or the process does not come up, or the subscriber panics: an override is
\* never replaced, wrapped or forgotten on the way from load through build to
\* the channel (config.rs:47, memory.rs:130).
OverrideHonoured ==
    \A t \in Tasks : queues[t] # 0 =>
        CASE env.capacity.kind \in {"number", "set"} ->
                    queues[t] = env.capacity.number
          [] env.capacity.kind = "unset" -> queues[t] = DefaultCapacity
          [] OTHER -> FALSE

\* Whenever the interrupt comes, early, late or beside a task that shuts down
\* too, the process ends (main.rs:27).
InterruptEnds == interrupted ~> stage = "end"

=============================================================================
