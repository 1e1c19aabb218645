--------------------------- MODULE ServerLifecycle ---------------------------
(***************************************************************************)
(* The lifecycle state machine of orbitrelay-server (lifecycle.rs) and the *)
(* health derived from it (health.rs).  The two live behind two locks: a   *)
(* transition writes the state and, still holding the lock of the state,   *)
(* the health, so that whoever reads the health alone can see it one step  *)
(* behind.                                                                 *)
(***************************************************************************)
CONSTANTS None,      \* nothing
          Threads    \* whoever makes transitions

VARIABLES
    lifecycle,   \* LifecycleState
    health,      \* HealthState
    setting      \* the state a thread has set but whose health it has not

lifecycleVars == <<lifecycle, health, setting>>

LifecycleStates == {"Starting", "Ready", "Draining", "Stopped"}
HealthStates == {"Starting", "Ready", "Degraded", "Stopping", "Stopped"}
Operations == {"start", "ready", "begin_shutdown", "stop"}

ASSUME LifecycleAssumption == None \notin LifecycleStates

LifecycleTypeOK ==
    /\ lifecycle \in LifecycleStates
    /\ health \in HealthStates
    /\ setting \in [Threads -> LifecycleStates \cup {None}]

\* Mutant: the health is the state.
StateAsHealth(state) == state

\* health_for: only the name of draining differs.
HealthFor(state) == IF state = "Draining" THEN "Stopping" ELSE state

\* ServerLifecycle::new: a stopped process.
LifecycleInit ==
    /\ lifecycle = "Stopped"
    /\ health = HealthFor("Stopped")
    /\ setting = [t \in Threads |-> None]

\* Mutant: a shutdown can be begun again while it is in progress.
AllowedAgain(op) ==
    CASE op = "start"          -> {"Stopped"}
      [] op = "ready"          -> {"Starting"}
      [] op = "begin_shutdown" -> {"Starting", "Ready", "Draining"}
      [] op = "stop"           -> {"Draining"}

AllowedFrom(op) ==
    CASE op = "start"          -> {"Stopped"}
      [] op = "ready"          -> {"Starting"}
      [] op = "begin_shutdown" -> {"Starting", "Ready"}
      [] op = "stop"           -> {"Draining"}

Target(op) ==
    CASE op = "start"          -> "Starting"
      [] op = "ready"          -> "Ready"
      [] op = "begin_shutdown" -> "Draining"
      [] op = "stop"           -> "Stopped"

\* Mutant: the lock is released before the health is written.
Unlocked == TRUE

\* The write lock of the state is free.
Free == \A t \in Threads : setting[t] = None

Allowed(op) == Free /\ lifecycle \in AllowedFrom(op)
Refused(op) == Free /\ lifecycle \notin AllowedFrom(op)

Transition(t, op) ==
    /\ Allowed(op)
    /\ lifecycle' = Target(op)
    /\ setting' = [setting EXCEPT ![t] = Target(op)]
    /\ UNCHANGED health

SetHealth(t) ==
    /\ setting[t] # None
    /\ health' = HealthFor(setting[t])
    /\ setting' = [setting EXCEPT ![t] = None]
    /\ UNCHANGED lifecycle

=============================================================================
