-------------------------- MODULE LifecycleClients --------------------------
(***************************************************************************)
(* Threads that share one ServerLifecycle and call its methods in any      *)
(* order: what "a thread-safe state machine" (lifecycle.rs:35) promises    *)
(* whatever its clients do.                                                *)
(***************************************************************************)
EXTENDS ServerLifecycle

VARIABLE request    \* the method a thread is calling, None outside a call

clientVars == <<lifecycleVars, request>>

ClientTypeOK ==
    /\ LifecycleTypeOK
    /\ request \in [Threads -> Operations \cup {None}]

ClientInit ==
    /\ LifecycleInit
    /\ request = [t \in Threads |-> None]

Call(t, op) ==
    /\ request[t] = None
    /\ request' = [request EXCEPT ![t] = op]
    /\ UNCHANGED lifecycleVars

Change(t) ==
    /\ request[t] # None
    /\ setting[t] = None
    /\ Transition(t, request[t])
    /\ UNCHANGED request

\* The health is written, the lock released and the call answered.
Answer(t) ==
    /\ SetHealth(t)
    /\ request' = [request EXCEPT ![t] = None]

\* LifecycleError, with nothing changed.
Reject(t) ==
    /\ request[t] # None
    /\ setting[t] = None
    /\ Refused(request[t])
    /\ request' = [request EXCEPT ![t] = None]
    /\ UNCHANGED lifecycleVars

ClientNext ==
    \E t \in Threads :
        \/ \E op \in Operations : Call(t, op)
        \/ Change(t)
        \/ Answer(t)
        \/ Reject(t)

ClientSpec == ClientInit /\ [][ClientNext]_clientVars

(***************************************************************************)
(* Properties                                                              *)
(***************************************************************************)
\* Whenever no transition is under way the health is that of the state:
\* transitions that race never leave the health of an earlier one behind
\* (lifecycle.rs:97-111).
HealthAgrees ==
    (\A t \in Threads : setting[t] = None) => health = HealthFor(lifecycle)

\* The changes of health that the documented life of a process allows.
HealthOrder ==
    {<<"Stopped", "Starting">>, <<"Starting", "Ready">>,
     <<"Starting", "Stopping">>, <<"Ready", "Stopping">>,
     <<"Stopping", "Stopped">>}

\* An observer that only reads the health sees the process go through the
\* states of its life in their order and skip none, although the health is
\* written after the state and under another lock.
HealthCycle == [][(<<health, health'>> \in HealthOrder)]_health

=============================================================================
