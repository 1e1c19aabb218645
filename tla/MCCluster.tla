------------------------------ MODULE MCCluster ------------------------------
(***************************************************************************)
(* Instances of Cluster for TLC: what nodes advertise and what an owner    *)
(* registers, in any state and sometimes with a capability nobody can use. *)
(***************************************************************************)
EXTENDS Cluster

Sync == [id \in NodeIds |-> [metadata |-> "eu", capabilities |-> {"sync"}]]

Owned(state, capability) == NewNode(3, "eu", state, {capability})
AnyState == {Owned(state, "sync") : state \in NodeStates} \cup {Owned("Ready", " ")}

=============================================================================
