--------------------------- MODULE MCActionRuntime ---------------------------
(***************************************************************************)
(* Instances of ActionRuntime for TLC: all calls are of one action type,   *)
(* so that they compete for one registration.                              *)
(***************************************************************************)
EXTENDS ActionRuntime

OneType == [c \in Calls |-> CHOOSE t \in Types : TRUE]

=============================================================================
