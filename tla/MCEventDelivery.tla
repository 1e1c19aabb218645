--------------------------- MODULE MCEventDelivery ---------------------------
(***************************************************************************)
(* Instances of EventDelivery for TLC: two calls in one session, the       *)
(* second of them a retry of the first, or in two sessions.                *)
(***************************************************************************)
EXTENDS EventDelivery

CONSTANTS a1, a2, s1, s2

Draw == [id |-> a1, session |-> s1, actor |-> "u", type |-> "draw"]
Retried == [c \in Calls |-> Draw]

\* The first call has two events, the second one, which may be elsewhere.
First == CHOOSE c \in Calls : TRUE
Apart == [c \in Calls |-> IF c = First THEN Draw
                          ELSE [Draw EXCEPT !.id = a2, !.session = s2]]
Either == {Retried, Apart}
TwoThenOne == [c \in Calls |-> IF c = First THEN 2 ELSE 1]

InFirst == [k \in Clients |-> s1]
Noon == {12}
NoBlank == {}

=============================================================================
