-------------------------- MODULE MCMemoryEventBus --------------------------
(***************************************************************************)
(* Instances of MemoryEventBus for TLC: two kinds of events and filters    *)
(* that accept all of them or one of them, or are rejected by subscribe.   *)
(***************************************************************************)
EXTENDS MemoryEventBus, TLC

CONSTANTS mine, other

AnyEvent == [session |-> mine, actor |-> "a", type |-> "t"]
MCEvents == {AnyEvent, [AnyEvent EXCEPT !.session = other]}
OneEvent == {AnyEvent}

MCFilters == {AllFilter,
              ForSession(AllFilter, other),
              WithEventType(AllFilter, " ")}
OneFilter == {AllFilter}
MCBlank == {" "}

Symmetric == Permutations(Publishers) \cup Permutations(Subscriptions)

=============================================================================
