------------------------- MODULE MCMemoryEventStore -------------------------
(***************************************************************************)
(* Instances of MemoryEventStore for TLC: four events of three ids, the    *)
(* last two of which conflict, and queries that page one by one, two by    *)
(* two, over a session, over an interval of time, or are invalid.          *)
(***************************************************************************)
EXTENDS MemoryEventStore

AnyEvent == [id |-> 1, session |-> "s", actor |-> "a", type |-> "t", at |-> 1]
MCEvents == {AnyEvent,
             [AnyEvent EXCEPT !.id = 2, !.at = 2],
             [AnyEvent EXCEPT !.id = 3, !.at = 1],
             [AnyEvent EXCEPT !.id = 3, !.session = "other"]}

Everything == WithLimit(AllQuery, 1)
MCQueries == {Everything,
              WithLimit(ForSession(AllQuery, "s"), 2),
              WithTimeRange(Everything, 2, 3),
              WithTimeRange(Everything, 2, 2),
              WithLimit(AllQuery, 3)}
MCBlank == {" "}

=============================================================================
