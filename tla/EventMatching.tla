--------------------------- MODULE EventMatching ---------------------------
(***************************************************************************)
(* What it means for an event to satisfy a subscription filter             *)
(* (orbitrelay-sync, EventFilter) or a storage query (orbitrelay-storage,  *)
(* EventQuery).  The two types accept sessions, actors and event types the *)
(* same way; a query has a half-open interval of occurrence times besides. *)
(*                                                                         *)
(* An event is any record with the fields session, actor, type and at; a   *)
(* filter one with session, actor and types; a query also has from and     *)
(* until.  A field holding None is one its builder was never given.        *)
(***************************************************************************)
EXTENDS Integers

CONSTANTS None,        \* Option::None
          BlankTypes   \* the event types that are empty once trimmed

\* EventFilter: what its builders make.  A builder that sets one field of a
\* filter sets the same field of a query.
AllFilter == [session |-> None, actor |-> None, types |-> {}]
ForSession(f, session) == [f EXCEPT !.session = session]
WithActorId(f, actor) == [f EXCEPT !.actor = actor]
WithEventType(f, type) == [f EXCEPT !.types = @ \cup {type}]

\* EventQuery: a query for everything, and its two builders of its own.
DefaultLimit == 100
AllQuery == [session |-> None, actor |-> None, types |-> {},
             from |-> None, until |-> None, limit |-> DefaultLimit]
WithTimeRange(q, from, until) == [q EXCEPT !.from = from, !.until = until]
WithLimit(q, limit) == [q EXCEPT !.limit = limit]

Accepts(wanted, actual) == wanted \in {None, actual}

\* An empty set of types accepts every type.
AcceptsType(types, type) == types # {} => type \in types

Matches(f, e) ==
    /\ Accepts(f.session, e.session)
    /\ Accepts(f.actor, e.actor)
    /\ AcceptsType(f.types, e.type)

IsValid(f) == f.types \cap BlankTypes = {}

Occurred(q, e) ==
    /\ q.from # None => e.at >= q.from
    /\ q.until # None => e.at < q.until

QueryMatches(q, e) == Matches(q, e) /\ Occurred(q, e)

=============================================================================
