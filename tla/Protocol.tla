------------------------------ MODULE Protocol ------------------------------
(***************************************************************************)
(* The values the protocol is about (orbitrelay-protocol): actions that    *)
(* actors request in sessions, drafts of events that handlers make of them *)
(* and the events the runtime makes of the drafts.  Payloads and metadata  *)
(* are passed on unread and left out; identifiers are compared only.       *)
(***************************************************************************)
EXTENDS EventMatching

CONSTANTS Sessions, Actors, ActionIds, ActionTypes, EventTypes

Times == Nat

Actions == [id : ActionIds, session : Sessions, actor : Actors,
            type : ActionTypes]

Drafts == [type : EventTypes]

EventsWith(ids) == [id : ids, session : Sessions, actor : Actors,
                    action : ActionIds, type : EventTypes, at : Times]

\* Mutant: a draft's event is identified by the action it comes from.
IdOfAction(call, action, index) == <<action.id, index>>

\* EventId::new: the index-th event of one call is no other's.
EventId(call, action, index) == <<call, index>>

TypeOfDraft(action, draft) == draft.type

\* What only the runtime assigns: the identity, the cause and the time.
Materialize(id, action, draft, now) ==
    [id |-> id, session |-> action.session, actor |-> action.actor,
     action |-> action.id, type |-> TypeOfDraft(action, draft), at |-> now]

=============================================================================
