---------------------------- MODULE ActionRuntime ----------------------------
(***************************************************************************)
(* The action lifecycle of orbitrelay-runtime (runtime.rs) with the        *)
(* handler registry it looks handlers up in (registry.rs) and the pipeline *)
(* adapter of orbitrelay-server it dispatches events to (pipeline.rs).     *)
(* Each call of Runtime::execute is a chain of awaits on ports: validate   *)
(* and handle of the handler, the authorizer, append of the store and      *)
(* publish of the bus.  Any of them may fail, calls interleave at every    *)
(* await, their callers may drop them there, and handlers come and go      *)
(* meanwhile.                                                              *)
(*                                                                         *)
(* The store and the bus are the ports: MemoryEventStore and               *)
(* MemoryEventBus fail only with a poisoned lock, others may fail before   *)
(* or after they have taken the event.  An action that is executed again   *)
(* is another call: its events get new identities (runtime.rs:69).         *)
(***************************************************************************)
EXTENDS Integers, Sequences, Functions

CONSTANTS None,         \* nothing
          Types,        \* action types
          Handlers,     \* action handlers
          Calls,        \* calls of Runtime::execute
          TypeOf,       \* the type of a call's action
          MaxDrafts     \* bound: events of one action

ASSUME RuntimeAssumption ==
    /\ TypeOf \in [Calls -> Types]
    /\ MaxDrafts \in Nat
    /\ None \notin Handlers

VARIABLES
    handlers,     \* HandlerRegistry: type -> handler, None if there is none
    pc,           \* where a call is, or how it ended
    handler,      \* the Arc of its handler
    validator,    \* history: the handler that validated its action
    authorized,   \* history: the calls whose action was authorized
    maker,        \* the handler that made its drafts
    size,         \* how many there are
    at,           \* how many of them the current loop of dispatch has passed
    stored,       \* the store, in append order
    published     \* what publish was called for, in that order

registryVars == handlers
callVars == <<pc, handler, validator, authorized, maker, size, at>>
portVars == <<stored, published>>
vars == <<registryVars, callVars, portVars>>

Running == {"validate", "authorize", "handle", "store", "publish"}
NeverDispatched ==
    {"not_found", "invalid", "denied", "handler_failed"}
Ended == NeverDispatched \cup {"pipeline_failed", "abandoned", "ok"}

Events == [call : Calls, by : Handlers, size : 1..MaxDrafts,
           index : 1..MaxDrafts]

\* The i-th event materialized from a call's drafts.
EventOf(c, i) == [call |-> c, by |-> maker[c], size |-> size[c], index |-> i]

TypeOK ==
    /\ handlers \in [Types -> Handlers \cup {None}]
    /\ pc \in [Calls -> {"idle"} \cup Running \cup Ended]
    /\ handler \in [Calls -> Handlers \cup {None}]
    /\ validator \in [Calls -> Handlers \cup {None}]
    /\ authorized \subseteq Calls
    /\ maker \in [Calls -> Handlers \cup {None}]
    /\ size \in [Calls -> 0..MaxDrafts]
    /\ at \in [Calls -> 0..MaxDrafts]
    /\ stored \in Seq(Events)
    /\ published \in Seq(Events)

Init ==
    /\ handlers = [t \in Types |-> None]
    /\ pc = [c \in Calls |-> "idle"]
    /\ handler = [c \in Calls |-> None]
    /\ validator = [c \in Calls |-> None]
    /\ authorized = {}
    /\ maker = [c \in Calls |-> None]
    /\ size = [c \in Calls |-> 0]
    /\ at = [c \in Calls |-> 0]
    /\ stored = <<>>
    /\ published = <<>>

Goto(c, step) == pc' = [pc EXCEPT ![c] = step]

(***************************************************************************)
(* HandlerRegistry                                                         *)
(***************************************************************************)
\* A registration is refused, with no effect, while there is another.
Register(t, h) ==
    /\ handlers[t] = None
    /\ handlers' = [handlers EXCEPT ![t] = h]
    /\ UNCHANGED <<callVars, portVars>>

Unregister(t) ==
    /\ handlers[t] # None
    /\ handlers' = [handlers EXCEPT ![t] = None]
    /\ UNCHANGED <<callVars, portVars>>

(***************************************************************************)
(* Runtime::execute up to dispatch                                         *)
(***************************************************************************)
Find(c) ==
    /\ pc[c] = "idle"
    /\ handlers[TypeOf[c]] # None
    /\ handler' = [handler EXCEPT ![c] = handlers[TypeOf[c]]]
    /\ Goto(c, "validate")
    /\ UNCHANGED <<registryVars, validator, authorized, maker, size, at,
                   portVars>>

FindNone(c) ==
    /\ pc[c] = "idle"
    /\ handlers[TypeOf[c]] = None
    /\ Goto(c, "not_found")
    /\ UNCHANGED <<registryVars, handler, validator, authorized, maker, size,
                   at, portVars>>

\* Mutant: the registry is asked again.
LookUpAgain(c) == handlers[TypeOf[c]]

\* The call keeps the Arc it found, whatever becomes of the registration.
HandlerOf(c) == handler[c]

Validate(c) ==
    /\ pc[c] = "validate"
    /\ validator' = [validator EXCEPT ![c] = HandlerOf(c)]
    /\ Goto(c, "authorize")
    /\ UNCHANGED <<registryVars, handler, authorized, maker, size, at,
                   portVars>>

Authorize(c) ==
    /\ pc[c] = "authorize"
    /\ authorized' = authorized \cup {c}
    /\ Goto(c, "handle")
    /\ UNCHANGED <<registryVars, handler, validator, maker, size, at,
                   portVars>>

\* The handler's drafts become events, none of which is anywhere yet.
Handle(c) ==
    /\ pc[c] = "handle"
    /\ maker' = [maker EXCEPT ![c] = HandlerOf(c)]
    /\ \E n \in 0..MaxDrafts : size' = [size EXCEPT ![c] = n]
    /\ Goto(c, "store")
    /\ UNCHANGED <<registryVars, handler, validator, authorized, at, portVars>>

\* The error that ends a call when the port it awaits answers with one.
ErrorOf == [validate |-> "invalid", authorize |-> "denied",
            handle |-> "handler_failed"]

Refuse(c) ==
    /\ pc[c] \in DOMAIN ErrorOf
    /\ Goto(c, ErrorOf[pc[c]])
    /\ UNCHANGED <<registryVars, handler, validator, authorized, maker, size,
                   at, portVars>>

(***************************************************************************)
(* PipelineAdapter::dispatch: one loop over the batch that appends, and    *)
(* one that publishes                                                      *)
(***************************************************************************)
dispatchRest == <<registryVars, handler, validator, authorized, maker, size>>

HasNext(c) == at[c] < size[c]
NextEvent(c) == EventOf(c, at[c] + 1)

Advance(c) == [at EXCEPT ![c] = @ + 1]

\* Mutant: the second loop begins when the first has stored an event.
StoreHasGoneAhead(c) == pc[c] = "store" /\ at[c] = 1

StoreIsDone(c) == pc[c] = "store" /\ ~HasNext(c)

StoreNext(c) ==
    /\ pc[c] = "store"
    /\ HasNext(c)
    /\ stored' = Append(stored, NextEvent(c))
    /\ at' = Advance(c)
    /\ UNCHANGED <<dispatchRest, pc, published>>

\* Mutant: the second loop goes on where the first has ended.
KeepPlace(c) == at

Rewind(c) == [at EXCEPT ![c] = 0]

StartPublishing(c) ==
    /\ StoreIsDone(c)
    /\ at' = Rewind(c)
    /\ Goto(c, "publish")
    /\ UNCHANGED <<dispatchRest, portVars>>

PublishNext(c) ==
    /\ pc[c] = "publish"
    /\ HasNext(c)
    /\ published' = Append(published, NextEvent(c))
    /\ at' = Advance(c)
    /\ UNCHANGED <<dispatchRest, pc, stored>>

Succeed(c) ==
    /\ pc[c] = "publish"
    /\ ~HasNext(c)
    /\ Goto(c, "ok")
    /\ UNCHANGED <<dispatchRest, at, portVars>>

\* append or publish fails, with or without effect, and ends the dispatch.
FailToStore(c) ==
    /\ pc[c] = "store"
    /\ HasNext(c)
    /\ stored' \in {stored, Append(stored, NextEvent(c))}
    /\ Goto(c, "pipeline_failed")
    /\ UNCHANGED <<dispatchRest, at, published>>

FailToPublish(c) ==
    /\ pc[c] = "publish"
    /\ HasNext(c)
    /\ published' \in {published, Append(published, NextEvent(c))}
    /\ Goto(c, "pipeline_failed")
    /\ UNCHANGED <<dispatchRest, at, stored>>

(***************************************************************************)
(* The whole system                                                        *)
(***************************************************************************)
\* The caller drops the future of execute at one of its awaits.
Abandon(c) ==
    /\ pc[c] \in Running
    /\ Goto(c, "abandoned")
    /\ UNCHANGED <<dispatchRest, at, portVars>>

Execute(c) ==
    \/ Find(c) \/ FindNone(c)
    \/ Validate(c) \/ Authorize(c) \/ Handle(c) \/ Refuse(c)
    \/ StoreNext(c) \/ StartPublishing(c) \/ PublishNext(c) \/ Succeed(c)
    \/ FailToStore(c) \/ FailToPublish(c)

Next ==
    \/ \E t \in Types : Unregister(t) \/ \E h \in Handlers : Register(t, h)
    \/ \E c \in Calls : Execute(c) \/ Abandon(c)

Spec == Init /\ [][Next]_vars

\* Calls that have begun are polled and the ports answer them.
Poll(c) == pc[c] # "idle" /\ Execute(c)
FairSpec == Spec /\ \A c \in Calls : WF_vars(Poll(c))

(***************************************************************************)
(* Properties                                                              *)
(***************************************************************************)
\* However calls interleave, fail and are dropped, the store and the bus show
\* the append-only, batch-by-batch write-ahead order of WriteAhead
\* ("Persists a complete event batch before publishing it", pipeline.rs:11).
Journal == INSTANCE WriteAhead
StoredBeforePublished == Journal!Spec

\* Every event in the store comes from an action that was authorized and
\* that the very handler which made the event has validated, even if another
\* handler has been registered for its type in between (runtime.rs:33-62).
ApprovedByItsMaker ==
    \A e \in Range(stored) :
        /\ e.call \in authorized
        /\ e.by = validator[e.call]

\* The first n events of a call's batch, and all that are in a log.
FirstOf(c, n) == {EventOf(c, i) : i \in 1..n}
Its(c, log) == {e \in Range(log) : e.call = c}

\* A caller can rely on its answer: Ok means that exactly the events returned
\* are stored and announced, an error of any stage before the pipeline that
\* there is no trace of the call.  A failed pipeline and an abandoned call
\* leave the beginning of a batch, and of an announced one all is stored.
AnswerTellsOutcome ==
    \A c \in Calls :
        /\ pc[c] = "ok" => /\ Its(c, stored) = FirstOf(c, size[c])
                           /\ Its(c, published) = FirstOf(c, size[c])
        /\ pc[c] \in NeverDispatched => Its(c, stored) = {} /\ Its(c, published) = {}
        /\ pc[c] \in {"pipeline_failed", "abandoned"} =>
              \E i, j \in 0..size[c] : /\ Its(c, stored) = FirstOf(c, i)
                                      /\ Its(c, published) = FirstOf(c, j)
                                      /\ j > 0 => i = size[c]

\* A call whose ports answer ends.
CallsEnd == \A c \in Calls : pc[c] \in Running ~> pc[c] \in Ended

=============================================================================
