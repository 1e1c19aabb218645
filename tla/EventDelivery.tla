---------------------------- MODULE EventDelivery ----------------------------
(***************************************************************************)
(* Actions, the pipeline, the store and the bus put together, as the       *)
(* clients of a session see them: EventLog stands for the store,           *)
(* LossyStream for the bus, which MemoryEventStore and MemoryEventBus      *)
(* implement.  Any number of calls of Runtime::execute dispatch a batch    *)
(* each (pipeline.rs): every event is appended, and then one by one they   *)
(* are offered to the subscriptions.  A call may fail or be abandoned      *)
(* between any two of these; ActionRuntime has what comes before.          *)
(*                                                                         *)
(* A client is external, and uses the interface as it has to for a gapless *)
(* view of its session: it subscribes, replays what is stored, listens,    *)
(* and when it is told that it has missed something, it replays from where *)
(* its last replay has ended.                                              *)
(***************************************************************************)
EXTENDS Protocol, Sequences, Functions, FiniteSets

CONSTANTS Calls,       \* calls of Runtime::execute
          Assignments, \* the actions calls may execute; a retry has the same
          Clients,
          SessionOf,   \* the session a client wants to see
          Capacity,    \* of every subscription's queue
          MaxBatch,    \* bound: events of a call
          Now          \* what the clock may show

ASSUME DeliveryAssumption ==
    /\ Assignments \subseteq [Calls -> Actions]
    /\ SessionOf \in [Clients -> Sessions]
    /\ Capacity \in Nat \ {0}
    /\ MaxBatch \in [Calls -> Nat]
    /\ Now \subseteq Times
    /\ \A S \in SUBSET Clients : S # None

VARIABLES
    epoch, log, wants, place, seen, reads,       \* the store
    open, wanted, buffer, got, lost, told,       \* the bus
    action,      \* the action a call executes
    pc,          \* where a call is, or how it ended
    batch,       \* the events it dispatches
    appended,    \* how many of them it has appended
    announced,   \* how many publish has returned for
    todo,        \* the streams publish has yet to visit, None outside of it
    phase        \* where a client is

storeVars == <<epoch, log, wants, place, seen, reads>>
busVars == <<open, wanted, buffer, got, lost, told>>
callVars == <<pc, batch, appended, announced, todo>>
vars == <<storeVars, busVars, action, callVars, phase>>

EventOf(c, a, i, d, now) == Materialize(EventId(c, a, i), a, d, now)

Events == UNION {{EventOf(c, assignment[c], i, d, now) :
                     i \in 1..MaxBatch[c], d \in Drafts, now \in Now} :
                 c \in Calls, assignment \in Assignments}
MaxOfAll == CHOOSE n \in Range(MaxBatch) : \A m \in Range(MaxBatch) : m <= n
Messages == [by : Calls, num : 1..MaxOfAll, event : Events]

QueryOf(k) == ForSession(AllQuery, SessionOf[k])
FilterOf(k) == ForSession(AllFilter, SessionOf[k])

Store == INSTANCE EventLog WITH
    Readers <- Clients, Queries <- {QueryOf(k) : k \in Clients}, MaxEpochs <- 1
Bus == INSTANCE LossyStream WITH
    Streams <- Clients, Filters <- {FilterOf(k) : k \in Clients}

Init ==
    /\ Store!LogInit
    /\ Bus!StreamInit
    /\ action \in Assignments
    /\ pc = [c \in Calls |-> "idle"]
    /\ batch = [c \in Calls |-> <<>>]
    /\ appended = [c \in Calls |-> 0]
    /\ announced = [c \in Calls |-> 0]
    /\ todo = [c \in Calls |-> None]
    /\ phase = [k \in Clients |-> "off"]

(***************************************************************************)
(* A call of execute, from its handler's drafts on                         *)
(***************************************************************************)
Handle(c) ==
    /\ pc[c] = "idle"
    /\ \E n \in 0..MaxBatch[c] : \E drafts \in [1..n -> Drafts] : \E now \in Now :
          batch' = [batch EXCEPT ![c] =
                       [i \in 1..n |-> EventOf(c, action[c], i, drafts[i], now)]]
    /\ pc' = [pc EXCEPT ![c] = "store"]
    /\ UNCHANGED <<storeVars, busVars, action, appended, announced, todo, phase>>

\* append, which answers with the first record if the event is known.
AppendNext(c) ==
    /\ pc[c] = "store"
    /\ appended[c] < Len(batch[c])
    /\ appended' = [appended EXCEPT ![c] = @ + 1]
    /\ LET e == batch[c][appended[c] + 1]
       IN  IF e \in Range(log) THEN UNCHANGED storeVars ELSE Store!Record(e)
    /\ UNCHANGED <<busVars, action, pc, batch, announced, todo, phase>>

AllIsStored(c) == appended[c] = Len(batch[c])

StartPublishing(c) ==
    /\ pc[c] = "store"
    /\ AllIsStored(c)
    /\ pc' = [pc EXCEPT ![c] = "publish"]
    /\ UNCHANGED <<storeVars, busVars, action, batch, appended, announced, todo, phase>>

Message(c) ==
    [by |-> c, num |-> announced[c] + 1, event |-> batch[c][announced[c] + 1]]

\* Mutant: subscriptions whose queue is full are not visited.
TableWithRoom == {k \in open : Len(buffer[k]) < Capacity}

\* The table of subscriptions.
Table == open

BeginPublish(c) ==
    /\ pc[c] = "publish"
    /\ todo[c] = None
    /\ announced[c] < Len(batch[c])
    /\ todo' = [todo EXCEPT ![c] = Table]
    /\ UNCHANGED <<storeVars, busVars, action, pc, batch, appended, announced, phase>>

\* Mutant: an event is dropped without a trace.
DropSilently(c, k) ==
    Bus!Accept(k, Message(c)) \/ UNCHANGED busVars

Offer(c, k) ==
    \/ Bus!Accept(k, Message(c))
    \/ Matches(wanted[k], Message(c).event) /\ Bus!Miss(k)
    \/ /\ k \notin open \/ ~Matches(wanted[k], Message(c).event)
       /\ UNCHANGED busVars

VisitNext(c, k) ==
    /\ todo[c] # None
    /\ k \in todo[c]
    /\ Offer(c, k)
    /\ todo' = [todo EXCEPT ![c] = @ \ {k}]
    /\ UNCHANGED <<storeVars, action, pc, batch, appended, announced, phase>>

EndPublish(c) ==
    /\ todo[c] = {}
    /\ todo' = [todo EXCEPT ![c] = None]
    /\ announced' = [announced EXCEPT ![c] = @ + 1]
    /\ UNCHANGED <<storeVars, busVars, action, pc, batch, appended, phase>>

Succeed(c) ==
    /\ pc[c] = "publish"
    /\ announced[c] = Len(batch[c])
    /\ pc' = [pc EXCEPT ![c] = "ok"]
    /\ UNCHANGED <<storeVars, busVars, action, batch, appended, announced, todo, phase>>

\* A port fails, or the caller drops the call, between two awaits.
Fail(c) ==
    /\ pc[c] \in {"store", "publish"}
    /\ todo[c] = None
    /\ pc' = [pc EXCEPT ![c] = "failed"]
    /\ UNCHANGED <<storeVars, busVars, action, batch, appended, announced, todo, phase>>

(***************************************************************************)
(* A client                                                                *)
(***************************************************************************)
Goto(k, next) == phase' = [phase EXCEPT ![k] = next]

Connect(k) ==
    /\ phase[k] = "off"
    /\ Bus!Open(k, FilterOf(k))
    /\ Store!Begin(k, QueryOf(k))
    /\ Goto(k, "replaying")
    /\ UNCHANGED <<action, callVars>>

\* One page; the last one ends the replay.
Replay(k) ==
    /\ phase[k] = "replaying"
    /\ \E n \in place[k]..Len(log) :
          /\ n = Len(log) \/ n > place[k]
          /\ Store!Read(k, n)
          /\ IF n = Len(log) THEN Goto(k, "live") ELSE UNCHANGED phase
    /\ UNCHANGED <<busVars, action, callVars>>

Listen(k) ==
    /\ phase[k] = "live"
    /\ Bus!Deliver(k)
    /\ UNCHANGED <<storeVars, action, callVars, phase>>

HearOfLag(k) ==
    /\ phase[k] = "live"
    /\ \E n \in 1..(lost[k] - told[k]) : Bus!Tell(k, n)
    /\ Goto(k, "replaying")
    /\ UNCHANGED <<storeVars, action, callVars>>

Leave(k) ==
    /\ phase[k] \in {"replaying", "live"}
    /\ Bus!Shut(k)
    /\ Goto(k, "gone")
    /\ UNCHANGED <<storeVars, action, callVars>>

Dispatch(c) ==
    \/ AppendNext(c)
    \/ StartPublishing(c)
    \/ BeginPublish(c)
    \/ \E k \in Clients : VisitNext(c, k)
    \/ EndPublish(c)
    \/ Succeed(c)

Next ==
    \/ \E c \in Calls : Handle(c) \/ Dispatch(c) \/ Fail(c)
    \/ \E k \in Clients :
          Connect(k) \/ Replay(k) \/ Listen(k) \/ HearOfLag(k) \/ Leave(k)

Spec == Init /\ [][Next]_vars

\* A publish that has begun ends; a client goes on with its replay and takes
\* what its stream holds.  Whether it is told of a lag is the bus's affair.
FairSpec ==
    /\ Spec
    /\ \A c \in Calls : WF_vars(Dispatch(c))
    /\ \A k \in Clients : WF_vars(Replay(k)) /\ WF_vars(Listen(k))

(***************************************************************************)
(* Properties                                                              *)
(***************************************************************************)
Known(k) == Range(seen[k]) \cup {m.event : m \in Range(got[k])}
Buffered(k) == {m.event : m \in Range(buffer[k])}
Concerns(e, k) == Matches(FilterOf(k), e)

\* The events of c that have not been offered to k, and may never be.
Unoffered(c, k) ==
    {batch[c][i] : i \in {j \in DOMAIN batch[c] :
        /\ j > announced[c]
        /\ todo[c] # None /\ j = announced[c] + 1 => k \in todo[c]}}

\* A client that has replayed and listens has no gap it cannot know of: each
\* stored event of its session it has been given, or has in its queue, or is
\* about to hear that it has missed something, or the event has not been
\* published (pipeline.rs:31-41: concurrent dispatches append in one order and
\* publish in another, and subscribing and replaying race both).
NothingMissed ==
    \A k \in Clients : phase[k] = "live" =>
        \A e \in Range(log) : Concerns(e, k) =>
            \/ e \in Known(k) \cup Buffered(k)
            \/ lost[k] > told[k]
            \/ \E c \in Calls : e \in Unoffered(c, k)

\* An action that is executed again after a failure leaves the events of both
\* calls in the log: none stands for another's (runtime.rs:69).
AppendedFor(a) ==
    UNION {{c} \X (1..appended[c]) : c \in {d \in Calls : action[d].id = a}}
RetriesAddUp ==
    \A a \in ActionIds :
        Cardinality({i \in DOMAIN log : log[i].action = a}) =
        Cardinality(AppendedFor(a))

Published == UNION {{batch[c][i] : i \in 1..announced[c]} : c \in Calls}

\* What has been published of its session reaches every client that is
\* connected by then and stays, or leaves it with a miss to be told of.
Reaches ==
    \A k \in Clients : \A e \in {f \in Events : Concerns(f, k)} :
        e \in Published /\ phase[k] = "live"
            ~> e \in Known(k) \/ lost[k] > told[k] \/ phase[k] = "gone"

=============================================================================
