--------------------------- MODULE MemoryEventBus ---------------------------
(***************************************************************************)
(* The in-process event bus of orbitrelay-sync (memory.rs): a table of     *)
(* subscriptions behind a reader/writer lock, a bounded channel and an     *)
(* atomic counter of missed events per subscription, any number of threads *)
(* that publish, and one task per subscription that consumes.              *)
(*                                                                         *)
(* publish holds the read lock while it offers its event to the            *)
(* subscriptions one by one, in the arbitrary order of a HashMap; a full   *)
(* queue costs two separate steps, the failed try_send and the increment   *)
(* of the counter.  subscribe, detach and the removal of the subscriptions *)
(* found closed take the write lock, which no reader may hold.             *)
(*                                                                         *)
(* tokio's mpsc channel is external: try_send, recv and close are single   *)
(* steps here.  The history variables at the end of the list are read by   *)
(* the properties only.                                                    *)
(***************************************************************************)
EXTENDS EventMatching, Sequences, FiniteSets

CONSTANTS Publishers,      \* threads that call publish
          Subscriptions,   \* the ids subscribe hands out, each of them once
          Events,          \* what is published
          Filters,         \* what is subscribed to
          QueueCapacity,   \* of every subscription's channel
          MaxLag,          \* u64::MAX, where the missed counter saturates
          MaxPublished     \* bound: calls of publish by one publisher

ASSUME BusAssumption ==
    /\ IsFiniteSet(Publishers)
    /\ None \notin Subscriptions
    /\ QueueCapacity \in Nat \ {0}
    /\ MaxLag \in Nat \ {0}
    /\ MaxPublished \in Nat

\* No filter is the filter of a subscription that does not exist yet.
ASSUME FilterAssumption == None \notin Filters

VARIABLES
    alive,            \* some clone of the bus still owns the shared state
    subscribers,      \* the keys of the table of subscriptions
    filter,           \* the filter a subscription was created with
    queue,            \* the content of its channel
    rxClosed,         \* its receiver has been closed
    lagged,           \* its counter of missed events
    task,             \* where its consumer is
    closed,           \* MemorySubscription.closed
    receiveAfterLag,  \* MemorySubscription.receive_after_lag
    result,           \* what its last next_event answered
    pc,               \* where a publisher is
    event,            \* the event it publishes
    todo,             \* the subscriptions it still has to visit
    at,               \* the one whose full queue it has yet to count
    found,            \* the ones it found closed
    published,        \* history: the calls of publish a publisher has begun
    owed,             \* history: matching publishes begun while registered
    dropped,          \* history: events refused because the queue was full
    reported,         \* history: the sum of the `missed` of its lag errors
    delivered,        \* history: the items next_event has returned
    overdue           \* history: deliveries since `lagged` last left zero

busVars  == <<alive, subscribers>>
chanVars == <<filter, queue, rxClosed, lagged>>
subVars  == <<task, closed, receiveAfterLag, result>>
pubVars  == <<pc, event, todo, at, found>>
hist     == <<published, owed, dropped, reported, delivered, overdue>>
vars     == <<busVars, chanVars, subVars, pubVars, hist>>

\* A queued event: its publisher, the number of the publish call, and `gap`,
\* the events the subscription had dropped when it was queued.
Items == [by : Publishers, num : Nat, event : Events, gap : Nat]

\* What the last next_event answered: an event, an error, None at the end.
Answers == {"none", "event", "lagged", "closed", "end", "cancelled"}

TypeOK ==
    /\ alive \in BOOLEAN
    /\ subscribers \in SUBSET Subscriptions
    /\ filter \in [Subscriptions -> Filters \cup {None}]
    /\ queue \in [Subscriptions -> Seq(Items)]
    /\ \A s \in Subscriptions : Len(queue[s]) <= QueueCapacity
    /\ rxClosed \in [Subscriptions -> BOOLEAN]
    /\ lagged \in [Subscriptions -> 0..MaxLag]
    /\ task \in [Subscriptions -> {"unborn", "idle", "receiving", "closing",
                                   "dropping", "dropped"}]
    /\ closed \in [Subscriptions -> BOOLEAN]
    /\ receiveAfterLag \in [Subscriptions -> BOOLEAN]
    /\ result \in [Subscriptions -> Answers]
    /\ pc \in [Publishers -> {"idle", "offering", "purging"}]
    /\ event \in [Publishers -> Events \cup {None}]
    /\ \A p \in Publishers : pc[p] = "offering" => event[p] \in Events
    /\ todo \in [Publishers -> SUBSET Subscriptions]
    /\ at \in [Publishers -> Subscriptions \cup {None}]
    /\ found \in [Publishers -> SUBSET Subscriptions]
    /\ published \in [Publishers -> Nat]
    /\ owed \in [Subscriptions -> Nat]
    /\ dropped \in [Subscriptions -> Nat]
    /\ reported \in [Subscriptions -> Nat]
    /\ delivered \in [Subscriptions -> Seq(Items)]
    /\ overdue \in [Subscriptions -> Nat]

Init ==
    /\ alive = TRUE
    /\ subscribers = {}
    /\ filter = [s \in Subscriptions |-> None]
    /\ queue = [s \in Subscriptions |-> <<>>]
    /\ rxClosed = [s \in Subscriptions |-> FALSE]
    /\ lagged = [s \in Subscriptions |-> 0]
    /\ task = [s \in Subscriptions |-> "unborn"]
    /\ closed = [s \in Subscriptions |-> FALSE]
    /\ receiveAfterLag = [s \in Subscriptions |-> FALSE]
    /\ result = [s \in Subscriptions |-> "none"]
    /\ pc = [p \in Publishers |-> "idle"]
    /\ event = [p \in Publishers |-> None]
    /\ todo = [p \in Publishers |-> {}]
    /\ at = [p \in Publishers |-> None]
    /\ found = [p \in Publishers |-> {}]
    /\ published = [p \in Publishers |-> 0]
    /\ owed = [s \in Subscriptions |-> 0]
    /\ dropped = [s \in Subscriptions |-> 0]
    /\ reported = [s \in Subscriptions |-> 0]
    /\ delivered = [s \in Subscriptions |-> <<>>]
    /\ overdue = [s \in Subscriptions |-> 0]

(***************************************************************************)
(* publish                                                                 *)
(***************************************************************************)
\* The write lock can be taken: no publisher is iterating over the table.
NoReader == \A p \in Publishers : pc[p] # "offering"

BeginPublish(p, e) ==
    /\ alive
    /\ pc[p] = "idle"
    /\ published[p] < MaxPublished
    /\ pc' = [pc EXCEPT ![p] = "offering"]
    /\ event' = [event EXCEPT ![p] = e]
    /\ todo' = [todo EXCEPT ![p] = subscribers]
    /\ published' = [published EXCEPT ![p] = @ + 1]
    /\ owed' = [s \in Subscriptions |->
                   IF s \in subscribers /\ Matches(filter[s], e)
                   THEN owed[s] + 1 ELSE owed[s]]
    /\ UNCHANGED <<busVars, chanVars, subVars, at, found,
                   dropped, reported, delivered, overdue>>

\* The publisher turns to another entry of the table.
Visiting(p, s) == pc[p] = "offering" /\ at[p] = None /\ s \in todo[p]

\* Mutant: the loop comes back to the entry it has just dealt with.
VisitAgain(p, s) == todo

VisitNext(p, s) == [todo EXCEPT ![p] = @ \ {s}]

Skip(p, s) ==
    /\ Visiting(p, s)
    /\ ~Matches(filter[s], event[p])
    /\ todo' = VisitNext(p, s)
    /\ UNCHANGED <<busVars, chanVars, subVars, pc, event, at, found, hist>>

\* Mutant: off by one.
HasRoomForOneMore(s) == Len(queue[s]) <= QueueCapacity

\* What try_send makes of the channel: Closed takes precedence over Full.
HasRoom(s) == Len(queue[s]) < QueueCapacity

\* Mutant: a subscription is sent what its filter refuses.
SendAny(p, s) ==
    /\ Visiting(p, s)
    /\ ~rxClosed[s]
    /\ HasRoom(s)
    /\ queue' = [queue EXCEPT ![s] =
                    Append(@, [by |-> p, num |-> published[p],
                               event |-> event[p], gap |-> dropped[s]])]
    /\ todo' = VisitNext(p, s)
    /\ UNCHANGED <<busVars, filter, rxClosed, lagged, subVars,
                   pc, event, at, found, hist>>

Send(p, s) ==
    /\ Visiting(p, s)
    /\ Matches(filter[s], event[p])
    /\ ~rxClosed[s]
    /\ HasRoom(s)
    /\ queue' = [queue EXCEPT ![s] =
                    Append(@, [by |-> p, num |-> published[p],
                               event |-> event[p], gap |-> dropped[s]])]
    /\ todo' = VisitNext(p, s)
    /\ UNCHANGED <<busVars, filter, rxClosed, lagged, subVars,
                   pc, event, at, found, hist>>

\* Mutant: send().await instead of try_send, which waits for room.
WaitForRoom(p, s) ==
    /\ Visiting(p, s)
    /\ Matches(filter[s], event[p])
    /\ ~rxClosed[s]
    /\ ~HasRoom(s)
    /\ UNCHANGED vars

\* The first half of a lost event: try_send answers Full.
Full(p, s) ==
    /\ Visiting(p, s)
    /\ Matches(filter[s], event[p])
    /\ ~rxClosed[s]
    /\ ~HasRoom(s)
    /\ at' = [at EXCEPT ![p] = s]
    /\ todo' = VisitNext(p, s)
    /\ dropped' = [dropped EXCEPT ![s] = @ + 1]
    /\ UNCHANGED <<busVars, chanVars, subVars, pc, event, found,
                   published, owed, reported, delivered, overdue>>

\* Mutant: wrapping_add(1).
WrappingIncrement(n) == (n + 1) % (MaxLag + 1)

\* saturating_add(1)
SaturatingIncrement(n) == IF n < MaxLag THEN n + 1 ELSE n

\* The second half, at any later time: fetch_update.
CountMissed(p) ==
    /\ at[p] # None
    /\ lagged' = [lagged EXCEPT ![at[p]] = SaturatingIncrement(@)]
    /\ at' = [at EXCEPT ![p] = None]
    /\ UNCHANGED <<busVars, filter, queue, rxClosed, subVars,
                   pc, event, todo, found, hist>>

FindClosed(p, s) ==
    /\ Visiting(p, s)
    /\ Matches(filter[s], event[p])
    /\ rxClosed[s]
    /\ found' = [found EXCEPT ![p] = @ \cup {s}]
    /\ todo' = VisitNext(p, s)
    /\ UNCHANGED <<busVars, chanVars, subVars, pc, event, at, hist>>

\* The end of the loop releases the read lock.
EndVisit(p) ==
    /\ pc[p] = "offering"
    /\ at[p] = None
    /\ todo[p] = {}
    /\ pc' = [pc EXCEPT ![p] = IF found[p] = {} THEN "idle" ELSE "purging"]
    /\ UNCHANGED <<busVars, chanVars, subVars, event, todo, at, found, hist>>

\* Under the write lock, the subscriptions found closed leave the table.
Purge(p) ==
    /\ pc[p] = "purging"
    /\ NoReader
    /\ subscribers' = subscribers \ found[p]
    /\ found' = [found EXCEPT ![p] = {}]
    /\ pc' = [pc EXCEPT ![p] = "idle"]
    /\ UNCHANGED <<alive, chanVars, subVars, event, todo, at, hist>>

(***************************************************************************)
(* subscribe                                                               *)
(***************************************************************************)
Subscribe(s, f) ==
    /\ alive
    /\ task[s] = "unborn"
    /\ IsValid(f)
    /\ NoReader
    /\ subscribers' = subscribers \cup {s}
    /\ filter' = [filter EXCEPT ![s] = f]
    /\ task' = [task EXCEPT ![s] = "idle"]
    /\ UNCHANGED <<alive, queue, rxClosed, lagged, closed, receiveAfterLag,
                   result, pubVars, hist>>

(***************************************************************************)
(* next_event                                                              *)
(***************************************************************************)
NextEventClosed(s) ==
    /\ task[s] = "idle"
    /\ closed[s]
    /\ result' = [result EXCEPT ![s] = "closed"]
    /\ UNCHANGED <<busVars, chanVars, task, closed, receiveAfterLag,
                   pubVars, hist>>

Swap(s) == [lagged EXCEPT ![s] = 0]

\* Mutant: receive_after_lag is not looked at.
CounterNotZero(s) == lagged[s] > 0

MustReport(s) == ~receiveAfterLag[s] /\ lagged[s] > 0

ReportLag(s) ==
    /\ task[s] = "idle"
    /\ ~closed[s]
    /\ MustReport(s)
    /\ reported' = [reported EXCEPT ![s] = @ + lagged[s]]
    /\ lagged' = Swap(s)
    /\ receiveAfterLag' = [receiveAfterLag EXCEPT ![s] = TRUE]
    /\ result' = [result EXCEPT ![s] = "lagged"]
    /\ overdue' = [overdue EXCEPT ![s] = 0]
    /\ UNCHANGED <<busVars, filter, queue, rxClosed, task, closed, pubVars,
                   published, owed, dropped, delivered>>

\* Mutant: receive_after_lag stays set once a lag has been reported.
KeepReceiving(s) == receiveAfterLag

Rearm(s) == [receiveAfterLag EXCEPT ![s] = FALSE]

\* next_event goes on to recv().await.
BeginReceive(s) ==
    /\ task[s] = "idle"
    /\ ~closed[s]
    /\ ~MustReport(s)
    /\ receiveAfterLag' = Rearm(s)
    /\ task' = [task EXCEPT ![s] = "receiving"]
    /\ UNCHANGED <<busVars, chanVars, closed, result, pubVars, hist>>

Receive(s) ==
    /\ task[s] = "receiving"
    /\ queue[s] # <<>>
    /\ queue' = [queue EXCEPT ![s] = Tail(@)]
    /\ delivered' = [delivered EXCEPT ![s] = Append(@, Head(queue[s]))]
    /\ overdue' = [overdue EXCEPT ![s] = IF lagged[s] > 0 THEN @ + 1 ELSE 0]
    /\ task' = [task EXCEPT ![s] = "idle"]
    /\ result' = [result EXCEPT ![s] = "event"]
    /\ UNCHANGED <<busVars, filter, rxClosed, lagged, closed, receiveAfterLag,
                   pubVars, published, owed, dropped, reported>>

\* recv answers None: the queue is empty and the table's sender is gone.
ReceiveEnd(s) ==
    /\ task[s] = "receiving"
    /\ queue[s] = <<>>
    /\ s \notin subscribers
    /\ task' = [task EXCEPT ![s] = "idle"]
    /\ result' = [result EXCEPT ![s] = "end"]
    /\ UNCHANGED <<busVars, chanVars, closed, receiveAfterLag, pubVars, hist>>

\* Mutant: recv is not cancel safe.
CancelLosesEvent(s) ==
    /\ task[s] = "receiving"
    /\ queue[s] # <<>>
    /\ queue' = [queue EXCEPT ![s] = Tail(@)]
    /\ task' = [task EXCEPT ![s] = "idle"]
    /\ UNCHANGED <<busVars, filter, rxClosed, lagged, closed, receiveAfterLag,
                   result, pubVars, hist>>

\* The caller drops the future of next_event, for instance after a timeout.
Cancel(s) ==
    /\ task[s] = "receiving"
    /\ task' = [task EXCEPT ![s] = "idle"]
    /\ result' = [result EXCEPT ![s] = "cancelled"]
    /\ UNCHANGED <<busVars, chanVars, closed, receiveAfterLag, pubVars, hist>>

(***************************************************************************)
(* close and drop: the receiver is closed first and then the subscription  *)
(* is detached, so that a publisher can come between the two.              *)
(***************************************************************************)
\* Mutant: close does not remember that it was called.
CloseReceiver(s) == closed

MarkClosed(s) == [closed EXCEPT ![s] = TRUE]

Close(s) ==
    /\ task[s] = "idle"
    /\ ~closed[s]
    /\ closed' = MarkClosed(s)
    /\ rxClosed' = [rxClosed EXCEPT ![s] = TRUE]
    /\ task' = [task EXCEPT ![s] = "closing"]
    /\ UNCHANGED <<busVars, filter, queue, lagged, receiveAfterLag, result,
                   pubVars, hist>>

\* Mutant: Drop only closes the receiver.
DropReceiver(s) ==
    /\ task[s] = "idle"
    /\ rxClosed' = [rxClosed EXCEPT ![s] = TRUE]
    /\ task' = [task EXCEPT ![s] = "dropped"]
    /\ UNCHANGED <<busVars, filter, queue, lagged, closed, receiveAfterLag,
                   result, pubVars, hist>>

Drop(s) ==
    /\ task[s] = "idle"
    /\ rxClosed' = [rxClosed EXCEPT ![s] = TRUE]
    /\ task' = [task EXCEPT ![s] = "dropping"]
    /\ UNCHANGED <<busVars, filter, queue, lagged, closed, receiveAfterLag,
                   result, pubVars, hist>>

\* Mutant: the entry of the table stays.
Stay(s) == subscribers

Leave(s) == subscribers \ {s}

\* Without the bus the weak reference is dead and there is no lock to take.
Detach(s) ==
    /\ task[s] \in {"closing", "dropping"}
    /\ alive => NoReader
    /\ subscribers' = Leave(s)
    /\ task' = [task EXCEPT ![s] = IF @ = "closing" THEN "idle" ELSE "dropped"]
    /\ queue' = [queue EXCEPT ![s] = IF task[s] = "closing" THEN @ ELSE <<>>]
    /\ UNCHANGED <<alive, filter, rxClosed, lagged, closed, receiveAfterLag,
                   result, pubVars, hist>>

\* Mutant: a subscription owns the state it is registered in.
DropHandle ==
    /\ alive
    /\ \A p \in Publishers : pc[p] = "idle"
    /\ alive' = FALSE
    /\ UNCHANGED <<subscribers, chanVars, subVars, pubVars, hist>>

\* The last clone of the bus goes away, and every sender with it.
DropBus ==
    /\ alive
    /\ \A p \in Publishers : pc[p] = "idle"
    /\ alive' = FALSE
    /\ subscribers' = {}
    /\ UNCHANGED <<chanVars, subVars, pubVars, hist>>

Visit(p, s) == Skip(p, s) \/ Send(p, s) \/ Full(p, s) \/ FindClosed(p, s)

\* What a publisher does once publish has been called.
PublishStep(p) ==
    \/ \E s \in Subscriptions : Visit(p, s)
    \/ CountMissed(p)
    \/ EndVisit(p)
    \/ Purge(p)

Consume(s) ==
    \/ \E f \in Filters : Subscribe(s, f)
    \/ NextEventClosed(s)
    \/ ReportLag(s)
    \/ BeginReceive(s)
    \/ Receive(s)
    \/ ReceiveEnd(s)
    \/ Cancel(s)
    \/ Close(s)
    \/ Drop(s)
    \/ Detach(s)

Next ==
    \/ \E p \in Publishers :
          (\E e \in Events : BeginPublish(p, e)) \/ PublishStep(p)
    \/ \E s \in Subscriptions : Consume(s)
    \/ DropBus

Spec == Init /\ [][Next]_vars

(***************************************************************************)
(* Fairness: a publish in progress goes on (publish awaits nothing), close *)
(* and drop reach detach, and a consumer whose recv can answer is woken    *)
(* and polled unless it gives up.  Nothing is assumed of the lock: whoever *)
(* waits to write gets in once no publisher reads.  Publishers overlapping *)
(* without end could keep a writer out; MaxPublished keeps them from it.   *)
(* Nobody has to publish, to subscribe, to call next_event, to close or to *)
(* drop the bus.                                                           *)
(***************************************************************************)
FairSpec ==
    /\ Spec
    /\ \A p \in Publishers : WF_vars(PublishStep(p))
    /\ \A s \in Subscriptions :
          WF_vars(Detach(s)) /\ WF_vars(Receive(s) \/ ReceiveEnd(s))

(***************************************************************************)
(* Properties                                                              *)
(***************************************************************************)
\* The publishers between a failed try_send to s and the count of it.
Counting(s) == {p \in Publishers : at[p] = s}

\* The publishers that still have to offer s an event its filter accepts.
Offering(s) == {p \in Publishers : s \in todo[p] /\ Matches(filter[s], event[p])}

\* Every matching event published while a subscription was in the table has,
\* as long as its receiver is open, exactly one fate: next_event returned it,
\* it is queued, it was refused for lack of room, or it is about to be
\* offered (memory.rs, publish and next_event).
EventsAccounted ==
    \A s \in Subscriptions : ~rxClosed[s] =>
        owed[s] = Len(delivered[s]) + Len(queue[s]) + dropped[s]
                  + Cardinality(Offering(s))

\* The lag errors of a subscription never claim more events than were
\* dropped, and together with the counter and the increments under way they
\* claim all of them: no miss is lost between the publishers' increments and
\* the consumer's swap.  If any is missing the counter has been full, and then
\* what it held still stands in the counter or in a report: an overflow costs
\* misses beyond MaxLag and never hides a lag (error.rs:16, memory.rs:103).
LagAccounted ==
    \A s \in Subscriptions :
        LET claimed == reported[s] + lagged[s] + Cardinality(Counting(s))
        IN  /\ claimed <= dropped[s]
            /\ claimed = dropped[s] \/ reported[s] + lagged[s] >= MaxLag

\* The events of one publisher reach a subscription in the order they were
\* published, and none of them twice.
PublisherOrder ==
    \A s \in Subscriptions :
        LET q == delivered[s] \o queue[s]
        IN  \A i, j \in DOMAIN q :
                i < j /\ q[i].by = q[j].by => q[i].num < q[j].num

\* The table of a live bus holds every subscription its owner can still
\* receive from, and one with a closed receiver only until the close or the
\* drop that closed it gets to detach, whatever publishers purge meanwhile.
RegistrationMatchesLife ==
    \A s \in Subscriptions :
        /\ alive /\ task[s] \in {"idle", "receiving"} /\ ~closed[s]
              => s \in subscribers
        /\ s \in subscribers
              => alive /\ (rxClosed[s] => task[s] \in {"closing", "dropping"})

\* next_event answers None only when the bus is gone, never because this or
\* another subscription was closed (subscription.rs:57).
EndOnlyWhenBusGone ==
    \A s \in Subscriptions : result[s] = "end" => ~alive

\* Once a miss is counted the consumer gets at most one more event before it
\* is told of the lag: the one its current or next recv answers.
LagReportedSoon ==
    \A s \in Subscriptions : overdue[s] <= 1

\* A consumer told of a lag is not told of another one by its next call,
\* however many events it misses: between two reports it gets to recv.
NoLagStorm ==
    [][\A s \in Subscriptions :
          result[s] = "lagged" /\ result'[s] = "lagged"
              => reported'[s] = reported[s]]_vars

\* What the test at memory.rs:372 says of a slow subscriber: it is told of a
\* lag before it gets the events queued after the lag.
GapReportedFirst ==
    [][\A s \in Subscriptions :
          delivered'[s] # delivered[s] => Head(queue[s]).gap <= reported[s]]_vars

\* publish returns, whatever its subscribers do with their queues ("slow
\* subscriber must not block publish", memory.rs:367).
PublishCompletes ==
    \A p \in Publishers : pc[p] # "idle" ~> pc[p] = "idle"

\* A subscription with a closed receiver leaves the table (subscription.rs:60)
\* once publishers pause: none of them waits while it holds the lock.
ClosedIsForgotten ==
    \A s \in Subscriptions : rxClosed[s] ~> s \notin subscribers

\* A consumer that waits in recv does not wait for ever beside a queued event
\* or after the bus is gone: the subscription keeps no sender alive itself.
WaiterServed ==
    \A s \in Subscriptions :
        task[s] = "receiving" /\ (queue[s] # <<>> \/ ~alive)
            ~> task[s] # "receiving"

\* What a consumer can tell of queued or delivered items.
Messages == [by : Publishers, num : 1..MaxPublished, event : Events]
AsMessages(items) ==
    [i \in DOMAIN items |->
        [by |-> items[i].by, num |-> items[i].num, event |-> items[i].event]]

\* To its consumer a subscription is a lossy stream, whatever the publishers,
\* the other subscriptions and the end of the bus do to the table.
Stream == INSTANCE LossyStream WITH
    Streams  <- Subscriptions,
    Capacity <- QueueCapacity,
    open     <- {s \in Subscriptions : task[s] # "unborn" /\ ~rxClosed[s]},
    wanted   <- filter,
    buffer   <- [s \in Subscriptions |-> AsMessages(queue[s])],
    got      <- [s \in Subscriptions |-> AsMessages(delivered[s])],
    lost     <- dropped,
    told     <- reported
ImplementsStream == Stream!StreamSpec

=============================================================================
