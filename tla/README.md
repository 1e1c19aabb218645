# A TLA+ model of OrbitRelay Server

This directory is a verification project for the workspace under `src/`: TLA+
modules translated from the Rust source, TLC configurations that check them on
small instances, and theorems that TLAPS proves for every value of the
constants. `PROJECT.json` maps every definition to the lines it stands for.
Source paths below are relative to `src/crates/`.

## 1. Inventory

OrbitRelay relays protocol *actions* to handlers, which turn them into
*events*; events are appended to a store, from which clients replay, and
published on a bus, to which clients subscribe. Everything lives in one
process, is shared between threads and is driven by a multi-threaded async
runtime (tokio).

```
 caller --Action--> Runtime::execute --lookup--> HandlerRegistry
                       |  validate, handle --> ActionHandler   (port)
                       |  authorize        --> ActionAuthorizer (port)
                       v  dispatch(batch)
                 PipelineAdapter --append each--> EventStore --pages--> replaying client
                       \--then publish each--> EventBus --queues--> Subscription --> client
 main --ServerConfig--> Bootstrap --> ServerContext(ServerLifecycle, HealthStatus)
                             \-- register, unregister --> NodeRegistry <--list-- others
```

| Component | State | Operations | What is hard | What makes it correct |
|---|---|---|---|---|
| Event bus (`orbitrelay-sync/src/memory.rs`) | table of subscriptions under an `RwLock`; per subscription a bounded channel, a counter of missed events, two flags | `subscribe`, `publish`, `next_event`, `close`, drop | publishers share the read lock; `try_send` and the increment are two steps; a publisher removes closed subscriptions later, under another lock; the future of `next_event` can be dropped | every matching event has one fate; lags are reported exactly; publishers never wait for consumers; the stream ends only with the bus |
| Filters and queries (`filter.rs`, `query.rs`) | none | `matches`, `validate` | empty type sets, half-open intervals | used by the bus and the store |
| Event store (`orbitrelay-storage/src/memory.rs`) | records, index by event id, id of the incarnation | `append`, `get`, `query` | replay over several pages beside appends; retried appends; cursors of a lost store | a replay skips, repeats and mixes nothing; acknowledged records stay readable |
| Runtime (`orbitrelay-runtime/src/runtime.rs`) | none between calls | `execute` | an await at every stage; each may fail or be abandoned | what is stored was approved; the answer tells what was done |
| Handler registry (`orbitrelay-runtime/src/registry.rs`) | handler by action type | `register`, `unregister`, `get` | handlers come and go while calls hold them | a call uses one handler from beginning to end |
| Pipeline adapter (`orbitrelay-server/src/pipeline.rs`) | none | `dispatch` | partial batches, batches that interleave | a batch is stored completely before any of it is published |
| Lifecycle and health (`orbitrelay-server/src/lifecycle.rs`, `health.rs`) | state and health, one lock each | `start`, `ready`, `begin_shutdown`, `stop` | two locks; racing transitions | the health follows the state, in the order of one life |
| Bootstrap and shutdown (`bootstrap.rs`, `context.rs`) | the node's snapshot | `build`, `shutdown` | several callers, retries, a registry that fails, work that goes on | node and process never contradict each other; a shutdown ends |
| Node registry (`orbitrelay-node/src/memory.rs`) | snapshots by node id, one lock | `register`, `unregister`, `get`, `list` | shared by contexts that write it in different ways, listed in between | each context's node ages as if the context were alone |
| Configuration and main (`config.rs`, `main.rs`) | what was loaded; where main is | `load`, `validate`, builders; wait for an interrupt, shut down | malformed and extreme overrides; an interrupt at any time; tasks that shut down too | an override is honoured or refused; the exit tells what became of the server |
| Memory pipeline (`orbitrelay-runtime/src/pipeline.rs`) | captured events, one lock | `dispatch`, `clear`, snapshot | nothing: a fixture for tests, one step each | |
| Core and protocol values, errors | immutable | constructors, builders, accessors | none of their own | |
| Clients (external) | what they have replayed and heard | subscribe, replay, listen, recover | the store and the bus are not read in one step; concurrent calls store in one order and publish in another; lags; retried actions | no gap a client cannot know of |

The hazards that follow from the fourth column are listed with their lines in
`PROJECT.json`.

## 2. Modules and how they correspond to the code

| Module | Models | State and actions |
|---|---|---|
| `EventMatching` | `EventFilter` and `EventQuery` with their builders | `Matches`, `IsValid`, `QueryMatches` over records of identifiers |
| `Protocol` | actions, drafts and events with the fields the program reads, and what `execute` makes of a draft | `Materialize` |
| `LossyStream` | abstract specification: what a bus promises the consumer of a subscription | `Open`, `Accept`, `Miss`, `Deliver`, `Tell`, `Shut`, `Discard` |
| `MemoryEventBus` | the in-memory bus | see below |
| `EventLog` | abstract specification: what a store promises those who append and those who replay | `Record`, `Begin`, `Read`, `Lose` |
| `MemoryEventStore` | the in-memory store with clients that replay | `AppendNew`, `AppendAgain`, `AppendConflict`, `Get`; `Ask`, `FetchPage`, `FetchLastPage`, `Resume`, `Refuse` of a client; `Restart` of the process |
| `WriteAhead` | abstract specification: what dispatching promises those who replay and those who listen | `Record`, `Announce` |
| `ActionRuntime` | `Runtime::execute`, the handler registry and the pipeline adapter over ports | one action per stage, per event of a batch, per failure; `Abandon` |
| `ServerLifecycle` | the four transitions and the health | `Transition`, `SetHealth`; used by the next two |
| `LifecycleClients` | threads that call the transitions in any order | `Call`, `Change`, `Answer`, `Reject` |
| `ServerProcess` | `Bootstrap::build_with` and any number of `ServerContext::shutdown` | chains of steps; `CallRegistry`, `LoseRegistryCall`, `Shutdown`, `StartWork`, `FinishWork` |
| `MemoryNodeRegistry` | node snapshots and the map of them | `Register`, `Unregister`, `Get`, `List` |
| `Cluster` | contexts that share a registry | the steps of each context; `Announce` and `Withdraw` by the owner of a composed one; `LookUp` |
| `ServerMain` | the program from its environment to its exit | `Load`, `Build`, `Wait`, `Interrupt`, `Kill`, `Return`; tasks that `Subscribe` and `AskForShutdown` |
| `EventDelivery` | runtime, pipeline, store and bus as the clients of a session see them | `AppendNext`, `BeginPublish`, `VisitNext`, ... of a call; `Connect`, `Replay`, `Listen`, `HearOfLag`, `Leave` of a client |
| `Selection` | the iterators `query` and `list` are built from | `Kept`: the elements a filter keeps; `InOrder`: the keys of an ordered map |
| `MC*` | instances for TLC | constants and symmetry |
| `SelectionProofs` | lemmas about `Kept` and `InOrder`, for sequences and sets of any size | |
| `*Proofs` | theorems about the module of that name; `ServerProcessProofs` has those about `LifecycleClients` too | |

**Grain of atomicity.** A step is what another thread can see as a unit: the
body of a lock section, one `try_send`, one atomic operation, one await on a
port. Within `MemoryEventBus` a publisher holds the read lock from
`BeginPublish` to `EndVisit`, visits the subscriptions of its snapshot in any
order (the table is a `HashMap`), and takes two steps for a full queue: the
refused `try_send` (`Full`), then the increment (`CountMissed`). `next_event`
is `NextEventClosed`, or the swap of the counter that either answers with the
lag (`ReportLag`) or goes on to wait (`BeginReceive`), and then the answer of
`recv` (`Receive`, `ReceiveEnd`) or the end of a dropped future (`Cancel`).
`close` and `drop` close the receiver in one step and take the entry out of
the table in another (`Detach`), which needs the write lock. tokio's channel is
external and modelled as the atomic bounded queue its documentation promises;
`recv` is cancel-safe.

Every operation of the store holds the one lock from beginning to end and is
one step; what takes several steps is a client's replay.

`ActionRuntime` takes the store and the bus for ports, which may fail before or
after they took an event, as any implementation of the traits may. An event is
the record of its call, its index, the size of its batch and the handler that
made it: `EventId::new()` makes each of them new, so `append` never meets a
known id there (its idempotence is checked in `MemoryEventStore`).

`ServerLifecycle` keeps the write of the state and the write of the health
apart: readers of the health take only the second lock. A thread of
`ServerProcess` stands for the task that runs `Bootstrap::build` or one call
after another of `shutdown`; the registry is a port again.

**Refinement.** `MemoryEventStore` implements `EventLog`: the log is the list of
records, a reader's place is where the cursor of its last page points.
`MemoryEventBus` implements `LossyStream`: a stream is open until its receiver is
closed, what it has lost is what `try_send` has refused, and what it has told
is what `Lagged` has carried. A counter that saturates tells less than was
lost, which the abstract stream allows, for a report never exceeds the truth.
`ActionRuntime` implements `WriteAhead`.

**Composition.** `EventDelivery` takes the two abstract specifications for the
store and the bus (`Store == INSTANCE EventLog`, `Bus == INSTANCE LossyStream`),
so that what it shows holds of any implementation of them, and has the
dispatching of `PipelineAdapter` in full. Its clients are external: the
repository has none. They use the interface the way it has to be used for a
gapless view of a session: subscribe before replaying, listen, and after a lag
replay from where the last replay has ended. They know events by their identity:
calls append in one order and publish in another, so a client that skipped what
is announced late by its position would lose events. `Cluster` runs a `ServerProcess`
for each node over one `MemoryNodeRegistry` and checks that each still behaves as
`ServerProcess` alone; the mapping gives each context one thread that boots and
one that shuts down. A context comes from `Bootstrap`, which registers what the
configuration advertises, or from `ServerContext::new`, which is ready from the
start and registers nothing: its owner may register its node as anything, again and again, and
withdraw it, until it shuts the context down. `OwnNode` therefore leaves that node to
the owner until the shutdown writes it, and shows `ServerProcess` a ready node up to
then; from there on it is what the registry has. Node ids are distinct, as `NodeId::new` makes them.
`ServerMain` extends `ServerProcess` with main as one of the callers.

**History variables** (`published`, `owed`, `dropped`, `reported`, `delivered`,
`overdue` of the bus; `acked`, `conflicts`, `upto` of the store; `validator`,
`authorized` of the runtime) record what properties speak of; no guard reads
them, but for `published`, which bounds the calls of publish.

## 3. Runs

| Run | Question | Instance |
|---|---|---|
| `bus_lag` | Is every miss of a slow consumer accounted for, and reported promptly? Is the order kept? Does publishing never wait, is a closed subscription forgotten, a waiting consumer served? | 2 publishers of 2 events, 1 subscription, a queue of 1, a counter that saturates at 2 |
| `bus_tables` | Is the table right while filtered subscriptions come and go, has every event one fate, and is each subscription a `LossyStream`? | 2 publishers of 1 event, 2 subscriptions, 3 filters, one of them invalid |
| `bus_lag_order` | Is a lag reported before the events queued after it? **No** | 1 publisher of 3 events, 1 subscription |
| `store_replay` | Is a replay exact beside appends and restarts? Are events answered, and cursors taken back, consistently? | 4 events of 3 ids, two of them in conflict, 5 queries, pages of 1 and 2, 2 incarnations |
| `lifecycle_clients` | Does the health follow the state? | 3 threads |
| `process_shutdown` | Do node and process agree while shutdowns race, fail and are retried? Does a shutdown end? | bootstrap and 3 callers |
| `process_stuck` | Is somebody shutting down a draining process? **No** | bootstrap and 2 callers |
| `process_undrained` | Is a stopped process done with its actions? **No** | bootstrap, 2 callers, 1 worker |
| `runtime_dispatch` | Do concurrent, failing and abandoned calls implement `WriteAhead` and answer truly? Does every call end? | 2 calls of 1 action type, 2 handlers, batches of 0 to 2 |
| `delivery` | Can a client of a session have a gap it cannot know of? Do retried actions stay apart? Does what is published reach who listens? | 2 calls, the second a retry of the first or in another session, batches of up to 2 and 1, 1 client, a queue of 1 |
| `cluster` | Does a registry that contexts share serve each as its own? | 2 contexts of `Bootstrap`, 1 composed, one who lists |
| `server_main` | Does the exit tell what became of the server, is an override honoured, does an interrupt end the process? | every environment at 5 bits, 2 tasks beside main |

`store_replay` also checks that the store implements `EventLog`. The type invariants
of `LifecycleClients`, `ServerProcess` and `ActionRuntime` are proved, and have
no run of their own.

**Bounds.** A queue of one place makes full queues, refused events and gaps
the normal case. Two publishers are needed for increments that interleave with
each other and with the swap; of their four events one may be queued and three
dropped, so that a counter that saturates at two overflows, and a gap may have
queued events on both sides. Two subscriptions with different filters suffice for
the table: they share nothing else. A reader of the store does not interact
with other readers; three records and pages of one give a replay of three
requests with appends between any two of them. Two calls suffice for the
runtime: they meet only in the store, on the bus and in the registry (an
instance with three was also run to the end once). Batches of two distinguish
first, last and partial. Two calls
and one client suffice for `EventDelivery`: a call that appends first and
publishes last, a lag, a second replay and a retried action all occur, and
clients do not interact. A `usize` of five bits has 32 values: zero, the
default, the largest channel (3), the values above it, the largest number and
the one that no longer fits are all among them. Two contexts of `Bootstrap`, of
which one is gone while the other begins, and a composed one whose node its owner
may register in any state, as often as it likes, and withdraw until it shuts it down,
are all the kinds of writers a registry has. Only `bus_tables`, which
checks no liveness, uses symmetry, of its publishers and of its subscriptions.

**Fairness.** In `MemoryEventBus.FairSpec` a publish that has begun goes on
(it awaits nothing), and a consumer whose `recv` can answer is woken and polled
unless it gives up. Nothing is assumed of the lock but that a writer gets in when
nobody reads any more; it is the bound on publishing that makes publishers pause, so
`ClosedIsForgotten` says that closed subscriptions leave the table then, and nothing
of publishers that overlap without end (see section 6). In `ActionRuntime` calls that have begun are
polled and their ports answer; in `ServerProcess` the same holds for tasks that
have begun. In `EventDelivery.FairSpec` a dispatch that has begun goes on, and a client goes on
with its replay and takes what its stream holds. In `ServerMain.MainFairSpec` main is
polled to its end and so is a shutdown that has begun; no signal has to come. Nobody has to publish, subscribe, receive, close, call `execute` or
shut down.

**Deadlock** is checked in `lifecycle_clients`, `cluster` and
`runtime_dispatch`, whose clients can always go on. The other systems may really
come to an end: a bus that is dropped with its subscriptions, a replay that is
refused, a process whose tasks are through.

## 4. What the runs found

* **A lag can be reported late** (`bus_lag_order`). `next_event` empties the
  counter and then waits; `publish` counts a miss one step after the refused
  `try_send`. A consumer that empties the queue in between and waits is given
  the next event before it hears of the gap in front of it. The test at
  `orbitrelay-sync/src/memory.rs:372` says that lag is reported before queued
  events. `LagReportedSoon` and `LagAccounted` bound the delay: at most one event
  comes first and nothing is lost.
* **A failed shutdown cannot be resumed** (`process_stuck`). If a call of the
  node registry fails, or the future of `shutdown` is dropped in one, the process
  stays in `Draining`, and `begin_shutdown` refuses every retry. With
  `MemoryNodeRegistry` only a poisoned lock fails and nothing suspends; other
  registries behind the trait may do both.
* **Nothing is drained** (`process_undrained`). `shutdown` neither waits for
  calls of `Runtime::execute` nor keeps new ones from beginning.

Three consequences of the code that no text of the repository denies, and that
the properties allow for: a consumer that waits in `recv` while a miss is counted
and the bus goes away is told of the end first, and of the miss only if it asks
again; nothing wakes a consumer for a miss, which is why `Reaches` promises a
client the event *or* a miss to be told of; and a capacity above tokio's
`Semaphore::MAX_PERMITS` (`usize::MAX >> 3`) passes every validation and panics in
`subscribe` (`panicked` of `ServerMain`).

## 5. Proofs

TLAPS checks these for every value of the constants; the modules' named
assumptions are all they rest on.

| Theorem | Says | Inductive invariant |
|---|---|---|
| `MemoryEventBusProofs!TypeCorrect` | `TypeOK`, with queues within their capacity | `TypeOK` itself |
| `MemoryEventBusProofs!LagAccountedAlways` | `LagAccounted`: reports never claim too much, lose no miss below saturation, and beyond it still show that there was a lag | `TypeOK` and `LagAccounted`: inductive because it counts the publishers between the refused `try_send` and the increment. One lemma each for the refused send, the increment and the swap; finite publishers make the counting exact |
| `MemoryEventBusProofs!RegistrationAlwaysMatches`, `!EndAlwaysMeansBusGone` | `RegistrationMatchesLife`, `EndOnlyWhenBusGone` | `TableInv`: publishers have found only what is closed for ever (`FoundAreClosed`), so that a purge is right however late it comes, and where a consumer is tells what it has done to its receiver |
| `MemoryEventBusProofs!LagAlwaysReportedSoon`, `!NoLagStormEver` | `LagReportedSoon`, `NoLagStorm` | `LagTurns`: who comes to `recv` has its flag down and nothing overdue, and a report leaves the flag up until then |
| `MemoryEventBusProofs!EventsAlwaysAccounted` | `EventsAccounted` | `AccountInv`: beside the account itself, that only who holds the read lock has subscriptions left to visit. Otherwise a new filter could make an offer out of an old visit |
| `MemoryEventBusProofs!PublisherAlwaysInOrder` | `PublisherOrder` | `OrderInv`: what a publisher has still to offer is newer than all it has sent (`OffersNewer`) |
| `MemoryEventBusProofs!BusImplementsStream` | the bus implements `LossyStream` (`ImplementsStream`) | `StreamInv`: `OrderInv` gives an accepted message its place, `LagAccounted` a report its bound; nothing is known of a subscription before it is made (`UnbornUntouched`), its filter stays, and publish calls count from one. One lemma per step that shows; all others stutter |
| `MemoryEventStoreProofs!IndexAlwaysSound`, `!AckedAlwaysReadable` | `IndexSound`, `AckedReadable` | `StoreInv`: the two together and that no record handed out is from a later incarnation. Without that a restart could turn an old record into a false promise |
| `MemoryEventStoreProofs!OneAnswerAlways` | `OneAnswer` | `AnswerInv`: what this incarnation has refused differs from what it holds under the id, which it never changes |
| `MemoryEventStoreProofs!StoreTypes`, `!ReplayAlwaysExact`, `!CursorsAlwaysGood` | `TypeOK`, `ReplayExact`, `CursorsStayGood` | `ReplayInv`: `StoreInv`, which makes cursors positions, and of each reader `Origin` (all it has been given comes from one incarnation, and so does its cursor) and `Covers` (its pages are what its query selects of the records they cover, and no match lies between its cursor and their end). The second half of `Covers` is what makes going on after the last *match* the same as going on after the last record looked at |
| `MemoryEventStoreProofs!StoreImplementsLog` | the store implements `EventLog` (`ImplementsEventLog`) | the same: `AppendNew` is `Record`, a page is `Read` up to where its records end, a restart is `Lose`; what a page adds is what the query wants of the log in between, because selection commutes with concatenation (`KeptSplit`) and with dropping the cursors (`KeptMap`) |
| `ActionRuntimeProofs!RuntimeTypeCorrect`, `!ApprovedAlways`, `!AnswerAlwaysTells` | `TypeOK`, `ApprovedByItsMaker`, `AnswerTellsOutcome` | `Inv`: `Progress(c)` says which of a call's events are in the store and on the bus at each place of `execute` and after it (of a failed or abandoned batch the beginning), `Checks(c)` which checks it has passed. One lemma per stage and one (`OthersKeep`) for the calls that do not move |
| `ActionRuntimeProofs!RuntimeImplementsJournal` | the runtime implements `WriteAhead` | the same: `Progress` gives the guards of `Record` and `Announce`; every other step stutters |
| `ServerProcessProofs!LifecycleTypeCorrect`, `!HealthAgreesAlways`, `!HealthFollowsLife` | `ClientTypeOK`, `HealthAgrees`, `HealthCycle` of `LifecycleClients` | `ClientInv`: at most one thread is between its two writes (`OneSetter`), which is what holding the lock of the state across both gives, and it has set the state that is there |
| `ServerProcessProofs!ProcessTypeCorrect`, `!NodeAlwaysMatches`, `!NodeAlwaysAges` | `TypeOK`, `NodeMatchesProcess`, `NodeOnlyAgesOnce` | `Inv`: `Setters` as above; `Booting` gives every step of bootstrap its node and lifecycle and keeps callers away until it is done; `Closing` lets one thread past `begin_shutdown`, though any number try, and says where this thread has left the snapshot. A lost call may or may not have written, which is why a failed bootstrap and a failed shutdown allow several snapshots |
| `ClusterProofs!ClusterTypes`, `!StoppedIsAlwaysGone`, `!AlwaysAdvertised`, `!ViewsOnlyAge` | `TypeOK`, `StoppedIsGone`, `AdvertisedUnchanged`, `ViewOnlyAges` | `ClusterInv`: `AtStep` says for each context what the registry has of *its* node at each of its steps (of a composed context not before its shutdown has written it, for until then its owner may have registered anything or nothing), `StillListed` that an older list holds no node of `Bootstrap` that is further in its life than the registry's. `ViewOnlyAges` is about the nodes `Bootstrap` registers: an owner who registers a composed context's node as offline sees it drain afterwards |
| `ClusterProofs!ContextsAreProcesses` | every step of every context is one of `ServerProcess` or a stutter, and the contexts of `Bootstrap` begin as it does (`EachIsAProcess`); composed contexts begin where bootstrap would have left them | the same; a step of the context maps to the step of its one booting or one shutting thread, a step of any other context to a stutter, for it writes under another id |
| `ServerMainProofs!MainTypeCorrect`, `!ExitAlwaysTells`, `!OverrideAlwaysHonoured` | `MainTypeOK`, `ExitTellsAll`, `OverrideHonoured` | `MainInv`: `Inv` of `ServerProcessProofs`; `Ended` (who has stopped leaves nothing behind), `Somebody` and `WhoRefused` (a shutdown is refused only because of another that has begun and cannot be lost), which `MainAssumption`'s registry without failures makes true; `Along` ties main's stage and exit to its thread; `Queued` the capacities to the environment |
| `EventDeliveryProofs!NoEventMissed` | `NothingMissed` | `DeliveryInv`: `Logged` and `BatchOK` trace what is in the log to the call that appended it; `SentOnce` says a client has only what it has been offered; `Replayed` that it has all it wants of the log up to its place; `NoGap` is the property with "not yet offered" for "not yet published". One lemma (`CallStep`) for the steps of a call that no client sees, one (`ClientStep`) for those that concern one client |
| `EventDeliveryProofs!RetriesAlwaysAddUp` | `RetriesAddUp` | `Counted` of the same: with each append both sets grow by one, for the identity of the event is in the log not yet (`NextIsFresh`) |
| `EventDeliveryProofs!PortsAlwaysAccept` | what `EventLog` and `LossyStream` ask of their users holds whenever a call appends or offers, so the composition is not made safe by a guard that holds calls up | the same |

The proofs take assumptions from the code. `BusAssumption`: the capacity is not
zero, which `config.rs` and `with_queue_capacity` reject. `StoreAssumption`,
`DeliveryAssumption`: limits and capacities are positive, as `EventQuery::validate`
and the bus demand, and a call's action is one of the protocol's.
`RegistryAssumption`: node ids are ordered, as the keys of a `BTreeMap` are.
`ClusterAssumption`: what a context advertises is a list of capabilities that can be
used, and what owners register are snapshots of nodes. `MainAssumption`: main uses `MemoryNodeRegistry`, whose calls do not fail, and the default capacity
is one a channel can have. `FilterAssumption` and parts of the others say that a value is not
the absence of one (`None` is no filter, no query, no cursor, no set of clients, no
state): `Option` keeps the two apart in the code. `RuntimeAssumption`, `LifecycleAssumption`,
`ProcessAssumption` as in their modules.

**Induction.** What a filter keeps of a sequence and how a map's keys are listed
are recursive definitions. `Selection` writes them as a recursive function and as
a choice among functions, and `SelectionProofs` proves what they compute
by induction over the length: the numbers for which a fact holds are a set that
has zero and, with each number, the next (`SetInduction`, from the
well-foundedness of `<` on the naturals). The theorems about the store, the cluster and the
delivery rest on these lemmas: the elements kept are those at the positions
(`KeptType`, `KeptHas`), a longer selection extends a shorter one (`KeptSplit`), the
first of a selection are a selection (`KeptTaken`, which is `take` and `truncate` of
`query`), and selecting commutes with a function of the elements (`KeptMap`).

**Only model-checked.** Liveness under fairness, which is out of the prover's reach:
`PublishCompletes`, `ClosedIsForgotten`, `WaiterServed` of the bus,
`ShutdownStops`, `CallsEnd`, `Reaches`, `InterruptEnds`. Every other property of
a passing run is a theorem; their invariants were checked with TLC before they were proved.

## 6. Not modelled

* Values: identifiers are members of small sets, a node's metadata is opaque.
  Payloads, event metadata, versions, `MessageEnvelope` and the records of actors and
  sessions are passed on unread by every component and left out, and so are
  serialization, error texts and logging.
* Cursors no store issued (malformed text): clients hold only cursors they
  were given. A cursor of another store is modelled.
* `MemoryEventPipeline`, a fixture behind the feature `test-utils`: one list behind one
  lock. The trait it implements is modelled with `PipelineAdapter`.
* `MockClock`, `AllowAllAuthorizer`, `UnconfiguredAuthorizer`: constants behind ports
  that `ActionRuntime` lets answer anything.
* Poisoned locks, other than as a failing port.
* Two contexts that are configured with the same node id: each would overwrite
  and remove the other's snapshot. `config.rs` leaves distinct ids to the operator.
* A node registry that others than contexts and the owners of composed ones write to, and an
  owner who registers its node again once the shutdown has begun: the registry takes it,
  and the node would be left behind. That is the owner's duty, the guard of `Announce`.
* Publishers that overlap without end. Whether a writer that waits gets in between them is
  the policy of the platform's `RwLock`; publishing is bounded here, so starvation of
  `subscribe`, `detach` and the purge is neither found nor excluded.

## 7. Plan

1. *Done:* every component that keeps state, its operations and their
   interleavings; the store and the bus against abstract specifications; calls,
   store, bus and clients composed; contexts over a shared registry; the program from
   its environment to its exit.
2. *Done:* every invariant, action property and refinement that a passing run
   checks is a theorem as well.
3. *Next:* theorems about pieces that the runs do not compose: that the refinements proved
   here carry `NoEventMissed` over to the in-memory store and bus (`EventDelivery` takes their
   abstract specifications), and that a listing of the registry has every node once.
