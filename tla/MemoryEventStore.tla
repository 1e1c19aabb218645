-------------------------- MODULE MemoryEventStore --------------------------
(***************************************************************************)
(* The in-memory event store of orbitrelay-storage (memory.rs): records in *)
(* append order and an index from event ids to them, behind one lock that  *)
(* every operation holds from beginning to end, so that each of them is    *)
(* one step.  What takes several steps is a replay: a client pages through *)
(* the matches of a query with the cursors the store hands out, while      *)
(* others append and while the process may be restarted, which gives it an *)
(* empty store with another id.                                            *)
(*                                                                         *)
(* A cursor is the record of what its text encodes, the store's id and a   *)
(* position that counts from one; clients hold only cursors a store gave   *)
(* them.                                                                   *)
(***************************************************************************)
EXTENDS EventMatching, Selection

CONSTANTS Events,      \* what may be appended; two of them may share an id
          Readers,     \* clients that replay
          Queries,     \* what they ask for
          MaxLimit,    \* EventQuery::MAX_LIMIT
          MaxStores    \* bound: incarnations of the store

Cursors == [store : 1..MaxStores, position : Nat \ {0}]

ASSUME StoreAssumption ==
    /\ MaxLimit \in Nat \ {0}
    /\ MaxStores \in Nat \ {0}
    /\ None \notin Queries
    /\ None \notin Cursors

VARIABLES
    storeId,        \* the id of the current incarnation
    records,        \* what was appended, as pairs of a cursor and an event
    eventIndices,   \* event id -> index into records, from zero
    acked,          \* history: every record that append has answered
    conflicts,      \* history: every append refused, with its incarnation
    query,          \* a reader's query, None before it has one
    after,          \* the cursor its next request continues from
    got,            \* the records of the pages it has been given
    upto,           \* history: the records its pages cover
    status          \* idle, paging, complete, or the error it got

store   == <<storeId, records, eventIndices, acked, conflicts>>
readers == <<query, after, got, upto, status>>
vars    == <<store, readers>>

EventIds == {e.id : e \in Events}
StoredEvents == [cursor : Cursors, event : Events]
Conflicts == [store : 1..MaxStores, event : Events]

\* What query answers instead of a page.
QueryErrors == {"invalid_query", "invalid_cursor"}

StoreTypeOK ==
    /\ storeId \in 1..MaxStores
    /\ records \in Seq(StoredEvents)
    /\ DOMAIN eventIndices \subseteq EventIds
    /\ eventIndices \in [DOMAIN eventIndices -> Nat]
    /\ acked \subseteq StoredEvents
    /\ conflicts \subseteq Conflicts

TypeOK ==
    /\ StoreTypeOK
    /\ query \in [Readers -> Queries \cup {None}]
    /\ after \in [Readers -> Cursors \cup {None}]
    /\ got \in [Readers -> Seq(StoredEvents)]
    /\ upto \in [Readers -> Nat]
    /\ status \in [Readers -> {"idle", "paging", "complete"} \cup QueryErrors]

Init ==
    /\ storeId = 1
    /\ records = <<>>
    /\ eventIndices = <<>>
    /\ acked = {}
    /\ conflicts = {}
    /\ query = [r \in Readers |-> None]
    /\ after = [r \in Readers |-> None]
    /\ got = [r \in Readers |-> <<>>]
    /\ upto = [r \in Readers |-> 0]
    /\ status = [r \in Readers |-> "idle"]

(***************************************************************************)
(* append and get                                                          *)
(***************************************************************************)
IsKnown(id) == id \in DOMAIN eventIndices
Existing(id) == records[eventIndices[id] + 1]

\* get: the record of an event id, or None.
Get(id) == IF IsKnown(id) THEN Existing(id) ELSE None

\* Mutant: a position that counts from zero, as an index does.
CursorOfIndex(position) == [store |-> storeId, position |-> position - 1]

ForMemory(position) == [store |-> storeId, position |-> position]

\* Mutant: the index of the next record instead of this one's.
IndexAfterPush == Len(records) + 1

NewIndex == Len(records)

AppendNew(e) ==
    LET record == [cursor |-> ForMemory(Len(records) + 1), event |-> e]
    IN  /\ ~IsKnown(e.id)
        /\ records' = Append(records, record)
        /\ eventIndices' = [id \in DOMAIN eventIndices \cup {e.id} |->
                               IF id = e.id THEN NewIndex
                               ELSE eventIndices[id]]
        /\ acked' = acked \cup {record}
        /\ UNCHANGED <<storeId, conflicts, readers>>

\* Mutant: the id alone makes two events the same.
AppendSameId(e) ==
    /\ IsKnown(e.id)
    /\ acked' = acked \cup {[Existing(e.id) EXCEPT !.event = e]}
    /\ UNCHANGED <<storeId, records, eventIndices, conflicts, readers>>

\* An event already stored is answered with its first record.
AppendAgain(e) ==
    /\ IsKnown(e.id)
    /\ Existing(e.id).event = e
    /\ acked' = acked \cup {Existing(e.id)}
    /\ UNCHANGED <<storeId, records, eventIndices, conflicts, readers>>

\* EventConflict, which changes nothing of the store.
Conflict(e) == [store |-> storeId, event |-> e]

AppendConflict(e) ==
    /\ IsKnown(e.id)
    /\ Existing(e.id).event # e
    /\ conflicts' = conflicts \cup {Conflict(e)}
    /\ UNCHANGED <<storeId, records, eventIndices, acked, readers>>

(***************************************************************************)
(* query                                                                   *)
(***************************************************************************)
IsValidQuery(q) ==
    /\ q.limit \in 1..MaxLimit
    /\ IsValid(q)
    /\ None \notin {q.from, q.until} => q.from < q.until

\* Mutant: the position is all that counts.
InRange(cursor) == cursor.position <= Len(records)

\* Mutant: the cursor of the last record is out of range.
BeforeLast(cursor) ==
    cursor.store = storeId /\ cursor.position < Len(records)

\* memory_position accepts the cursor.
IsMine(cursor) == cursor.store = storeId /\ cursor.position <= Len(records)

StartAfter(cursor) == IF cursor = None THEN 0 ELSE cursor.position

\* The matches among the records from the first to the last.
Selected(q, first, last) ==
    Kept(records, {i \in first..last : QueryMatches(q, records[i].event)}, last)

\* Every match after the cursor; one beyond the limit tells there is more.
Found(q, cursor) == Selected(q, StartAfter(cursor) + 1, Len(records))

HasMore(q, cursor) == Len(Found(q, cursor)) > q.limit

Page(q, cursor) ==
    IF HasMore(q, cursor) THEN SubSeq(Found(q, cursor), 1, q.limit)
                          ELSE Found(q, cursor)

\* Mutant: the last record is looked at before the page is truncated.
LastFound(q, cursor) == Found(q, cursor)[q.limit + 1].cursor

NextCursor(q, cursor) == Page(q, cursor)[q.limit].cursor

Accepted(r) ==
    /\ IsValidQuery(query[r])
    /\ after[r] # None => IsMine(after[r])

Ask(r, q) ==
    /\ status[r] = "idle"
    /\ query' = [query EXCEPT ![r] = q]
    /\ status' = [status EXCEPT ![r] = "paging"]
    /\ UNCHANGED <<store, after, got, upto>>

\* A page with a next cursor: the reader goes on after it.
FetchPage(r) ==
    /\ status[r] = "paging"
    /\ Accepted(r)
    /\ HasMore(query[r], after[r])
    /\ LET next == NextCursor(query[r], after[r])
       IN  /\ got' = [got EXCEPT ![r] = @ \o Page(query[r], after[r])]
           /\ after' = [after EXCEPT ![r] = next]
           /\ upto' = [upto EXCEPT ![r] = next.position]
    /\ UNCHANGED <<store, query, status>>

\* A page without one: the reader has seen everything stored so far.
FetchLastPage(r) ==
    /\ status[r] = "paging"
    /\ Accepted(r)
    /\ ~HasMore(query[r], after[r])
    /\ got' = [got EXCEPT ![r] = @ \o Page(query[r], after[r])]
    /\ upto' = [upto EXCEPT ![r] = Len(records)]
    /\ status' = [status EXCEPT ![r] = "complete"]
    /\ UNCHANGED <<store, query, after>>

\* The query is validated before its cursor is looked at.
Refuse(r) ==
    /\ status[r] = "paging"
    /\ ~Accepted(r)
    /\ status' = [status EXCEPT ![r] = IF IsValidQuery(query[r])
                                      THEN "invalid_cursor" ELSE "invalid_query"]
    /\ UNCHANGED <<store, query, after, got, upto>>

\* A complete reader looks for later events after the last record it has.
Resume(r) ==
    /\ status[r] = "complete"
    /\ status' = [status EXCEPT ![r] = "paging"]
    /\ after' = [after EXCEPT ![r] =
                    IF got[r] = <<>> THEN None ELSE got[r][Len(got[r])].cursor]
    /\ UNCHANGED <<store, query, got, upto>>

\* The process ends and another one starts, with an empty store; a reader
\* that has no record yet also has no cursor, and has covered nothing of it.
Restart ==
    /\ storeId < MaxStores
    /\ storeId' = storeId + 1
    /\ records' = <<>>
    /\ eventIndices' = <<>>
    /\ upto' = [r \in Readers |-> IF got[r] = <<>> THEN 0 ELSE upto[r]]
    /\ UNCHANGED <<acked, conflicts, query, after, got, status>>

Next ==
    \/ \E e \in Events : AppendNew(e) \/ AppendAgain(e) \/ AppendConflict(e)
    \/ \E r \in Readers :
          \/ \E q \in Queries : Ask(r, q)
          \/ FetchPage(r)
          \/ FetchLastPage(r)
          \/ Refuse(r)
          \/ Resume(r)
    \/ Restart

Spec == Init /\ [][Next]_vars

(***************************************************************************)
(* Properties                                                              *)
(***************************************************************************)
\* The index and the records describe each other: every indexed id leads to
\* the record of that id, every record is indexed under its event's id, and
\* its cursor is its position in this store.
IndexSound ==
    /\ \A id \in DOMAIN eventIndices :
          eventIndices[id] < Len(records) /\ Existing(id).event.id = id
    /\ \A i \in DOMAIN records :
          /\ IsKnown(records[i].event.id)
          /\ eventIndices[records[i].event.id] = i - 1
          /\ records[i].cursor = [store |-> storeId, position |-> i]

\* What append has answered stays true while the store lives: get finds the
\* very record, the event as it was sent and its cursor, however often the
\* event was appended again and whatever others appended under its id.
AckedReadable ==
    \A a \in acked : a.cursor.store = storeId =>
        IsKnown(a.event.id) /\ Get(a.event.id) = a

\* Within one store's life append gives an event one answer, however often it
\* is sent and whatever is sent under its id meanwhile: what was stored is
\* never said to conflict, nor the other way round (memory.rs:61-70).
OneAnswer ==
    \A a \in acked, c \in conflicts :
        a.cursor.store = c.store => a.event # c.event

\* A cursor is never refused by the store that has handed it out, be it the
\* one of the last record and be there nothing after it (record.rs:27).
CursorsStayGood ==
    \A r \in Readers :
        status[r] = "invalid_cursor" => after[r].store < storeId

\* The pages a reader has been given are the matches among the records they
\* cover, each of them once and in append order, whatever was appended
\* between two requests.
ReplayExact ==
    \A r \in Readers :
        (\A i \in DOMAIN got[r] : got[r][i].cursor.store = storeId)
            => got[r] = Selected(query[r], 1, upto[r])

\* Whatever the paging of the queries, the retries of appends and the
\* restarts, the store is an append-only log whose readers skip, repeat and
\* mix nothing ("queries them in append order", store.rs:8).
Log == INSTANCE EventLog WITH
    MaxEpochs <- MaxStores,
    epoch <- storeId,
    log   <- [i \in DOMAIN records |-> records[i].event],
    wants <- query,
    place <- upto,
    seen  <- [r \in Readers |->
                 [i \in DOMAIN got[r] |-> got[r][i].event]],
    reads <- [r \in Readers |-> IF got[r] = <<>> THEN storeId
                                ELSE got[r][1].cursor.store]
ImplementsEventLog == Log!LogSpec

=============================================================================
