------------------------ MODULE MemoryEventStoreProofs ------------------------
(***************************************************************************)
(* Theorems about the store, about those who replay from it and about the  *)
(* abstract log it implements, for any events, any readers and queries and *)
(* any number of incarnations.                                             *)
(***************************************************************************)
EXTENDS MemoryEventStore, SelectionProofs

USE StoreAssumption

-----------------------------------------------------------------------------
\* No record is said to come from an incarnation that is yet to start.
AckedFromPast == \A a \in acked : a.cursor.store <= storeId

\* The inductive invariant.  That an acknowledged record can be read again
\* rests on the index being sound, and survives a restart only because the
\* new incarnation's id is on no cursor handed out before.
StoreInv == StoreTypeOK /\ IndexSound /\ AckedFromPast /\ AckedReadable

LEMMA InitStoreInv == Init => StoreInv
BY DEF Init, StoreInv, StoreTypeOK, IndexSound, AckedFromPast, AckedReadable

\* Appending an event of an unknown id keeps the index sound and leaves every
\* record that could be read where it was.
LEMMA AppendNewInv ==
  ASSUME StoreInv, NEW e \in Events, AppendNew(e)
  PROVE  StoreInv'
<1> DEFINE n == Len(records)
           record == [cursor |-> [store |-> storeId, position |-> n + 1],
                      event |-> e]
<1> USE DEF StoreInv
<1>1. /\ e.id \notin DOMAIN eventIndices
      /\ records' = Append(records, record)
      /\ eventIndices' = [id \in DOMAIN eventIndices \cup {e.id} |->
                             IF id = e.id THEN n ELSE eventIndices[id]]
      /\ acked' = acked \cup {record}
      /\ UNCHANGED <<storeId, conflicts>>
  BY DEF AppendNew, IsKnown, ForMemory, NewIndex
<1>2. /\ records \in Seq(StoredEvents)
      /\ n \in Nat
      /\ record \in StoredEvents
      /\ record.event = e
      /\ record.cursor = [store |-> storeId, position |-> n + 1]
  BY DEF StoreTypeOK, StoredEvents, Cursors
<1> HIDE DEF record
<1>3. /\ records' \in Seq(StoredEvents)
      /\ Len(records') = n + 1
      /\ \A i \in 1..n : records'[i] = records[i]
      /\ records'[n + 1] = record
  BY <1>1, <1>2, AppendProperties
<1>4. StoreTypeOK'
  <2>1. e.id \in EventIds
    BY DEF EventIds
  <2>2. /\ DOMAIN eventIndices' = DOMAIN eventIndices \cup {e.id}
        /\ eventIndices' \in [DOMAIN eventIndices' -> Nat]
    BY <1>1, <1>2 DEF StoreTypeOK
  <2> QED
    BY <1>1, <1>2, <1>3, <2>1, <2>2 DEF StoreTypeOK
<1>5. IndexSound'
  <2>1. ASSUME NEW id \in DOMAIN eventIndices'
        PROVE  /\ eventIndices'[id] < Len(records')
               /\ records'[eventIndices'[id] + 1].event.id = id
    <3>1. CASE id = e.id
      BY <1>1, <1>2, <1>3, <3>1
    <3>2. CASE id # e.id
      <4>1. /\ id \in DOMAIN eventIndices
            /\ eventIndices'[id] = eventIndices[id]
        BY <1>1, <3>2
      <4>2. /\ eventIndices[id] \in Nat
            /\ eventIndices[id] < n
            /\ records[eventIndices[id] + 1].event.id = id
        BY <4>1 DEF StoreTypeOK, IndexSound, Existing
      <4> QED
        BY <1>2, <1>3, <4>1, <4>2
    <3> QED
      BY <3>1, <3>2
  <2>2. ASSUME NEW i \in DOMAIN records'
        PROVE  /\ records'[i].event.id \in DOMAIN eventIndices'
               /\ eventIndices'[records'[i].event.id] = i - 1
               /\ records'[i].cursor = [store |-> storeId', position |-> i]
    <3>1. i \in 1..n + 1
      BY <1>2, <1>3
    <3>2. CASE i = n + 1
      BY <1>1, <1>2, <1>3, <3>2
    <3>3. CASE i \in 1..n
      <4>1. /\ records'[i] = records[i]
            /\ records[i].event.id \in DOMAIN eventIndices
            /\ eventIndices[records[i].event.id] = i - 1
            /\ records[i].cursor = [store |-> storeId, position |-> i]
        BY <1>2, <1>3, <3>3 DEF IndexSound, IsKnown
      <4> QED
        BY <1>1, <4>1
    <3> QED
      BY <1>2, <3>1, <3>2, <3>3
  <2> QED
    BY <2>1, <2>2 DEF IndexSound, IsKnown, Existing
<1>6. AckedFromPast'
  BY <1>1, <1>2 DEF AckedFromPast, StoreTypeOK
<1>7. AckedReadable'
  <2> SUFFICES ASSUME NEW a \in acked', a.cursor.store = storeId'
               PROVE  /\ a.event.id \in DOMAIN eventIndices'
                      /\ records'[eventIndices'[a.event.id] + 1] = a
    BY DEF AckedReadable, Get, IsKnown, Existing
  <2>1. CASE a = record
    BY <1>1, <1>2, <1>3, <2>1
  <2>2. CASE a # record
    <3>1. /\ a.event.id \in DOMAIN eventIndices
          /\ records[eventIndices[a.event.id] + 1] = a
      BY <1>1, <2>2 DEF AckedReadable, Get, IsKnown, Existing
    <3>2. /\ eventIndices[a.event.id] \in Nat
          /\ eventIndices[a.event.id] < n
      BY <3>1 DEF StoreTypeOK, IndexSound
    <3> QED
      BY <1>1, <1>2, <1>3, <3>1, <3>2
  <2> QED
    BY <2>1, <2>2
<1> QED
  BY <1>4, <1>5, <1>6, <1>7

\* Appending a stored event again adds no record; what is answered is the
\* record that get finds.
LEMMA AppendAgainInv ==
  ASSUME StoreInv, NEW e \in Events, AppendAgain(e)
  PROVE  StoreInv'
<1>1. /\ e.id \in DOMAIN eventIndices
      /\ Existing(e.id).event = e
      /\ acked' = acked \cup {Existing(e.id)}
      /\ UNCHANGED <<storeId, records, eventIndices, conflicts>>
  BY DEF AppendAgain, IsKnown
<1>2. eventIndices[e.id] + 1 \in 1..Len(records)
  BY <1>1 DEF StoreInv, StoreTypeOK, IndexSound
<1>3. /\ Existing(e.id) \in StoredEvents
      /\ Existing(e.id).cursor.store = storeId
  <2>1. records \in Seq(StoredEvents)
    BY DEF StoreInv, StoreTypeOK
  <2>2. \A i \in 1..Len(records) :
           records[i].cursor = [store |-> storeId, position |-> i]
    BY <2>1 DEF StoreInv, IndexSound
  <2>3. PICK i \in 1..Len(records) : i = eventIndices[e.id] + 1
    BY <1>2
  <2>4. records[i] \in StoredEvents
    BY <2>1
  <2>5. Existing(e.id) = records[i]
    BY <2>3 DEF Existing
  <2>6. records[i].cursor = [store |-> storeId, position |-> i]
    BY <2>2
  <2>7. records[i].cursor.store = storeId
    BY <2>6
  <2> QED
    BY <2>4, <2>5, <2>7
<1>4. StoreTypeOK' /\ IndexSound'
  <2>1. StoreTypeOK'
    BY <1>1, <1>3 DEF StoreInv, StoreTypeOK
  <2>2. IndexSound'
    BY <1>1 DEF StoreInv, IndexSound, IsKnown, Existing
  <2> QED
    BY <2>1, <2>2
<1>5. AckedFromPast'
  BY <1>1, <1>3 DEF StoreInv, StoreTypeOK, AckedFromPast
<1>6. AckedReadable'
  BY <1>1 DEF StoreInv, AckedReadable, Get, IsKnown, Existing
<1> QED
  BY <1>4, <1>5, <1>6 DEF StoreInv

\* An append that is refused changes nothing but the history.
LEMMA AppendConflictInv ==
  ASSUME StoreInv, NEW e \in Events, AppendConflict(e)
  PROVE  StoreInv'
<1>1. /\ conflicts' = conflicts \cup {[store |-> storeId, event |-> e]}
      /\ UNCHANGED <<storeId, records, eventIndices, acked>>
  BY DEF AppendConflict, Conflict
<1>2. StoreTypeOK'
  BY <1>1 DEF StoreInv, StoreTypeOK, Conflicts
<1>3. IndexSound' /\ AckedFromPast' /\ AckedReadable'
  BY <1>1 DEF StoreInv, IndexSound, AckedFromPast, AckedReadable, Get,
              IsKnown, Existing
<1> QED
  BY <1>2, <1>3 DEF StoreInv

\* A restart empties the store, and its new id is on no acknowledged record.
LEMMA RestartInv ==
  ASSUME StoreInv, Restart
  PROVE  StoreInv'
<1>1. /\ storeId' = storeId + 1 /\ storeId < MaxStores
      /\ records' = <<>> /\ eventIndices' = <<>> /\ UNCHANGED <<acked, conflicts>>
  BY DEF Restart
<1>2. StoreTypeOK'
  BY <1>1 DEF StoreInv, StoreTypeOK
<1>3. IndexSound'
  BY <1>1 DEF IndexSound
<1>4. \A a \in acked : a.cursor.store \in Nat /\ a.cursor.store <= storeId
  BY DEF StoreInv, StoreTypeOK, AckedFromPast, StoredEvents, Cursors
<1>5. AckedFromPast' /\ AckedReadable'
  BY <1>1, <1>4 DEF StoreInv, StoreTypeOK, AckedFromPast, AckedReadable
<1> QED
  BY <1>2, <1>3, <1>5 DEF StoreInv

\* Readers change nothing of the store.
LEMMA NextStoreInv == StoreInv /\ [Next]_vars => StoreInv'
<1> SUFFICES ASSUME StoreInv, [Next]_vars PROVE StoreInv'
  OBVIOUS
<1>1. ASSUME UNCHANGED store PROVE StoreInv'
  BY <1>1 DEF store, StoreInv, StoreTypeOK, IndexSound, AckedFromPast,
              AckedReadable, Get, IsKnown, Existing
<1>2. ASSUME NEW e \in Events, AppendNew(e) \/ AppendAgain(e) \/ AppendConflict(e)
      PROVE  StoreInv'
  BY <1>2, AppendNewInv, AppendAgainInv, AppendConflictInv
<1>3. ASSUME NEW r \in Readers,
             \/ \E q \in Queries : Ask(r, q)
             \/ FetchPage(r) \/ FetchLastPage(r) \/ Refuse(r) \/ Resume(r)
      PROVE  UNCHANGED store
  BY <1>3 DEF Ask, FetchPage, FetchLastPage, Refuse, Resume
<1>4. CASE UNCHANGED vars
  BY <1>1, <1>4 DEF vars
<1> QED
  BY <1>1, <1>2, <1>3, <1>4, RestartInv DEF Next

\* The index of the store and its records describe each other in every state,
\* whatever is appended and however often the process restarts
\* (memory.rs:58-81).
THEOREM IndexAlwaysSound == Spec => []IndexSound
<1>1. Init => StoreInv
  BY InitStoreInv
<1>2. StoreInv /\ [Next]_vars => StoreInv'
  BY NextStoreInv
<1>3. StoreInv => IndexSound
  BY DEF StoreInv
<1> QED
  BY <1>1, <1>2, <1>3, PTL DEF Spec

\* A record that append has answered is what get answers for its event's id
\* for the rest of that store's life (memory.rs:58-89).
THEOREM AckedAlwaysReadable == Spec => []AckedReadable
<1>1. Init => StoreInv
  BY InitStoreInv
<1>2. StoreInv /\ [Next]_vars => StoreInv'
  BY NextStoreInv
<1>3. StoreInv => AckedReadable
  BY DEF StoreInv
<1> QED
  BY <1>1, <1>2, <1>3, PTL DEF Spec

-----------------------------------------------------------------------------
\* What was refused in this incarnation is not what is stored under its id;
\* the store never changes what it has under an id, so it stays refused.
ConflictsKnown ==
    \A c \in conflicts :
        /\ c.store <= storeId
        /\ c.store = storeId =>
              IsKnown(c.event.id) /\ Existing(c.event.id).event # c.event

AnswerInv == StoreInv /\ ConflictsKnown /\ OneAnswer

LEMMA AppendNewAnswers ==
  ASSUME AnswerInv, NEW e \in Events, AppendNew(e)
  PROVE  ConflictsKnown' /\ OneAnswer'
<1> DEFINE n == Len(records)
           record == [cursor |-> [store |-> storeId, position |-> n + 1],
                      event |-> e]
<1>1. /\ e.id \notin DOMAIN eventIndices
      /\ records' = Append(records, record)
      /\ eventIndices' = [id \in DOMAIN eventIndices \cup {e.id} |->
                             IF id = e.id THEN n ELSE eventIndices[id]]
      /\ acked' = acked \cup {record}
      /\ UNCHANGED <<storeId, conflicts>>
  BY DEF AppendNew, IsKnown, ForMemory, NewIndex
<1>2. /\ records \in Seq(StoredEvents)
      /\ n \in Nat
      /\ record \in StoredEvents
      /\ record.event = e
      /\ record.cursor.store = storeId
  BY DEF AnswerInv, StoreInv, StoreTypeOK, StoredEvents, Cursors
<1> HIDE DEF record
<1>3. \A i \in 1..n : records'[i] = records[i]
  BY <1>1, <1>2, AppendProperties
<1>4. ConflictsKnown'
  <2> SUFFICES ASSUME NEW c \in conflicts, c.store = storeId
               PROVE  /\ c.event.id \in DOMAIN eventIndices'
                      /\ records'[eventIndices'[c.event.id] + 1].event # c.event
    BY <1>1 DEF AnswerInv, ConflictsKnown, IsKnown, Existing
  <2>1. /\ c.event.id \in DOMAIN eventIndices
        /\ records[eventIndices[c.event.id] + 1].event # c.event
    BY DEF AnswerInv, ConflictsKnown, IsKnown, Existing
  <2>2. eventIndices[c.event.id] + 1 \in 1..n
    BY <2>1, <1>2 DEF AnswerInv, StoreInv, StoreTypeOK, IndexSound
  <2>3. eventIndices'[c.event.id] = eventIndices[c.event.id]
    BY <1>1, <2>1
  <2> QED
    BY <1>1, <1>3, <2>1, <2>2, <2>3
<1>5. OneAnswer'
  <2> SUFFICES ASSUME NEW a \in acked', NEW c \in conflicts,
                      a.cursor.store = c.store
               PROVE  a.event # c.event
    BY <1>1 DEF OneAnswer
  <2>1. CASE a = record
    BY <1>1, <1>2, <2>1 DEF AnswerInv, ConflictsKnown, IsKnown
  <2>2. CASE a # record
    BY <1>1, <2>2 DEF AnswerInv, OneAnswer
  <2> QED
    BY <2>1, <2>2
<1> QED
  BY <1>4, <1>5

LEMMA AppendAgainAnswers ==
  ASSUME AnswerInv, NEW e \in Events, AppendAgain(e)
  PROVE  ConflictsKnown' /\ OneAnswer'
<1>1. /\ e.id \in DOMAIN eventIndices
      /\ Existing(e.id).event = e
      /\ acked' = acked \cup {Existing(e.id)}
      /\ UNCHANGED <<storeId, records, eventIndices, conflicts>>
  BY DEF AppendAgain, IsKnown
<1>2. ConflictsKnown'
  BY <1>1 DEF AnswerInv, ConflictsKnown, IsKnown, Existing
<1>3. Existing(e.id).cursor.store = storeId
  <2>1. PICK i \in 1..Len(records) : i = eventIndices[e.id] + 1
    BY <1>1 DEF AnswerInv, StoreInv, StoreTypeOK, IndexSound
  <2>2. records \in Seq(StoredEvents)
    BY DEF AnswerInv, StoreInv, StoreTypeOK
  <2>3. records[i].cursor = [store |-> storeId, position |-> i]
    BY <2>2 DEF AnswerInv, StoreInv, IndexSound
  <2>4. Existing(e.id) = records[i]
    BY <2>1 DEF Existing
  <2> QED
    BY <2>3, <2>4
<1>4. OneAnswer'
  <2> SUFFICES ASSUME NEW a \in acked', NEW c \in conflicts,
                      a.cursor.store = c.store
               PROVE  a.event # c.event
    BY <1>1 DEF OneAnswer
  <2>1. CASE a = Existing(e.id)
    <3> SUFFICES ASSUME c.event = e PROVE FALSE
      BY <1>1, <2>1
    <3>1. c.store = storeId
      BY <1>3, <2>1
    <3> QED
      BY <1>1, <3>1 DEF AnswerInv, ConflictsKnown
  <2>2. CASE a # Existing(e.id)
    BY <1>1, <2>2 DEF AnswerInv, OneAnswer
  <2> QED
    BY <2>1, <2>2
<1> QED
  BY <1>2, <1>4

LEMMA AppendConflictAnswers ==
  ASSUME AnswerInv, NEW e \in Events, AppendConflict(e)
  PROVE  ConflictsKnown' /\ OneAnswer'
<1> DEFINE refused == [store |-> storeId, event |-> e]
<1>1. /\ e.id \in DOMAIN eventIndices
      /\ Existing(e.id).event # e
      /\ conflicts' = conflicts \cup {refused}
      /\ UNCHANGED <<storeId, records, eventIndices, acked>>
  BY DEF AppendConflict, Conflict, IsKnown
<1>2. refused.store = storeId /\ refused.event = e /\ storeId \in Nat
  BY DEF AnswerInv, StoreInv, StoreTypeOK
<1> HIDE DEF refused
<1>3. ConflictsKnown'
  BY <1>1, <1>2 DEF AnswerInv, ConflictsKnown, IsKnown, Existing
<1>4. OneAnswer'
  <2> SUFFICES ASSUME NEW a \in acked, NEW c \in conflicts',
                      a.cursor.store = c.store
               PROVE  a.event # c.event
    BY <1>1 DEF OneAnswer
  <2>1. CASE c = refused
    <3>1. a.cursor.store = storeId
      BY <1>2, <2>1
    <3>2. Existing(a.event.id) = a
      BY <3>1 DEF AnswerInv, StoreInv, AckedReadable, Get
    <3> QED
      BY <1>1, <1>2, <2>1, <3>2
  <2>2. CASE c # refused
    BY <1>1, <2>2 DEF AnswerInv, OneAnswer
  <2> QED
    BY <2>1, <2>2
<1> QED
  BY <1>3, <1>4

LEMMA RestartAnswers ==
  ASSUME AnswerInv, Restart
  PROVE  ConflictsKnown' /\ OneAnswer'
<1>1. storeId' = storeId + 1 /\ UNCHANGED <<acked, conflicts>>
  BY DEF Restart
<1>2. \A c \in conflicts : c.store \in Nat /\ c.store <= storeId
  BY DEF AnswerInv, StoreInv, StoreTypeOK, Conflicts, ConflictsKnown
<1>3. storeId \in Nat
  BY DEF AnswerInv, StoreInv, StoreTypeOK
<1> QED
  BY <1>1, <1>2, <1>3 DEF AnswerInv, ConflictsKnown, OneAnswer

LEMMA NextAnswerInv == AnswerInv /\ [Next]_vars => AnswerInv'
<1> SUFFICES ASSUME AnswerInv, [Next]_vars
             PROVE  ConflictsKnown' /\ OneAnswer'
  BY NextStoreInv DEF AnswerInv
<1>1. ASSUME UNCHANGED store PROVE ConflictsKnown' /\ OneAnswer'
  BY <1>1 DEF store, AnswerInv, ConflictsKnown, OneAnswer, IsKnown, Existing
<1>2. ASSUME NEW e \in Events,
             AppendNew(e) \/ AppendAgain(e) \/ AppendConflict(e)
      PROVE  ConflictsKnown' /\ OneAnswer'
  BY <1>2, AppendNewAnswers, AppendAgainAnswers, AppendConflictAnswers
<1>3. ASSUME NEW r \in Readers,
             \/ \E q \in Queries : Ask(r, q)
             \/ FetchPage(r) \/ FetchLastPage(r) \/ Refuse(r) \/ Resume(r)
      PROVE  UNCHANGED store
  BY <1>3 DEF Ask, FetchPage, FetchLastPage, Refuse, Resume
<1>4. CASE UNCHANGED vars
  BY <1>1, <1>4 DEF vars
<1> QED
  BY <1>1, <1>2, <1>3, <1>4, RestartAnswers DEF Next

\* While a store lives, append answers one event in one way: what it has
\* stored it never calls a conflict, and what it has refused it never stores
\* (memory.rs:61-70).
THEOREM OneAnswerAlways == Spec => []OneAnswer
<1>1. Init => AnswerInv
  BY InitStoreInv DEF Init, AnswerInv, ConflictsKnown, OneAnswer
<1>2. AnswerInv /\ [Next]_vars => AnswerInv'
  BY NextAnswerInv
<1>3. AnswerInv => OneAnswer
  BY DEF AnswerInv
<1> QED
  BY <1>1, <1>2, <1>3, PTL DEF Spec

-----------------------------------------------------------------------------
(***************************************************************************)
(* What a query selects, by the lemmas about what a filter keeps.          *)
(***************************************************************************)
\* The positions of the matches from the first on, one set for all ends.
LEMMA SelectedIs ==
  ASSUME NEW q, NEW first \in Nat \ {0}
  PROVE  \E M : /\ \A i \in 1..Len(records) :
                      i \in M <=> first <= i /\ QueryMatches(q, records[i].event)
                /\ \A last \in 0..Len(records) :
                      Selected(q, first, last) = Kept(records, M, last)
<1> DEFINE M == {i \in 1..Len(records) :
                    first <= i /\ QueryMatches(q, records[i].event)}
<1>1. ASSUME NEW last \in 0..Len(records)
      PROVE  Selected(q, first, last) = Kept(records, M, last)
  <2> DEFINE S == {i \in first..last : QueryMatches(q, records[i].event)}
  <2>1. \A i \in 1..last : i \in S <=> i \in M
    OBVIOUS
  <2> HIDE DEF S, M
  <2>2. last \in Nat
    OBVIOUS
  <2>3. Kept(records, S, last) = Kept(records, M, last)
    BY <2>1, <2>2, KeptSame
  <2> QED
    BY <2>3 DEF Selected, S
<1>2. \A i \in 1..Len(records) :
         i \in M <=> first <= i /\ QueryMatches(q, records[i].event)
  OBVIOUS
<1> HIDE DEF M
<1> QED
  BY <1>1, <1>2

LEMMA SelectedType ==
  ASSUME NEW V, records \in Seq(V), NEW q, NEW first \in Nat \ {0},
         NEW last \in 0..Len(records)
  PROVE  Selected(q, first, last) \in Seq(V)
<1>1. PICK M : Selected(q, first, last) = Kept(records, M, last)
  BY SelectedIs
<1>2. Kept(records, M, last) \in Seq(V)
  BY KeptType
<1> QED
  BY <1>1, <1>2

\* Nothing is selected from no records.
LEMMA SelectedNone ==
  ASSUME NEW q, NEW first \in Nat, NEW last \in Nat, last < first
  PROVE  Selected(q, first, last) = <<>>
<1> DEFINE S == {i \in first..last : QueryMatches(q, records[i].event)}
<1>1. \A i \in 1..last : i \notin S
  OBVIOUS
<1> HIDE DEF S
<1>2. Kept(records, S, last) = <<>>
  BY <1>1, KeptNone
<1> QED
  BY <1>2 DEF Selected, S

\* What is selected of two stretches is what is selected of both.
LEMMA SelectedSplit ==
  ASSUME NEW V, records \in Seq(V), NEW q, NEW first \in Nat \ {0},
         NEW last \in 0..Len(records), NEW mid \in 0..last, first <= mid + 1
  PROVE  Selected(q, first, last) =
            Selected(q, first, mid) \o Selected(q, mid + 1, last)
<1>1. PICK M : /\ \A i \in 1..Len(records) :
                     i \in M <=> first <= i /\ QueryMatches(q, records[i].event)
               /\ \A n \in 0..Len(records) :
                     Selected(q, first, n) = Kept(records, M, n)
  BY SelectedIs
<1>2. PICK N : /\ \A i \in 1..Len(records) :
                     i \in N <=> mid + 1 <= i /\ QueryMatches(q, records[i].event)
               /\ \A n \in 0..Len(records) :
                     Selected(q, mid + 1, n) = Kept(records, N, n)
  <2>1. mid + 1 \in Nat \ {0}
    OBVIOUS
  <2> QED
    BY <2>1, SelectedIs
<1>3. \A i \in 1..last : i \in N <=> i \in M /\ mid < i
  BY <1>1, <1>2
<1>4. Kept(records, M, last) = Kept(records, M, mid) \o Kept(records, N, last)
  BY <1>3, KeptSplit
<1>5. last \in 0..Len(records) /\ mid \in 0..Len(records)
  OBVIOUS
<1>6. /\ Selected(q, first, last) = Kept(records, M, last)
      /\ Selected(q, first, mid) = Kept(records, M, mid)
      /\ Selected(q, mid + 1, last) = Kept(records, N, last)
  BY <1>1, <1>2, <1>5
<1> QED
  BY <1>4, <1>6

\* The first j of the selected are what is selected of the records up to the
\* j-th of them.
SelectedAt(q, first, last, x, j) ==
    \E p \in first..last : /\ QueryMatches(q, records[p].event)
                           /\ x[j] = records[p]
                           /\ Selected(q, first, p) = SubSeq(x, 1, j)

LEMMA SelectedTake ==
  ASSUME NEW V, records \in Seq(V), NEW q, NEW first \in Nat \ {0},
         NEW last \in 0..Len(records),
         NEW x \in Seq(V), x = Selected(q, first, last), NEW j \in DOMAIN x
  PROVE  SelectedAt(q, first, last, x, j)
<1>1. PICK M : /\ \A i \in 1..Len(records) :
                     i \in M <=> first <= i /\ QueryMatches(q, records[i].event)
               /\ \A n \in 0..Len(records) :
                     Selected(q, first, n) = Kept(records, M, n)
  BY SelectedIs
<1>3. x = Kept(records, M, last)
  BY <1>1
<1>4. PICK s : s = records
  OBVIOUS
<1>5. PICK p \in 1..last : p \in M /\ x[j] = s[p] /\ Kept(s, M, p) = SubSeq(x, 1, j)
  <2>1. s \in Seq(V) /\ last \in 0..Len(s) /\ x = Kept(s, M, last)
    BY <1>3, <1>4
  <2>2. Taken(s, M, last, x, j)
    BY <2>1, KeptTaken
  <2> QED
    BY <2>2 DEF Taken
<1>6. p \in first..last /\ QueryMatches(q, records[p].event)
  <2>1. p \in 1..Len(records) /\ p \in M
    BY <1>5
  <2> QED
    BY <1>1, <2>1
<1>7. Selected(q, first, p) = Kept(records, M, p)
  BY <1>1, <1>5
<1>8. x[j] = records[p] /\ Selected(q, first, p) = SubSeq(x, 1, j)
  BY <1>4, <1>5, <1>7
<1> QED
  BY <1>6, <1>8 DEF SelectedAt

\* Each match is selected.
LEMMA SelectedHas ==
  ASSUME NEW V, records \in Seq(V), NEW q, NEW first \in Nat \ {0},
         NEW last \in 0..Len(records),
         NEW p \in first..last, QueryMatches(q, records[p].event)
  PROVE  Selected(q, first, last) # <<>>
<1>1. PICK M : /\ \A i \in 1..Len(records) :
                     i \in M <=> first <= i /\ QueryMatches(q, records[i].event)
               /\ \A n \in 0..Len(records) :
                     Selected(q, first, n) = Kept(records, M, n)
  BY SelectedIs
<1>2. p \in M /\ p \in 1..last
  BY <1>1
<1>3. \E j \in 1..Len(Kept(records, M, last)) :
         Kept(records, M, last)[j] = records[p]
  BY <1>2, KeptHas
<1>4. Selected(q, first, last) = Kept(records, M, last)
  BY <1>1
<1>5. Kept(records, M, last) # <<>>
  BY <1>3
<1> QED
  BY <1>4, <1>5

\* Records appended later change nothing in what was selected before.
LEMMA SelectedStays ==
  ASSUME NEW V, records \in Seq(V), NEW q, NEW first \in Nat \ {0},
         NEW last \in 0..Len(records),
         \A i \in 1..Len(records) : records'[i] = records[i]
  PROVE  Selected(q, first, last)' = Selected(q, first, last)
<1> DEFINE S == {i \in first..last : QueryMatches(q, records[i].event)}
           T == {i \in first..last : QueryMatches(q, records'[i].event)}
<1>1. \A i \in 1..last : (i \in T <=> i \in S) /\ (i \in T => records'[i] = records[i])
  OBVIOUS
<1>2. last \in Nat
  OBVIOUS
<1> HIDE DEF S, T
<1>3. Kept(records', T, last) = Kept(records, S, last)
  BY <1>1, <1>2, KeptSame
<1> QED
  BY <1>3 DEF Selected, S, T

-----------------------------------------------------------------------------
(***************************************************************************)
(* Replays                                                                 *)
(***************************************************************************)
\* All that the reader has been given comes from the store there is now.
OfThisStore(r) == \A i \in DOMAIN got[r] : got[r][i].cursor.store = storeId

\* What a reader has been given comes from one incarnation, and so does the
\* cursor it goes on from, which it has once it has been given anything.
Origin(r) ==
    /\ \A i \in DOMAIN got[r] : /\ got[r][i].cursor.store <= storeId
                                /\ got[r][i].cursor.store = got[r][1].cursor.store
    /\ after[r] # None => /\ got[r] # <<>>
                          /\ after[r].store = got[r][1].cursor.store
    /\ status[r] = "paging" /\ got[r] # <<>> => after[r] # None

Asked(r) ==
    /\ status[r] = "idle" => query[r] = None /\ got[r] = <<>> /\ upto[r] = 0
    /\ status[r] # "idle" => query[r] \in Queries

\* The cursor lies within the records the pages cover, and none of those
\* after it is a match: to go on after it is to go on after all of them.
Covers(r) ==
    /\ upto[r] <= Len(records)
    /\ got[r] = Selected(query[r], 1, upto[r])
    /\ status[r] = "paging" =>
          /\ StartAfter(after[r]) <= upto[r]
          /\ Selected(query[r], StartAfter(after[r]) + 1, upto[r]) = <<>>

WasRefused(r) ==
    status[r] = "invalid_cursor" => after[r] # None /\ after[r].store < storeId

ReaderInv(r) ==
    /\ Origin(r)
    /\ Asked(r)
    /\ OfThisStore(r) => Covers(r)
    /\ WasRefused(r)

\* The inductive invariant.  That the pages are exact rests on the cursors'
\* being positions (StoreInv) and on a reader's never having records of two
\* incarnations; that a cursor is not refused, on its lying within Covers.
ReplayInv ==
    /\ StoreInv
    /\ TypeOK
    /\ \A r \in Readers : ReaderInv(r)

LEMMA InitReplayInv == Init => ReplayInv
<1> SUFFICES ASSUME Init PROVE ReplayInv
  OBVIOUS
<1>1. StoreInv
  BY InitStoreInv
<1>2. TypeOK
  BY <1>1 DEF Init, TypeOK, StoreInv
<1>3. ASSUME NEW r \in Readers PROVE ReaderInv(r)
  <2>1. /\ got[r] = <<>> /\ after[r] = None /\ upto[r] = 0 /\ query[r] = None
        /\ status[r] = "idle" /\ records = <<>>
    BY DEF Init
  <2>2. Selected(query[r], 1, 0) = <<>>
    BY SelectedNone
  <2> QED
    BY <2>1, <2>2 DEF ReaderInv, Origin, Asked, OfThisStore, Covers, WasRefused
<1> QED
  BY <1>1, <1>2, <1>3 DEF ReplayInv

\* A step that changes nothing of a reader, and appends at most.
LEMMA OtherReader ==
  ASSUME ReplayInv, NEW r \in Readers,
         UNCHANGED <<storeId, query[r], after[r], got[r], upto[r], status[r]>>,
         Len(records) <= Len(records'),
         Len(records') \in Nat,
         \A i \in 1..Len(records) : records'[i] = records[i]
  PROVE  ReaderInv(r)'
<1>1. ReaderInv(r)
  BY DEF ReplayInv
<1>2. Origin(r)' /\ Asked(r)' /\ WasRefused(r)'
  BY <1>1 DEF ReaderInv, Origin, Asked, WasRefused
<1>3. OfThisStore(r)' => Covers(r)'
  <2> SUFFICES ASSUME OfThisStore(r)' PROVE Covers(r)'
    OBVIOUS
  <2>1. OfThisStore(r) /\ Covers(r)
    BY <1>1 DEF ReaderInv, OfThisStore
  <2>2. records \in Seq(StoredEvents) /\ upto[r] \in 0..Len(records)
    BY <2>1 DEF ReplayInv, TypeOK, StoreTypeOK, Covers
  <2>3. PICK q, a, u : q = query[r] /\ a = StartAfter(after[r]) /\ u = upto[r]
    OBVIOUS
  <2>4. Selected(q, 1, u)' = Selected(q, 1, u)
    BY <2>2, <2>3, SelectedStays
  <2>5. status[r] = "paging" => a <= u /\ a \in Nat /\ Selected(q, a + 1, u) = <<>>
    BY <2>1, <2>3 DEF Covers, ReplayInv, TypeOK, StartAfter, Cursors
  <2>6. status[r] = "paging" => Selected(q, a + 1, u)' = <<>>
    BY <2>2, <2>3, <2>5, SelectedStays
  <2>7. got[r] = Selected(q, 1, u) /\ u <= Len(records)
    BY <2>1, <2>3 DEF Covers
  <2>8. /\ query'[r] = q /\ upto'[r] = u /\ StartAfter(after'[r]) = a
        /\ got'[r] = got[r] /\ status'[r] = status[r]
    BY <2>3
  <2>9. u <= Len(records')
    BY <2>2, <2>3, <2>7
  <2> QED
    BY <2>4, <2>5, <2>6, <2>7, <2>8, <2>9 DEF Covers, StartAfter, Selected
<1> QED
  BY <1>2, <1>3 DEF ReaderInv

\* A reader that pages, and whose cursor this store accepts, has been given
\* nothing but records of this store.
LEMMA PagesHere ==
  ASSUME ReplayInv, NEW r \in Readers, status[r] = "paging", Accepted(r)
  PROVE  OfThisStore(r) /\ Covers(r)
<1>1. ReaderInv(r)
  BY DEF ReplayInv
<1>2. OfThisStore(r)
  BY <1>1 DEF ReaderInv, Origin, OfThisStore, Accepted, IsMine
<1> QED
  BY <1>1, <1>2 DEF ReaderInv

\* What is selected after the cursor is what is selected after the records
\* already covered, and completes what has been given.
LEMMA Extends ==
  ASSUME ReplayInv, NEW r \in Readers, status[r] = "paging", Covers(r),
         NEW p \in upto[r]..Len(records)
  PROVE  LET next == Selected(query[r], StartAfter(after[r]) + 1, p)
         IN  /\ next = Selected(query[r], upto[r] + 1, p)
             /\ got[r] \o next = Selected(query[r], 1, p)
<1>1. records \in Seq(StoredEvents) /\ upto[r] \in 0..Len(records)
  BY DEF ReplayInv, TypeOK, StoreTypeOK, Covers
<1>2. PICK q, a, u : q = query[r] /\ a = StartAfter(after[r]) /\ u = upto[r]
  OBVIOUS
<1>3. /\ a \in Nat /\ a <= u
      /\ Selected(q, a + 1, u) = <<>>
      /\ got[r] = Selected(q, 1, u)
  BY <1>2 DEF Covers, ReplayInv, TypeOK, StartAfter, Cursors
<1>4. /\ u \in 0..Len(records) /\ p \in 0..Len(records) /\ u \in 0..p
      /\ a + 1 \in Nat \ {0} /\ a + 1 <= u + 1
      /\ u + 1 \in Nat \ {0} /\ 1 \in Nat \ {0} /\ 1 <= u + 1
  BY <1>1, <1>2, <1>3
<1>5. Selected(q, a + 1, p) = Selected(q, a + 1, u) \o Selected(q, u + 1, p)
  BY <1>1, <1>4, SelectedSplit
<1>6. Selected(q, 1, p) = Selected(q, 1, u) \o Selected(q, u + 1, p)
  BY <1>1, <1>4, SelectedSplit
<1>7. Selected(q, u + 1, p) \in Seq(StoredEvents)
  BY <1>1, <1>4, SelectedType
<1>8. PICK y, z : y = Selected(q, u + 1, p) /\ z = Selected(q, 1, p)
  OBVIOUS
<1>9. Selected(q, a + 1, p) = y
  BY <1>3, <1>5, <1>7, <1>8, ConcatEmptySeq
<1>10. z = got[r] \o y
  BY <1>3, <1>6, <1>8
<1> QED
  BY <1>2, <1>8, <1>9, <1>10

\* A page that is not the last one ends with the record its cursor is of.
LEMMA PageOf ==
  ASSUME ReplayInv, NEW r \in Readers, status[r] = "paging", Accepted(r),
         HasMore(query[r], after[r])
  PROVE  \E p \in upto[r]..Len(records) :
            /\ p \in Nat \ {0}
            /\ NextCursor(query[r], after[r]) =
                  [store |-> storeId, position |-> p]
            /\ Page(query[r], after[r]) =
                  Selected(query[r], StartAfter(after[r]) + 1, p)
            /\ Page(query[r], after[r]) # <<>>
<1>1. PICK q, a, u, n : /\ q = query[r] /\ a = StartAfter(after[r]) /\ u = upto[r]
                        /\ n = Len(records)
  OBVIOUS
<1>2. Covers(r)
  BY PagesHere
<1>3. records \in Seq(StoredEvents) /\ u \in 0..n /\ n \in Nat
  BY <1>1, <1>2 DEF ReplayInv, TypeOK, StoreTypeOK, Covers
<1>4. a \in Nat /\ a <= u /\ Selected(q, a + 1, u) = <<>>
  BY <1>1, <1>2 DEF Covers, ReplayInv, TypeOK, StartAfter, Cursors
<1>5. PICK x : x = Selected(q, a + 1, n)
  OBVIOUS
<1>6. /\ q.limit \in Nat \ {0} /\ Len(x) > q.limit
      /\ Found(q, after[r]) = x
      /\ Page(q, after[r]) = SubSeq(x, 1, q.limit)
      /\ NextCursor(q, after[r]) = SubSeq(x, 1, q.limit)[q.limit].cursor
  BY <1>1, <1>5 DEF Accepted, IsValidQuery, HasMore, Found, Page, NextCursor
<1>7. x \in Seq(StoredEvents)
  BY <1>1, <1>3, <1>4, <1>5, SelectedType
<1>8. PICK j, y : j = q.limit /\ y = SubSeq(x, 1, j)
  OBVIOUS
<1>9. j \in 1..Len(x) /\ j \in DOMAIN x
  BY <1>6, <1>7, <1>8, LenProperties
<1>10. PICK p \in (a + 1)..n : /\ QueryMatches(q, records[p].event)
                               /\ x[j] = records[p]
                               /\ Selected(q, a + 1, p) = y
  <2>1. PICK b : b = a + 1
    OBVIOUS
  <2>2. /\ b \in Nat \ {0} /\ n \in 0..Len(records)
        /\ records \in Seq(StoredEvents)
        /\ x = Selected(q, b, n)
        /\ y = SubSeq(x, 1, j)
    BY <1>1, <1>3, <1>4, <1>5, <1>8, <2>1
  <2>3. \E p \in b..n : /\ QueryMatches(q, records[p].event)
                        /\ x[j] = records[p]
                        /\ Selected(q, b, p) = y
    <3>1. SelectedAt(q, b, n, x, j)
      BY <1>7, <1>9, <2>2, SelectedTake
    <3> QED
      BY <2>2, <3>1 DEF SelectedAt
  <2> QED
    BY <2>1, <2>3
<1>11. p > u
  <2> SUFFICES ASSUME p <= u PROVE FALSE
    BY <1>3, <1>4
  <2>1. /\ p \in (a + 1)..u /\ a + 1 \in Nat \ {0} /\ u \in 0..Len(records)
    BY <1>1, <1>3, <1>4
  <2> QED
    BY <1>3, <1>4, <1>10, <2>1, SelectedHas
<1>12. records[p].cursor = [store |-> storeId, position |-> p]
  BY <1>1, <1>3, <1>4 DEF ReplayInv, StoreInv, IndexSound
<1>13. y[j] = x[j] /\ y # <<>>
  BY <1>7, <1>8, <1>9, SubSeqProperties
<1>14. p \in u..n /\ p \in Nat \ {0}
  BY <1>3, <1>4, <1>11
<1> QED
  BY <1>1, <1>6, <1>8, <1>10, <1>12, <1>13, <1>14

\* Whatever is selected comes from this store.
LEMMA SelectedHere ==
  ASSUME StoreTypeOK, IndexSound, NEW q, NEW last \in 0..Len(records),
         NEW i \in DOMAIN Selected(q, 1, last)
  PROVE  /\ Selected(q, 1, last) \in Seq(StoredEvents)
         /\ Selected(q, 1, last)[i].cursor.store = storeId
<1> DEFINE V == {record \in StoredEvents : record.cursor.store = storeId}
<1>1. records \in Seq(V)
  <2>1. records \in Seq(StoredEvents)
    BY DEF StoreTypeOK
  <2>2. ASSUME NEW k \in 1..Len(records) PROVE records[k] \in V
    <3>1. records[k].cursor = [store |-> storeId, position |-> k]
      BY <2>1 DEF IndexSound
    <3> QED
      BY <2>1, <3>1
  <2> HIDE DEF V
  <2> QED
    BY <2>1, <2>2
<1>2. PICK x : x = Selected(q, 1, last)
  OBVIOUS
<1>3. x \in Seq(V)
  <2> HIDE DEF V
  <2> QED
    BY <1>1, <1>2, SelectedType
<1>4. i \in DOMAIN x
  BY <1>2
<1>5. x \in Seq(StoredEvents) /\ x[i] \in V
  BY <1>3, <1>4
<1> QED
  BY <1>2, <1>5

\* A step of one reader.
LEMMA OneReader ==
  ASSUME ReplayInv, NEW r \in Readers, UNCHANGED store,
         \A s \in Readers \ {r} :
            UNCHANGED <<query[s], after[s], got[s], upto[s], status[s]>>,
         TypeOK', ReaderInv(r)'
  PROVE  ReplayInv'
<1>1. StoreInv'
  BY DEF store, ReplayInv, StoreInv, StoreTypeOK, IndexSound, AckedFromPast,
         AckedReadable, Get, IsKnown, Existing
<1>2. ASSUME NEW s \in Readers PROVE ReaderInv(s)'
  <2>1. CASE s = r
    BY <2>1
  <2>2. CASE s # r
    <3>1. /\ UNCHANGED <<storeId, query[s], after[s], got[s], upto[s], status[s]>>
          /\ records' = records
      BY <2>2 DEF store
    <3>2. /\ Len(records) <= Len(records') /\ Len(records') \in Nat
          /\ \A i \in 1..Len(records) : records'[i] = records[i]
      BY <3>1 DEF ReplayInv, TypeOK, StoreTypeOK
    <3> QED
      BY <3>1, <3>2, OtherReader
  <2> QED
    BY <2>1, <2>2
<1> QED
  BY <1>1, <1>2 DEF ReplayInv

LEMMA AskReplays ==
  ASSUME ReplayInv, NEW r \in Readers, NEW q \in Queries, Ask(r, q)
  PROVE  ReplayInv'
<1>1. /\ status[r] = "idle"
      /\ query' = [query EXCEPT ![r] = q]
      /\ status' = [status EXCEPT ![r] = "paging"]
      /\ UNCHANGED <<store, after, got, upto>>
  BY DEF Ask
<1>2. TypeOK /\ ReaderInv(r)
  BY DEF ReplayInv
<1>3. TypeOK'
  BY <1>1, <1>2 DEF TypeOK, StoreTypeOK, store
<1>4. \A s \in Readers \ {r} :
         UNCHANGED <<query[s], after[s], got[s], upto[s], status[s]>>
  BY <1>1, <1>2 DEF TypeOK
<1>5. query'[r] = q /\ status'[r] = "paging" /\ got[r] = <<>> /\ after[r] = None
  BY <1>1, <1>2 DEF TypeOK, ReaderInv, Asked, Origin
<1>6. Origin(r)' /\ Asked(r)' /\ WasRefused(r)'
  BY <1>1, <1>5 DEF Origin, Asked, WasRefused
<1>7. Covers(r)'
  <2>1. upto[r] = 0 /\ Len(records) \in Nat
    BY <1>1, <1>2 DEF ReaderInv, Asked, TypeOK, StoreTypeOK
  <2>2. Selected(q, 1, 0) = <<>> /\ Selected(q, 0 + 1, 0) = <<>>
    BY SelectedNone
  <2> QED
    BY <1>1, <1>5, <2>1, <2>2 DEF Covers, StartAfter, store, Selected
<1>8. ReaderInv(r)'
  BY <1>6, <1>7 DEF ReaderInv
<1> QED
  BY <1>1, <1>3, <1>4, <1>8, OneReader

LEMMA FetchPageReplays ==
  ASSUME ReplayInv, NEW r \in Readers, FetchPage(r)
  PROVE  ReplayInv'
<1>1. status[r] = "paging" /\ Accepted(r) /\ HasMore(query[r], after[r])
  BY DEF FetchPage
<1>2. TypeOK /\ ReaderInv(r) /\ StoreTypeOK /\ IndexSound
  BY DEF ReplayInv, StoreInv
<1>3. Covers(r) /\ OfThisStore(r)
  BY <1>1, PagesHere
<1>4. PICK p \in upto[r]..Len(records) :
         /\ p \in Nat \ {0}
         /\ NextCursor(query[r], after[r]) = [store |-> storeId, position |-> p]
         /\ Page(query[r], after[r]) =
               Selected(query[r], StartAfter(after[r]) + 1, p)
         /\ Page(query[r], after[r]) # <<>>
  BY <1>1, PageOf
<1>5. PICK q, page, given : /\ q = query[r]
                            /\ page = Page(query[r], after[r])
                            /\ given = got[r] \o page
  OBVIOUS
<1>6. given = Selected(q, 1, p)
  BY <1>1, <1>3, <1>4, <1>5, Extends
<1>7. p \in 0..Len(records) /\ records \in Seq(StoredEvents) /\ storeId \in 1..MaxStores
  BY <1>2, <1>4 DEF StoreTypeOK
<1>8. given \in Seq(StoredEvents)
  BY <1>6, <1>7, SelectedType
<1>9. given # <<>> /\ \A i \in DOMAIN given : given[i].cursor.store = storeId
  <2>1. \A i \in DOMAIN given : given[i].cursor.store = storeId
    BY <1>2, <1>6, <1>7, SelectedHere
  <2>2. page \in Seq(StoredEvents) /\ page # <<>>
    <3>1. StartAfter(after[r]) + 1 \in Nat \ {0}
      BY <1>2 DEF TypeOK, StartAfter, Cursors
    <3>2. Selected(q, StartAfter(after[r]) + 1, p) \in Seq(StoredEvents)
      BY <1>7, <3>1, SelectedType
    <3>3. page = Selected(q, StartAfter(after[r]) + 1, p)
      BY <1>4, <1>5
    <3>4. page # <<>>
      BY <1>4, <1>5
    <3> QED
      BY <3>2, <3>3, <3>4
  <2>3. got[r] \in Seq(StoredEvents)
    BY <1>2 DEF TypeOK
  <2>4. given # <<>>
    BY <1>5, <2>2, <2>3, ConcatProperties, LenProperties, EmptySeq
  <2> QED
    BY <2>1, <2>4
<1>10. PICK next : next = [store |-> storeId, position |-> p]
  OBVIOUS
<1>11. /\ next \in Cursors /\ next # None
       /\ next.store = storeId /\ next.position = p /\ StartAfter(next) = p
  BY <1>4, <1>7, <1>10 DEF Cursors, StartAfter, StoreAssumption
<1>12. /\ got' = [got EXCEPT ![r] = given]
       /\ after' = [after EXCEPT ![r] = next]
       /\ upto' = [upto EXCEPT ![r] = p]
       /\ UNCHANGED <<store, query, status>>
  BY <1>4, <1>5, <1>10, <1>11 DEF FetchPage
<1>13. TypeOK'
  BY <1>2, <1>7, <1>8, <1>11, <1>12 DEF TypeOK, StoreTypeOK, store
<1>14. \A s \in Readers \ {r} :
          UNCHANGED <<query[s], after[s], got[s], upto[s], status[s]>>
  BY <1>2, <1>12 DEF TypeOK
<1>15. /\ query'[r] = q /\ status'[r] = "paging" /\ got'[r] = given
       /\ after'[r] = next /\ upto'[r] = p /\ storeId' = storeId
       /\ records' = records
  BY <1>1, <1>2, <1>5, <1>12 DEF TypeOK, store
<1>16. Origin(r)'
  <2>1. 1 \in DOMAIN given
    BY <1>8, <1>9
  <2> QED
    BY <1>7, <1>9, <1>11, <1>15, <2>1 DEF Origin
<1>17. Asked(r)' /\ WasRefused(r)'
  BY <1>1, <1>2, <1>5, <1>15 DEF ReaderInv, Asked, WasRefused
<1>18. Covers(r)'
  <2>1. Selected(q, p + 1, p) = <<>>
    BY <1>4, SelectedNone
  <2>2. /\ Selected(query[r], 1, upto[r])' = Selected(q, 1, p)
        /\ Selected(query[r], p + 1, upto[r])' = Selected(q, p + 1, p)
    BY <1>15 DEF Selected
  <2>3. StartAfter(after[r])' = p
    BY <1>11, <1>15 DEF StartAfter
  <2> QED
    BY <1>4, <1>6, <1>7, <1>15, <2>1, <2>2, <2>3 DEF Covers
<1>19. ReaderInv(r)'
  BY <1>16, <1>17, <1>18 DEF ReaderInv
<1> QED
  BY <1>12, <1>13, <1>14, <1>19, OneReader

LEMMA FetchLastPageReplays ==
  ASSUME ReplayInv, NEW r \in Readers, FetchLastPage(r)
  PROVE  ReplayInv'
<1>1. status[r] = "paging" /\ Accepted(r) /\ ~HasMore(query[r], after[r])
  BY DEF FetchLastPage
<1>2. TypeOK /\ ReaderInv(r) /\ StoreTypeOK /\ IndexSound
  BY DEF ReplayInv, StoreInv
<1>3. Covers(r) /\ OfThisStore(r)
  BY <1>1, PagesHere
<1>4. PICK n, q, page, given : /\ n = Len(records)
                               /\ q = query[r]
                               /\ page = Page(query[r], after[r])
                               /\ given = got[r] \o page
  OBVIOUS
<1>5. n \in upto[r]..Len(records) /\ n \in 0..Len(records) /\ n \in Nat
  BY <1>2, <1>3, <1>4 DEF TypeOK, StoreTypeOK, Covers
<1>6. records \in Seq(StoredEvents) /\ storeId \in 1..MaxStores
  BY <1>2 DEF StoreTypeOK
<1>7. page = Selected(q, StartAfter(after[r]) + 1, n)
  BY <1>1, <1>4 DEF Page, Found
<1>8. given = Selected(q, 1, n)
  BY <1>1, <1>3, <1>4, <1>5, <1>7, Extends
<1>9. given \in Seq(StoredEvents)
  BY <1>5, <1>6, <1>8, SelectedType
<1>10. \A i \in DOMAIN given : given[i].cursor.store = storeId
  BY <1>2, <1>5, <1>8, SelectedHere
<1>11. got[r] # <<>> => given # <<>>
  <2>1. StartAfter(after[r]) + 1 \in Nat \ {0}
    BY <1>2 DEF TypeOK, StartAfter, Cursors
  <2>2. Selected(q, StartAfter(after[r]) + 1, n) \in Seq(StoredEvents)
    BY <1>5, <1>6, <2>1, SelectedType
  <2>3. page \in Seq(StoredEvents)
    BY <1>7, <2>2
  <2>4. got[r] \in Seq(StoredEvents)
    BY <1>2 DEF TypeOK
  <2> QED
    BY <1>4, <2>3, <2>4, ConcatProperties, LenProperties, EmptySeq
<1>12. /\ got' = [got EXCEPT ![r] = given]
       /\ upto' = [upto EXCEPT ![r] = n]
       /\ status' = [status EXCEPT ![r] = "complete"]
       /\ UNCHANGED <<store, query, after>>
  BY <1>4 DEF FetchLastPage
<1>13. TypeOK'
  BY <1>2, <1>5, <1>9, <1>12 DEF TypeOK, StoreTypeOK, store
<1>14. \A s \in Readers \ {r} :
          UNCHANGED <<query[s], after[s], got[s], upto[s], status[s]>>
  BY <1>2, <1>12 DEF TypeOK
<1>15. /\ query'[r] = q /\ status'[r] = "complete" /\ got'[r] = given
       /\ after'[r] = after[r] /\ upto'[r] = n /\ storeId' = storeId
       /\ records' = records
  BY <1>2, <1>4, <1>12 DEF TypeOK, store
<1>16. Origin(r)'
  <2>1. given # <<>> => 1 \in DOMAIN given
    BY <1>9
  <2>2. got[r] # <<>> => 1 \in DOMAIN got[r]
    BY <1>2 DEF TypeOK
  <2>3. after[r] # None => got[r] # <<>> /\ after[r].store = storeId
    BY <1>2, <1>3, <2>2 DEF ReaderInv, Origin, OfThisStore
  <2> QED
    BY <1>6, <1>9, <1>10, <1>11, <1>15, <2>1, <2>3 DEF Origin
<1>17. Asked(r)' /\ WasRefused(r)'
  BY <1>1, <1>2, <1>4, <1>15 DEF ReaderInv, Asked, WasRefused
<1>18. Covers(r)'
  <2>1. Selected(query[r], 1, upto[r])' = Selected(q, 1, n)
    BY <1>15 DEF Selected
  <2> QED
    BY <1>4, <1>5, <1>8, <1>15, <2>1 DEF Covers
<1>19. ReaderInv(r)'
  BY <1>16, <1>17, <1>18 DEF ReaderInv
<1> QED
  BY <1>12, <1>13, <1>14, <1>19, OneReader

\* Only a cursor of an incarnation that is gone is refused: one of this store
\* lies within the records covered.
LEMMA RefuseReplays ==
  ASSUME ReplayInv, NEW r \in Readers, Refuse(r)
  PROVE  ReplayInv'
<1>1. PICK refusal \in QueryErrors :
         /\ status[r] = "paging"
         /\ status' = [status EXCEPT ![r] = refusal]
         /\ refusal = "invalid_cursor" =>
               IsValidQuery(query[r]) /\ ~Accepted(r)
  BY DEF Refuse, QueryErrors
<1>2. UNCHANGED <<store, query, after, got, upto>>
  BY DEF Refuse
<1>3. TypeOK /\ ReaderInv(r)
  BY DEF ReplayInv
<1>4. TypeOK'
  BY <1>1, <1>2, <1>3 DEF TypeOK, StoreTypeOK, store
<1>5. \A s \in Readers \ {r} :
         UNCHANGED <<query[s], after[s], got[s], upto[s], status[s]>>
  BY <1>1, <1>2, <1>3 DEF TypeOK
<1>6. /\ status'[r] = refusal
      /\ UNCHANGED <<query[r], after[r], got[r], upto[r], storeId, records>>
  BY <1>1, <1>2, <1>3 DEF TypeOK, store
<1>7. refusal \notin {"idle", "paging"}
  BY <1>1 DEF QueryErrors
<1>8. Origin(r)' /\ Asked(r)'
  BY <1>1, <1>3, <1>6, <1>7 DEF ReaderInv, Origin, Asked
<1>9. OfThisStore(r)' => Covers(r)'
  BY <1>3, <1>6, <1>7 DEF ReaderInv, OfThisStore, Covers, Selected
<1>10. WasRefused(r)'
  <2> SUFFICES ASSUME refusal = "invalid_cursor"
               PROVE  after[r] # None /\ after[r].store < storeId
    BY <1>6 DEF WasRefused
  <2>1. after[r] # None /\ ~IsMine(after[r])
    BY <1>1 DEF Accepted
  <2>2. /\ after[r] \in Cursors /\ got[r] # <<>> /\ got[r] \in Seq(StoredEvents)
        /\ upto[r] \in Nat /\ storeId \in Nat /\ Len(records) \in Nat
    BY <1>3, <2>1 DEF ReaderInv, Origin, TypeOK, StoreTypeOK
  <2>3. after[r].store <= storeId /\ after[r].store \in Nat
    <3>1. 1 \in DOMAIN got[r]
      BY <2>2
    <3>2. after[r].store = got[r][1].cursor.store
      BY <1>3, <2>1 DEF ReaderInv, Origin
    <3>3. got[r][1].cursor.store <= storeId
      BY <1>3, <3>1 DEF ReaderInv, Origin
    <3> QED
      BY <2>2, <3>2, <3>3 DEF Cursors
  <2>4. ASSUME after[r].store = storeId PROVE FALSE
    <3>1. OfThisStore(r)
      BY <1>3, <2>1, <2>4 DEF ReaderInv, Origin, OfThisStore
    <3>2. after[r].position <= upto[r] /\ upto[r] <= Len(records)
      BY <1>1, <1>3, <2>1, <3>1 DEF ReaderInv, Covers, StartAfter
    <3>3. after[r].position \in Nat
      BY <2>2 DEF Cursors
    <3> QED
      BY <2>1, <2>2, <2>4, <3>2, <3>3 DEF IsMine
  <2> QED
    BY <2>1, <2>2, <2>3, <2>4
<1>11. ReaderInv(r)'
  BY <1>8, <1>9, <1>10 DEF ReaderInv
<1> QED
  BY <1>2, <1>4, <1>5, <1>11, OneReader

\* After its last record a reader goes on as after all that it has covered.
LEMMA ResumeReplays ==
  ASSUME ReplayInv, NEW r \in Readers, Resume(r)
  PROVE  ReplayInv'
<1>1. PICK next : /\ status[r] = "complete"
                  /\ next = IF got[r] = <<>> THEN None
                            ELSE got[r][Len(got[r])].cursor
                  /\ status' = [status EXCEPT ![r] = "paging"]
                  /\ after' = [after EXCEPT ![r] = next]
                  /\ UNCHANGED <<store, query, got, upto>>
  BY DEF Resume
<1>2. TypeOK /\ ReaderInv(r) /\ StoreTypeOK /\ IndexSound
  BY DEF ReplayInv, StoreInv
<1>3. got[r] \in Seq(StoredEvents)
  BY <1>2 DEF TypeOK
<1>4. PICK j : j = Len(got[r])
  OBVIOUS
<1>5. got[r] # <<>> => /\ j \in DOMAIN got[r] /\ 1 \in DOMAIN got[r]
                       /\ j \in 1..Len(got[r])
                       /\ next = got[r][j].cursor
                       /\ got[r][j] \in StoredEvents
  BY <1>1, <1>3, <1>4
<1>6. got[r] # <<>> => next \in Cursors /\ next # None
  BY <1>5 DEF StoredEvents, StoreAssumption
<1>7. next \in Cursors \cup {None}
  BY <1>1, <1>6
<1>8. TypeOK'
  BY <1>1, <1>2, <1>7 DEF TypeOK, StoreTypeOK, store
<1>9. \A s \in Readers \ {r} :
         UNCHANGED <<query[s], after[s], got[s], upto[s], status[s]>>
  BY <1>1, <1>2 DEF TypeOK
<1>10. /\ status'[r] = "paging" /\ after'[r] = next
       /\ UNCHANGED <<query[r], got[r], upto[r], storeId, records>>
  BY <1>1, <1>2 DEF TypeOK, store
<1>11. Origin(r)'
  <2>1. got[r] = <<>> => next = None
    BY <1>1
  <2>2. got[r] # <<>> => next.store = got[r][1].cursor.store
    BY <1>2, <1>5 DEF ReaderInv, Origin
  <2> QED
    BY <1>2, <1>6, <1>10, <2>1, <2>2 DEF ReaderInv, Origin
<1>12. Asked(r)' /\ WasRefused(r)'
  BY <1>1, <1>2, <1>10 DEF ReaderInv, Asked, WasRefused
<1>13. OfThisStore(r)' => Covers(r)'
  <2> SUFFICES ASSUME OfThisStore(r)' PROVE Covers(r)'
    OBVIOUS
  <2>1. Covers(r)
    BY <1>2, <1>10 DEF ReaderInv, OfThisStore
  <2>2. PICK q, u, x : q = query[r] /\ u = upto[r] /\ x = got[r]
    OBVIOUS
  <2>3. /\ records \in Seq(StoredEvents) /\ u \in 0..Len(records) /\ u \in Nat
        /\ x \in Seq(StoredEvents) /\ x = Selected(q, 1, u)
    BY <1>2, <1>3, <2>1, <2>2 DEF Covers, TypeOK, StoreTypeOK
  <2>4. /\ StartAfter(next) <= u
        /\ Selected(q, StartAfter(next) + 1, u) = <<>>
    <3>1. CASE x = <<>>
      <4>1. StartAfter(next) = 0
        BY <1>1, <2>2, <3>1 DEF StartAfter
      <4> QED
        BY <2>3, <3>1, <4>1
    <3>2. CASE x # <<>>
      <4>1. j \in DOMAIN x /\ j = Len(x) /\ next = x[j].cursor /\ next # None
        BY <1>4, <1>5, <1>6, <2>2, <3>2
      <4>2. PICK y : y = SubSeq(x, 1, j)
        OBVIOUS
      <4>3. 1 \in Nat \ {0}
        OBVIOUS
      <4>4. j \in DOMAIN x
        BY <4>1
      <4>5. PICK p \in 1..u : /\ QueryMatches(q, records[p].event)
                              /\ x[j] = records[p]
                              /\ Selected(q, 1, p) = y
        <5>1. SelectedAt(q, 1, u, x, j)
          BY <2>3, <4>3, <4>4, SelectedTake
        <5> QED
          BY <4>2, <5>1 DEF SelectedAt
      <4>6. y = x
        BY <2>3, <4>1, <4>2, SubSeqFull
      <4>7. StartAfter(next) = p
        <5>1. records[p].cursor = [store |-> storeId, position |-> p]
          BY <1>2, <2>3 DEF IndexSound
        <5> QED
          BY <4>1, <4>5, <5>1 DEF StartAfter
      <4>8. PICK z : z = Selected(q, p + 1, u)
        OBVIOUS
      <4>9. /\ p \in 0..u /\ p \in Nat /\ 1 <= p + 1 /\ p + 1 \in Nat \ {0}
        BY <2>3
      <4>10. Selected(q, 1, u) = Selected(q, 1, p) \o Selected(q, p + 1, u)
        BY <2>3, <4>3, <4>9, SelectedSplit
      <4>11. x = x \o z
        BY <2>3, <4>5, <4>6, <4>8, <4>10
      <4>12. z \in Seq(StoredEvents)
        BY <2>3, <4>8, <4>9, SelectedType
      <4>13. Len(x) = Len(x) + Len(z) /\ Len(x) \in Nat /\ Len(z) \in Nat
        BY <2>3, <4>11, <4>12, ConcatProperties, LenProperties
      <4>14. z = <<>>
        BY <4>12, <4>13, EmptySeq
      <4> QED
        BY <4>7, <4>8, <4>14
    <3> QED
      BY <3>1, <3>2
  <2>5. /\ Selected(query[r], 1, upto[r])' = Selected(q, 1, u)
        /\ Selected(query[r], StartAfter(next) + 1, upto[r])' =
              Selected(q, StartAfter(next) + 1, u)
    BY <1>10, <2>2 DEF Selected
  <2>6. StartAfter(after[r])' = StartAfter(next)
    BY <1>10 DEF StartAfter
  <2> QED
    BY <1>10, <2>1, <2>2, <2>4, <2>5, <2>6 DEF Covers
<1>14. ReaderInv(r)'
  BY <1>11, <1>12, <1>13 DEF ReaderInv
<1> QED
  BY <1>1, <1>8, <1>9, <1>14, OneReader

\* A new incarnation has nothing in common with what readers were given.
LEMMA RestartReplays ==
  ASSUME ReplayInv, Restart
  PROVE  ReplayInv'
<1>1. /\ storeId' = storeId + 1
      /\ records' = <<>>
      /\ upto' = [r \in Readers |-> IF got[r] = <<>> THEN 0 ELSE upto[r]]
      /\ UNCHANGED <<query, after, got, status>>
  BY DEF Restart
<1>2. StoreInv'
  BY RestartInv DEF ReplayInv
<1>3. TypeOK'
  BY <1>1, <1>2 DEF ReplayInv, TypeOK, StoreInv
<1>4. ASSUME NEW r \in Readers PROVE ReaderInv(r)'
  <2>1. /\ ReaderInv(r) /\ got[r] \in Seq(StoredEvents) /\ storeId \in Nat
        /\ after[r] \in Cursors \cup {None}
    BY DEF ReplayInv, TypeOK, StoreTypeOK
  <2>2. ASSUME NEW i \in DOMAIN got[r] PROVE got[r][i].cursor.store \in Nat
    <3>1. got[r][i] \in StoredEvents
      BY <2>1
    <3> QED
      BY <3>1 DEF StoredEvents, Cursors
  <2>3. Origin(r)'
    BY <1>1, <2>1, <2>2 DEF ReaderInv, Origin
  <2>4. Asked(r)'
    BY <1>1, <2>1 DEF ReaderInv, Asked
  <2>5. WasRefused(r)'
    <3>1. after[r] # None => after[r].store \in Nat
      BY <2>1 DEF Cursors
    <3> QED
      BY <1>1, <2>1, <3>1 DEF ReaderInv, WasRefused
  <2>6. OfThisStore(r)' => Covers(r)'
    <3> SUFFICES ASSUME OfThisStore(r)' PROVE Covers(r)'
      OBVIOUS
    <3>1. got[r] = <<>>
      <4> SUFFICES ASSUME got[r] # <<>> PROVE FALSE
        OBVIOUS
      <4>1. 1 \in DOMAIN got[r]
        BY <2>1
      <4>2. got[r][1].cursor.store = storeId + 1
        BY <1>1, <4>1 DEF OfThisStore
      <4>3. got[r][1].cursor.store <= storeId
        BY <2>1, <4>1 DEF ReaderInv, Origin
      <4> QED
        BY <2>1, <4>2, <4>3
    <3>2. upto'[r] = 0 /\ after'[r] = None /\ got'[r] = <<>> /\ Len(records') = 0
      BY <1>1, <2>1, <3>1 DEF ReaderInv, Origin
    <3>3. /\ Kept(records', {i \in 1..0 : QueryMatches(query'[r], records'[i].event)}, 0) = <<>>
          /\ Kept(records', {i \in (0 + 1)..0 : QueryMatches(query'[r], records'[i].event)}, 0) = <<>>
      BY KeptZero
    <3> QED
      BY <3>2, <3>3 DEF Covers, Selected, StartAfter
  <2> QED
    BY <2>3, <2>4, <2>5, <2>6 DEF ReaderInv
<1> QED
  BY <1>2, <1>3, <1>4 DEF ReplayInv

LEMMA AppendReplays ==
  ASSUME ReplayInv, NEW e \in Events,
         AppendNew(e) \/ AppendAgain(e) \/ AppendConflict(e)
  PROVE  ReplayInv'
<1>1. StoreInv'
  BY AppendNewInv, AppendAgainInv, AppendConflictInv DEF ReplayInv
<1>2. UNCHANGED readers /\ UNCHANGED storeId
  BY DEF AppendNew, AppendAgain, AppendConflict
<1>3. TypeOK'
  BY <1>1, <1>2 DEF ReplayInv, TypeOK, StoreInv, readers
<1>4. /\ Len(records) <= Len(records') /\ Len(records') \in Nat
      /\ \A i \in 1..Len(records) : records'[i] = records[i]
  <2>1. /\ records \in Seq(StoredEvents) /\ records' \in Seq(StoredEvents)
        /\ storeId \in 1..MaxStores
    BY <1>1 DEF ReplayInv, StoreInv, StoreTypeOK
  <2>2. CASE AppendNew(e)
    <3>1. PICK record \in StoredEvents : records' = Append(records, record)
      <4>1. [cursor |-> ForMemory(Len(records) + 1), event |-> e] \in StoredEvents
        BY <2>1 DEF StoredEvents, Cursors, ForMemory
      <4> QED
        BY <2>2, <4>1 DEF AppendNew
    <3> QED
      BY <2>1, <3>1, AppendProperties
  <2>3. CASE AppendAgain(e) \/ AppendConflict(e)
    BY <2>1, <2>3 DEF AppendAgain, AppendConflict
  <2> QED
    BY <2>2, <2>3
<1>5. ASSUME NEW r \in Readers PROVE ReaderInv(r)'
  <2>1. UNCHANGED <<storeId, query[r], after[r], got[r], upto[r], status[r]>>
    BY <1>2 DEF readers
  <2> QED
    BY <1>4, <2>1, OtherReader
<1> QED
  BY <1>1, <1>3, <1>5 DEF ReplayInv

LEMMA NextReplayInv == ReplayInv /\ [Next]_vars => ReplayInv'
<1> SUFFICES ASSUME ReplayInv, [Next]_vars PROVE ReplayInv'
  OBVIOUS
<1>1. ASSUME NEW e \in Events,
             AppendNew(e) \/ AppendAgain(e) \/ AppendConflict(e)
      PROVE  ReplayInv'
  BY <1>1, AppendReplays
<1>2. ASSUME NEW r \in Readers,
             \/ \E q \in Queries : Ask(r, q)
             \/ FetchPage(r) \/ FetchLastPage(r) \/ Refuse(r) \/ Resume(r)
      PROVE  ReplayInv'
  BY <1>2, AskReplays, FetchPageReplays, FetchLastPageReplays, RefuseReplays,
     ResumeReplays
<1>3. CASE UNCHANGED vars
  <2>1. StoreInv'
    BY <1>3, NextStoreInv DEF ReplayInv
  <2>2. TypeOK'
    BY <1>3 DEF vars, store, readers, ReplayInv, StoreTypeOK, TypeOK
  <2>3. ASSUME NEW r \in Readers PROVE ReaderInv(r)'
    <3>1. UNCHANGED <<storeId, query[r], after[r], got[r], upto[r], status[r]>>
      BY <1>3 DEF vars, store, readers
    <3>2. /\ Len(records) <= Len(records') /\ Len(records') \in Nat
          /\ \A i \in 1..Len(records) : records'[i] = records[i]
      BY <1>3 DEF vars, store, ReplayInv, TypeOK, StoreTypeOK
    <3> QED
      BY <3>1, <3>2, OtherReader
  <2> QED
    BY <2>1, <2>2, <2>3 DEF ReplayInv
<1> QED
  BY <1>1, <1>2, <1>3, RestartReplays DEF Next

\* Every variable has its type in every state.
THEOREM StoreTypes == Spec => []TypeOK
<1>1. Init => ReplayInv
  BY InitReplayInv
<1>2. ReplayInv /\ [Next]_vars => ReplayInv'
  BY NextReplayInv
<1>3. ReplayInv => TypeOK
  BY DEF ReplayInv
<1> QED
  BY <1>1, <1>2, <1>3, PTL DEF Spec

\* However many pages a replay takes, and whatever is appended between them,
\* a reader has been given the matches among the records its pages cover, each
\* once and in append order (memory.rs:94-117).
THEOREM ReplayAlwaysExact == Spec => []ReplayExact
<1>1. Init => ReplayInv
  BY InitReplayInv
<1>2. ReplayInv /\ [Next]_vars => ReplayInv'
  BY NextReplayInv
<1>3. ReplayInv => ReplayExact
  BY DEF ReplayInv, ReaderInv, OfThisStore, Covers, ReplayExact
<1> QED
  BY <1>1, <1>2, <1>3, PTL DEF Spec

\* The store that has handed a cursor out never refuses it (record.rs:27).
THEOREM CursorsAlwaysGood == Spec => []CursorsStayGood
<1>1. Init => ReplayInv
  BY InitReplayInv
<1>2. ReplayInv /\ [Next]_vars => ReplayInv'
  BY NextReplayInv
<1>3. ReplayInv => CursorsStayGood
  BY DEF ReplayInv, ReaderInv, WasRefused, CursorsStayGood
<1> QED
  BY <1>1, <1>2, <1>3, PTL DEF Spec

-----------------------------------------------------------------------------
(***************************************************************************)
(* The store is an event log                                               *)
(***************************************************************************)
EventOf == [record \in StoredEvents |-> record.event]

LEMMA EventOfMaps == EventOf \in Maps(StoredEvents, Events)
BY DEF EventOf, Maps, StoredEvents

\* The instance's own copies of the operators are those of this module.
LEMMA SameKept == \A s, I, n : Log!Kept(s, I, n) = Kept(s, I, n)
BY DEF Log!Kept, Kept

LEMMA SameMatches == \A q, e : Log!QueryMatches(q, e) <=> QueryMatches(q, e)
BY DEF Log!QueryMatches, Log!Matches, Log!Accepts, Log!AcceptsType, Log!Occurred,
       QueryMatches, Matches, Accepts, AcceptsType, Occurred

\* The log and what a reader has seen are the events of the records.
LEMMA EventsOf ==
  ASSUME NEW s \in Seq(StoredEvents)
  PROVE  [i \in DOMAIN s |-> s[i].event] = Mapped(EventOf, s)
<1>1. \A i \in 1..Len(s) : s[i] \in StoredEvents
  OBVIOUS
<1>2. DOMAIN s = 1..Len(s)
  OBVIOUS
<1>3. \A i \in 1..Len(s) : EventOf[s[i]] = s[i].event
  BY <1>1 DEF EventOf
<1> QED
  BY <1>2, <1>3 DEF Mapped

LEMMA WantedIs ==
  ASSUME StoreTypeOK, NEW r \in Readers, NEW first \in Nat \ {0},
         NEW last \in 0..Len(records)
  PROVE  Log!Wanted(r, first, last) =
            Mapped(EventOf, Selected(query[r], first, last))
<1>1. records \in Seq(StoredEvents)
  BY DEF StoreTypeOK
<1> DEFINE log == [i \in DOMAIN records |-> records[i].event]
           S == {i \in first..last : QueryMatches(query[r], records[i].event)}
           T == {i \in first..last : Log!QueryMatches(query[r], log[i])}
<1>2. Log!Wanted(r, first, last) = Log!Kept(log, T, last)
  BY DEF Log!Wanted
<1>3. log = Mapped(EventOf, records)
  BY <1>1, EventsOf
<1>4. T = S
  <2>1. \A i \in first..last : i \in DOMAIN records
    BY <1>1
  <2> QED
    BY <2>1, SameMatches
<1>5. Selected(query[r], first, last) = Kept(records, S, last)
  BY DEF Selected
<1> HIDE DEF log, S, T
<1>6. Kept(Mapped(EventOf, records), S, last) =
         Mapped(EventOf, Kept(records, S, last))
  BY <1>1, EventOfMaps, KeptMap
<1> QED
  BY <1>2, <1>3, <1>4, <1>5, <1>6, SameKept

LEMMA InitIsLogInit == Init => Log!LogInit
<1> SUFFICES ASSUME Init PROVE Log!LogInit
  OBVIOUS
<1>1. /\ records = <<>> /\ storeId = 1
      /\ query = [r \in Readers |-> None]
      /\ upto = [r \in Readers |-> 0]
      /\ \A r \in Readers : got[r] = <<>>
  BY DEF Init
<1>2. [i \in DOMAIN records |-> records[i].event] = <<>>
  BY <1>1
<1>3. \A r \in Readers : [i \in DOMAIN got[r] |-> got[r][i].event] = <<>>
  BY <1>1
<1> QED
  BY <1>1, <1>2, <1>3 DEF Log!LogInit

\* A step that leaves these alone leaves the log alone.
LEMMA LogStutter ==
  ASSUME UNCHANGED <<storeId, records, query, got, upto>>
  PROVE  UNCHANGED Log!vars
BY DEF Log!vars, Log!logVars, Log!readerVars

LEMMA AppendNewIsRecord ==
  ASSUME ReplayInv, NEW e \in Events, AppendNew(e)
  PROVE  Log!Record(e)
<1> DEFINE log == [i \in DOMAIN records |-> records[i].event]
<1>1. PICK record : /\ record = [cursor |-> ForMemory(Len(records) + 1), event |-> e]
                    /\ records' = Append(records, record)
                    /\ ~IsKnown(e.id)
  BY DEF AppendNew
<1>2. /\ records \in Seq(StoredEvents) /\ storeId \in 1..MaxStores /\ IndexSound
  BY DEF ReplayInv, StoreInv, StoreTypeOK
<1>3. record \in StoredEvents /\ record.event = e
  BY <1>1, <1>2 DEF StoredEvents, Cursors, ForMemory
<1>4. records' \in Seq(StoredEvents)
  BY <1>1, <1>2, <1>3, AppendProperties
<1>5. log = Mapped(EventOf, records) /\ log' = Mapped(EventOf, records')
  BY <1>2, <1>4, EventsOf
<1>6. log' = Append(log, e)
  <2>1. EventOf[record] = e
    BY <1>3 DEF EventOf
  <2>2. Mapped(EventOf, Append(records, record)) =
           Append(Mapped(EventOf, records), EventOf[record])
    BY <1>2, <1>3, EventOfMaps, MappedAppend
  <2> HIDE DEF log
  <2> QED
    BY <1>1, <1>5, <2>1, <2>2
<1>7. ASSUME NEW f \in Log!Range(log) PROVE f.id # e.id
  <2>1. PICK i \in DOMAIN records : f = records[i].event
    BY DEF Log!Range
  <2>2. IsKnown(f.id)
    BY <1>2, <2>1 DEF IndexSound
  <2> QED
    BY <1>1, <2>2
<1>8. UNCHANGED <<storeId, query, got, upto>>
  BY DEF AppendNew, readers
<1> QED
  BY <1>6, <1>7, <1>8 DEF Log!Record, Log!readerVars

LEMMA AskIsBegin ==
  ASSUME ReplayInv, NEW r \in Readers, NEW q \in Queries, Ask(r, q)
  PROVE  Log!Begin(r, q)
BY DEF Ask, ReplayInv, ReaderInv, Asked, store, Log!Begin, Log!logVars

\* Every page is a read of the records after those covered so far.
LEMMA PageIsRead ==
  ASSUME ReplayInv, NEW r \in Readers, status[r] = "paging", Accepted(r),
         NEW p \in upto[r]..Len(records),
         got' = [got EXCEPT ![r] = @ \o
                    Selected(query[r], StartAfter(after[r]) + 1, p)],
         upto' = [upto EXCEPT ![r] = p],
         UNCHANGED <<store, query>>
  PROVE  Log!Read(r, p) /\ p \in 0..Len([i \in DOMAIN records |-> records[i].event])
<1> DEFINE log == [i \in DOMAIN records |-> records[i].event]
           reads(s) == IF got[s] = <<>> THEN storeId ELSE got[s][1].cursor.store
           seen(s) == [i \in DOMAIN got[s] |-> got[s][i].event]
<1>1. TypeOK /\ ReaderInv(r) /\ StoreTypeOK /\ IndexSound
  BY DEF ReplayInv, StoreInv
<1>2. Covers(r) /\ OfThisStore(r)
  BY PagesHere
<1>3. PICK q, u, x, z : /\ q = query[r] /\ u = upto[r] /\ x = got[r]
                        /\ z = Selected(query[r], StartAfter(after[r]) + 1, p)
  OBVIOUS
<1>4. /\ u \in Nat /\ p \in u..Len(records) /\ p \in 0..Len(records)
      /\ u + 1 \in Nat \ {0} /\ records \in Seq(StoredEvents)
      /\ x \in Seq(StoredEvents)
  BY <1>1, <1>3 DEF TypeOK, StoreTypeOK
<1>5. z = Selected(q, u + 1, p) /\ x \o z = Selected(q, 1, p)
  BY <1>2, <1>3, Extends
<1>6. z \in Seq(StoredEvents)
  <2>1. Selected(q, u + 1, p) \in Seq(StoredEvents)
    BY <1>4, SelectedType
  <2> QED
    BY <1>5, <2>1
<1>7. Log!Wanted(r, u + 1, p) = Mapped(EventOf, z)
  BY <1>1, <1>3, <1>4, <1>5, WantedIs
<1>8. log \in Seq(Events) /\ Len(log) = Len(records)
  <2>1. log = Mapped(EventOf, records)
    BY <1>4, EventsOf
  <2>2. /\ Mapped(EventOf, records) \in Seq(Events)
        /\ Len(Mapped(EventOf, records)) = Len(records)
    BY <1>4, EventOfMaps, MappedType
  <2> HIDE DEF log
  <2> QED
    BY <2>1, <2>2
<1>9. /\ got'[r] = x \o z
      /\ \A s \in Readers \ {r} : got'[s] = got[s] /\ upto'[s] = upto[s]
      /\ upto'[r] = p
      /\ UNCHANGED <<storeId, records>>
  BY <1>1, <1>3 DEF TypeOK, store
<1>10. seen(r)' = seen(r) \o Log!Wanted(r, u + 1, p)
  <2>1. x \o z \in Seq(StoredEvents)
    BY <1>4, <1>6, ConcatProperties
  <2>2. seen(r) = Mapped(EventOf, x) /\ seen(r)' = Mapped(EventOf, x \o z)
    BY <1>3, <1>4, <1>9, <2>1, EventsOf
  <2>3. Mapped(EventOf, x \o z) = Mapped(EventOf, x) \o Mapped(EventOf, z)
    BY <1>4, <1>6, EventOfMaps, MappedConcat
  <2> HIDE DEF seen
  <2> QED
    BY <1>7, <2>2, <2>3
<1>11. reads(r) = storeId
  <2>1. x # <<>> => 1 \in DOMAIN x
    BY <1>4
  <2> QED
    BY <1>2, <1>3, <2>1 DEF OfThisStore
<1>12. reads(r)' = storeId
  <2>1. p \in 0..Len(records)
    BY <1>4
  <2>2. \A i \in DOMAIN Selected(q, 1, p) :
           Selected(q, 1, p)[i].cursor.store = storeId
    BY <1>1, <2>1, SelectedHere
  <2>3. PICK y : y = x \o z
    OBVIOUS
  <2>4. y \in Seq(StoredEvents) /\ \A i \in DOMAIN y : y[i].cursor.store = storeId
    BY <1>4, <1>5, <1>6, <2>2, <2>3, ConcatProperties
  <2>5. y # <<>> => 1 \in DOMAIN y
    BY <2>4
  <2> QED
    BY <1>9, <2>3, <2>4, <2>5
<1>13. \A s \in Readers \ {r} : reads(s)' = reads(s) /\ seen(s)' = seen(s)
  BY <1>9
<1>14. /\ [s \in Readers |-> reads(s)]' = [s \in Readers |-> reads(s)]
       /\ [s \in Readers |-> seen(s)]' =
             [[s \in Readers |-> seen(s)] EXCEPT ![r] = @ \o Log!Wanted(r, u + 1, p)]
  <2> HIDE DEF reads, seen
  <2> QED
    BY <1>10, <1>11, <1>12, <1>13
<1>15. query[r] # None
  BY <1>1 DEF ReaderInv, Asked, StoreAssumption
<1>16. UNCHANGED Log!logVars /\ UNCHANGED query
  BY <1>9 DEF Log!logVars
<1>17. p \in upto[r]..Len(log) /\ upto' = [upto EXCEPT ![r] = p]
  BY <1>3, <1>4, <1>8
<1>18. [s \in Readers |-> reads(s)][r] = storeId
  BY <1>11
<1>19. p \in 0..Len(log)
  BY <1>4, <1>8
<1>20. Log!Read(r, p)
  BY <1>3, <1>14, <1>15, <1>16, <1>17, <1>18 DEF Log!Read
<1> QED
  BY <1>19, <1>20

LEMMA RestartIsLose ==
  ASSUME ReplayInv, Restart
  PROVE  Log!Lose
<1> DEFINE seen(s) == [i \in DOMAIN got[s] |-> got[s][i].event]
<1>1. ASSUME NEW r \in Readers PROVE got[r] = <<>> <=> seen(r) = <<>>
  <2>1. got[r] \in Seq(StoredEvents)
    BY DEF ReplayInv, TypeOK
  <2>2. seen(r) = Mapped(EventOf, got[r])
    BY <2>1, EventsOf
  <2>3. seen(r) \in Seq(Events) /\ Len(seen(r)) = Len(got[r])
    BY <2>1, <2>2, EventOfMaps, MappedType
  <2> HIDE DEF seen
  <2> QED
    BY <2>1, <2>3, EmptySeq
<1>2. [i \in DOMAIN records' |-> records'[i].event] = <<>>
  BY DEF Restart
<1>3. ASSUME NEW r \in Readers, got[r] # <<>>
      PROVE  (IF got[r] = <<>> THEN storeId ELSE got[r][1].cursor.store)' =
             got[r][1].cursor.store
  BY <1>3 DEF Restart
<1> QED
  BY <1>1, <1>2, <1>3 DEF Restart, Log!Lose

LEMMA StoreStepIsLogStep ==
  ReplayInv /\ [Next]_vars => [Log!LogNext]_(Log!vars)
<1> SUFFICES ASSUME ReplayInv, [Next]_vars PROVE [Log!LogNext]_(Log!vars)
  OBVIOUS
<1>1. ASSUME NEW e \in Events, AppendNew(e) PROVE Log!LogNext
  BY <1>1, AppendNewIsRecord DEF Log!LogNext
<1>2. ASSUME NEW e \in Events, AppendAgain(e) \/ AppendConflict(e)
      PROVE  UNCHANGED Log!vars
  BY <1>2, LogStutter DEF AppendAgain, AppendConflict, readers
<1>3. ASSUME NEW r \in Readers, NEW q \in Queries, Ask(r, q) PROVE Log!LogNext
  BY <1>3, AskIsBegin DEF Log!LogNext
<1>4. ASSUME NEW r \in Readers, FetchPage(r) PROVE Log!LogNext
  <2>1. status[r] = "paging" /\ Accepted(r) /\ HasMore(query[r], after[r])
    BY <1>4 DEF FetchPage
  <2>2. PICK p \in upto[r]..Len(records) :
           /\ NextCursor(query[r], after[r]) = [store |-> storeId, position |-> p]
           /\ Page(query[r], after[r]) =
                 Selected(query[r], StartAfter(after[r]) + 1, p)
    BY <2>1, PageOf
  <2>3. /\ got' = [got EXCEPT ![r] = @ \o
                      Selected(query[r], StartAfter(after[r]) + 1, p)]
        /\ upto' = [upto EXCEPT ![r] = p]
        /\ UNCHANGED <<store, query>>
    BY <1>4, <2>2 DEF FetchPage
  <2>4. Log!Read(r, p) /\ p \in 0..Len([i \in DOMAIN records |-> records[i].event])
    BY <2>1, <2>3, PageIsRead
  <2> QED
    BY <2>4 DEF Log!LogNext
<1>5. ASSUME NEW r \in Readers, FetchLastPage(r) PROVE Log!LogNext
  <2>1. status[r] = "paging" /\ Accepted(r) /\ ~HasMore(query[r], after[r])
    BY <1>5 DEF FetchLastPage
  <2>2. PICK p \in upto[r]..Len(records) : p = Len(records)
    <3>1. upto[r] <= Len(records)
      BY <2>1, PagesHere DEF Covers
    <3>2. upto[r] \in Nat /\ Len(records) \in Nat
      BY DEF ReplayInv, TypeOK, StoreTypeOK
    <3> QED
      BY <3>1, <3>2
  <2>3. Page(query[r], after[r]) =
           Selected(query[r], StartAfter(after[r]) + 1, p)
    BY <2>1, <2>2 DEF Page, Found
  <2>4. /\ got' = [got EXCEPT ![r] = @ \o
                      Selected(query[r], StartAfter(after[r]) + 1, p)]
        /\ upto' = [upto EXCEPT ![r] = p]
        /\ UNCHANGED <<store, query>>
    BY <1>5, <2>2, <2>3 DEF FetchLastPage
  <2>5. Log!Read(r, p) /\ p \in 0..Len([i \in DOMAIN records |-> records[i].event])
    BY <2>1, <2>2, <2>4, PageIsRead
  <2> QED
    BY <2>5 DEF Log!LogNext
<1>6. ASSUME NEW r \in Readers, Refuse(r) \/ Resume(r) PROVE UNCHANGED Log!vars
  BY <1>6, LogStutter DEF Refuse, Resume, store
<1>7. CASE Restart
  BY <1>7, RestartIsLose DEF Log!LogNext
<1>8. CASE UNCHANGED vars
  BY <1>8, LogStutter DEF vars, store, readers
<1> QED
  BY <1>1, <1>2, <1>3, <1>4, <1>5, <1>6, <1>7, <1>8 DEF Next

\* Whatever the paging of the queries, the retries of appends and the
\* restarts, what readers see is an append-only log ("queries them in append
\* order", store.rs:8).
THEOREM StoreImplementsLog == Spec => ImplementsEventLog
<1>1. Init => ReplayInv /\ Log!LogInit
  BY InitReplayInv, InitIsLogInit
<1>2. ReplayInv /\ [Next]_vars => ReplayInv'
  BY NextReplayInv
<1>3. ReplayInv /\ [Next]_vars => [Log!LogNext]_(Log!vars)
  BY StoreStepIsLogStep
<1> QED
  BY <1>1, <1>2, <1>3, PTL DEF Spec, ImplementsEventLog, Log!LogSpec

=============================================================================
