------------------------ MODULE MemoryEventBusProofs ------------------------
(***************************************************************************)
(* Theorems about MemoryEventBus for any number of subscriptions, any      *)
(* finite number of publishers, any capacity and any bound of the counter. *)
(***************************************************************************)
EXTENDS MemoryEventBus, FiniteSetTheorems, SequenceTheorems, TLAPS

USE BusAssumption

-----------------------------------------------------------------------------
\* The initial state is well typed.
LEMMA InitTypeOK == Init => TypeOK
BY DEF Init, TypeOK, Answers

Tasks == {"unborn", "idle", "receiving", "closing", "dropping", "dropped"}

\* A step that changes nothing but where consumers are keeps the types.
LEMMA ConsumerTypes ==
  ASSUME TypeOK, UNCHANGED <<busVars, chanVars, pubVars, hist>>,
         task' \in [Subscriptions -> Tasks],
         closed' \in [Subscriptions -> BOOLEAN],
         receiveAfterLag' \in [Subscriptions -> BOOLEAN],
         result' \in [Subscriptions -> Answers]
  PROVE  TypeOK'
BY DEF TypeOK, Tasks, busVars, chanVars, pubVars, hist

\* Every step of the bus keeps its variables well typed; in particular no
\* queue ever holds more than QueueCapacity events.
LEMMA NextTypeOK == TypeOK /\ [Next]_vars => TypeOK'
<1> SUFFICES ASSUME TypeOK, [Next]_vars PROVE TypeOK'
  OBVIOUS
<1> USE DEF TypeOK, Answers
<1>1. ASSUME NEW p \in Publishers, NEW e \in Events, BeginPublish(p, e)
      PROVE  TypeOK'
  BY <1>1, SMTT(30) DEF BeginPublish, busVars, chanVars, subVars
<1>2. ASSUME NEW p \in Publishers, NEW s \in Subscriptions, Skip(p, s)
      PROVE  TypeOK'
  BY <1>2 DEF Skip, Visiting, VisitNext, busVars, chanVars, subVars, hist
<1>3. ASSUME NEW p \in Publishers, NEW s \in Subscriptions, Send(p, s)
      PROVE  TypeOK'
  <2> DEFINE item == [by |-> p, num |-> published[p],
                      event |-> event[p], gap |-> dropped[s]]
  <2>1. item \in Items
    BY <1>3 DEF Send, Visiting, Items
  <2>2. /\ Append(queue[s], item) \in Seq(Items)
        /\ Len(Append(queue[s], item)) <= QueueCapacity
    BY <1>3, <2>1 DEF Send, HasRoom
  <2>3. /\ queue' = [queue EXCEPT ![s] = Append(@, item)]
        /\ todo' = [todo EXCEPT ![p] = @ \ {s}]
        /\ UNCHANGED <<busVars, filter, rxClosed, lagged, subVars,
                       pc, event, at, found, hist>>
    BY <1>3 DEF Send, VisitNext
  <2> HIDE DEF item
  <2> QED
    BY <2>2, <2>3 DEF busVars, subVars, hist
<1>4. ASSUME NEW p \in Publishers, NEW s \in Subscriptions, Full(p, s)
      PROVE  TypeOK'
  BY <1>4, SMTT(30) DEF Full, Visiting, VisitNext, busVars, chanVars, subVars
<1>5. ASSUME NEW p \in Publishers, NEW s \in Subscriptions, FindClosed(p, s)
      PROVE  TypeOK'
  BY <1>5 DEF FindClosed, Visiting, VisitNext, busVars, chanVars, subVars, hist
<1>6. ASSUME NEW p \in Publishers, CountMissed(p)
      PROVE  TypeOK'
  BY <1>6 DEF CountMissed, SaturatingIncrement, busVars, subVars, hist
<1>7. ASSUME NEW p \in Publishers, EndVisit(p)
      PROVE  TypeOK'
  BY <1>7 DEF EndVisit, busVars, chanVars, subVars, hist
<1>8. ASSUME NEW p \in Publishers, Purge(p)
      PROVE  TypeOK'
  BY <1>8 DEF Purge, chanVars, subVars, hist
<1>9. ASSUME NEW s \in Subscriptions, NEW f \in Filters, Subscribe(s, f)
      PROVE  TypeOK'
  BY <1>9 DEF Subscribe, pubVars, hist
<1>10. ASSUME NEW s \in Subscriptions, NextEventClosed(s)
       PROVE  TypeOK'
  <2>1. /\ UNCHANGED <<busVars, chanVars, pubVars, hist>>
        /\ task' \in [Subscriptions -> Tasks]
        /\ closed' \in [Subscriptions -> BOOLEAN]
        /\ receiveAfterLag' \in [Subscriptions -> BOOLEAN]
        /\ result' \in [Subscriptions -> Answers]
    BY <1>10 DEF NextEventClosed, Tasks
  <2> QED
    BY <2>1, ConsumerTypes
<1>11. ASSUME NEW s \in Subscriptions, ReportLag(s)
       PROVE  TypeOK'
  <2>1. lagged[s] \in Nat /\ 0 \in 0..MaxLag
    BY BusAssumption
  <2>2. reported' \in [Subscriptions -> Nat]
    BY <1>11, <2>1 DEF ReportLag
  <2>3. lagged' \in [Subscriptions -> 0..MaxLag]
    BY <1>11, <2>1 DEF ReportLag, Swap
  <2>4. /\ receiveAfterLag' \in [Subscriptions -> BOOLEAN]
        /\ result' \in [Subscriptions -> Answers]
        /\ overdue' \in [Subscriptions -> Nat]
    BY <1>11 DEF ReportLag
  <2>5. UNCHANGED <<busVars, filter, queue, rxClosed, task, closed, pubVars,
                    published, owed, dropped, delivered>>
    BY <1>11 DEF ReportLag
  <2> QED
    BY <2>2, <2>3, <2>4, <2>5 DEF busVars, pubVars
<1>12. ASSUME NEW s \in Subscriptions, BeginReceive(s)
       PROVE  TypeOK'
  <2>1. /\ UNCHANGED <<busVars, chanVars, pubVars, hist>>
        /\ task' \in [Subscriptions -> Tasks]
        /\ closed' \in [Subscriptions -> BOOLEAN]
        /\ receiveAfterLag' \in [Subscriptions -> BOOLEAN]
        /\ result' \in [Subscriptions -> Answers]
    BY <1>12 DEF BeginReceive, Rearm, Tasks
  <2> QED
    BY <2>1, ConsumerTypes
<1>13. ASSUME NEW s \in Subscriptions, Receive(s)
       PROVE  TypeOK'
  <2>1. /\ Head(queue[s]) \in Items
        /\ Tail(queue[s]) \in Seq(Items)
        /\ Len(Tail(queue[s])) <= QueueCapacity
    BY <1>13, HeadTailProperties DEF Receive
  <2>2. /\ queue' \in [Subscriptions -> Seq(Items)]
        /\ \A r \in Subscriptions : Len(queue'[r]) <= QueueCapacity
    BY <1>13, <2>1 DEF Receive
  <2>3. delivered' \in [Subscriptions -> Seq(Items)]
    BY <1>13, <2>1 DEF Receive
  <2>4. overdue' \in [Subscriptions -> Nat]
    BY <1>13 DEF Receive
  <2>5. /\ task' = [task EXCEPT ![s] = "idle"]
        /\ result' = [result EXCEPT ![s] = "event"]
        /\ UNCHANGED <<busVars, filter, rxClosed, lagged, closed,
                       receiveAfterLag, pubVars, published, owed, dropped,
                       reported>>
    BY <1>13 DEF Receive
  <2> QED
    BY <2>2, <2>3, <2>4, <2>5 DEF busVars, pubVars
<1>14. ASSUME NEW s \in Subscriptions, ReceiveEnd(s)
       PROVE  TypeOK'
  <2>1. /\ UNCHANGED <<busVars, chanVars, pubVars, hist>>
        /\ task' \in [Subscriptions -> Tasks]
        /\ closed' \in [Subscriptions -> BOOLEAN]
        /\ receiveAfterLag' \in [Subscriptions -> BOOLEAN]
        /\ result' \in [Subscriptions -> Answers]
    BY <1>14 DEF ReceiveEnd, Tasks
  <2> QED
    BY <2>1, ConsumerTypes
<1>15. ASSUME NEW s \in Subscriptions, Cancel(s)
       PROVE  TypeOK'
  <2>1. /\ UNCHANGED <<busVars, chanVars, pubVars, hist>>
        /\ task' \in [Subscriptions -> Tasks]
        /\ closed' \in [Subscriptions -> BOOLEAN]
        /\ receiveAfterLag' \in [Subscriptions -> BOOLEAN]
        /\ result' \in [Subscriptions -> Answers]
    BY <1>15 DEF Cancel, Tasks
  <2> QED
    BY <2>1, ConsumerTypes
<1>16. ASSUME NEW s \in Subscriptions, Close(s)
       PROVE  TypeOK'
  BY <1>16 DEF Close, MarkClosed, busVars, pubVars, hist
<1>17. ASSUME NEW s \in Subscriptions, Drop(s)
       PROVE  TypeOK'
  BY <1>17 DEF Drop, busVars, pubVars, hist
<1>18. ASSUME NEW s \in Subscriptions, Detach(s)
       PROVE  TypeOK'
  <2>1. <<>> \in Seq(Items) /\ Len(<<>>) <= QueueCapacity
    OBVIOUS
  <2>2. /\ queue' \in [Subscriptions -> Seq(Items)]
        /\ \A r \in Subscriptions : Len(queue'[r]) <= QueueCapacity
    BY <1>18, <2>1 DEF Detach
  <2> QED
    BY <1>18, <2>2 DEF Detach, Leave, pubVars, hist
<1>19. CASE DropBus
  BY <1>19 DEF DropBus, chanVars, subVars, pubVars, hist
<1>20. CASE UNCHANGED vars
  BY <1>20 DEF vars, busVars, chanVars, subVars, pubVars, hist
<1> QED
  BY <1>1, <1>2, <1>3, <1>4, <1>5, <1>6, <1>7, <1>8, <1>9, <1>10, <1>11,
     <1>12, <1>13, <1>14, <1>15, <1>16, <1>17, <1>18, <1>19, <1>20
     DEF Next, PublishStep, Visit, Consume

\* The variables of the bus stay well typed and no queue outgrows its
\* capacity, in every behaviour.
THEOREM TypeCorrect == Spec => []TypeOK
<1>1. Init => TypeOK
  BY InitTypeOK
<1>2. TypeOK /\ [Next]_vars => TypeOK'
  BY NextTypeOK
<1> QED
  BY <1>1, <1>2, PTL DEF Spec

-----------------------------------------------------------------------------
\* The publishers about to count a miss of a subscription are finitely many.
LEMMA CountingFinite ==
  TypeOK => \A s \in Subscriptions : /\ IsFiniteSet(Counting(s))
                                     /\ Cardinality(Counting(s)) \in Nat
<1> SUFFICES ASSUME NEW s \in Subscriptions
             PROVE  IsFiniteSet(Counting(s)) /\ Cardinality(Counting(s)) \in Nat
  OBVIOUS
<1>1. Counting(s) \subseteq Publishers
  BY DEF Counting
<1> QED
  BY <1>1, FS_Subset, FS_CardinalityType

\* A failed try_send drops one event and leaves one more publisher about to
\* count it.
LEMMA FullLag ==
  ASSUME TypeOK, LagAccounted,
         NEW p \in Publishers, NEW s \in Subscriptions, Full(p, s)
  PROVE  LagAccounted'
<1>1. /\ at[p] = None
      /\ at' = [at EXCEPT ![p] = s]
      /\ dropped' = [dropped EXCEPT ![s] = @ + 1]
      /\ lagged' = lagged /\ reported' = reported
  BY DEF Full, Visiting, chanVars
<1>2. /\ Counting(s)' = Counting(s) \cup {p}
      /\ p \notin Counting(s)
  BY <1>1 DEF Counting, TypeOK
<1>3. Cardinality(Counting(s)') = Cardinality(Counting(s)) + 1
  BY <1>2, CountingFinite, FS_AddElement
<1>4. \A r \in Subscriptions : r # s => Counting(r)' = Counting(r)
  BY <1>1 DEF Counting, TypeOK
<1> SUFFICES ASSUME NEW r \in Subscriptions
             PROVE  LET claimed == reported[r] + lagged[r] + Cardinality(Counting(r)')
                    IN  /\ claimed <= dropped'[r]
                        /\ \/ claimed = dropped'[r]
                           \/ reported[r] + lagged[r] >= MaxLag
  BY <1>1 DEF LagAccounted
<1>5. CASE r = s
  <2>1. /\ reported[r] \in Nat /\ lagged[r] \in Nat /\ dropped[r] \in Nat
        /\ Cardinality(Counting(r)) \in Nat
        /\ dropped'[r] = dropped[r] + 1
        /\ Cardinality(Counting(r)') = Cardinality(Counting(r)) + 1
    <3>1. /\ reported[r] \in Nat /\ lagged[r] \in Nat /\ dropped[r] \in Nat
          /\ dropped'[r] = dropped[r] + 1
      BY <1>1, <1>5 DEF TypeOK
    <3> QED
      BY <3>1, <1>3, <1>5, CountingFinite
  <2>2. /\ reported[r] + lagged[r] + Cardinality(Counting(r)) <= dropped[r]
        /\ \/ reported[r] + lagged[r] + Cardinality(Counting(r)) = dropped[r]
           \/ reported[r] + lagged[r] >= MaxLag
    BY DEF LagAccounted
  <2> QED
    BY <2>1, <2>2
<1>6. CASE r # s
  BY <1>1, <1>4, <1>6 DEF LagAccounted, TypeOK
<1> QED
  BY <1>5, <1>6

\* Counting the miss turns a publisher about to count into one unit of the
\* counter, or into nothing once the counter is full, which it then stays
\* until its MaxLag misses are reported.
LEMMA CountLag ==
  ASSUME TypeOK, LagAccounted, NEW p \in Publishers, CountMissed(p)
  PROVE  LagAccounted'
<1> PICK s \in Subscriptions : s = at[p]
  BY DEF CountMissed, TypeOK
<1>1. /\ at[p] = s
      /\ at' = [at EXCEPT ![p] = None]
      /\ lagged' = [lagged EXCEPT ![s] = SaturatingIncrement(@)]
      /\ dropped' = dropped /\ reported' = reported
  BY DEF CountMissed, TypeOK, hist
<1>2. /\ Counting(s)' = Counting(s) \ {p}
      /\ p \in Counting(s)
  BY <1>1 DEF Counting, TypeOK
<1>3. Cardinality(Counting(s)') = Cardinality(Counting(s)) - 1
  BY <1>1, <1>2, CountingFinite, FS_RemoveElement
<1>4. \A r \in Subscriptions : r # s => Counting(r)' = Counting(r)
  BY <1>1 DEF Counting, TypeOK
<1> SUFFICES ASSUME NEW r \in Subscriptions
             PROVE  LET claimed == reported[r] + lagged'[r] + Cardinality(Counting(r)')
                    IN  /\ claimed <= dropped[r]
                        /\ \/ claimed = dropped[r]
                           \/ reported[r] + lagged'[r] >= MaxLag
  BY <1>1 DEF LagAccounted
<1>5. CASE r = s
  <2>1. Cardinality(Counting(r)) \in Nat \ {0}
    BY <1>2, <1>5, CountingFinite, FS_EmptySet
  <2>2. /\ reported[r] \in Nat /\ lagged[r] \in 0..MaxLag /\ dropped[r] \in Nat
        /\ lagged'[r] = IF lagged[r] < MaxLag THEN lagged[r] + 1 ELSE lagged[r]
        /\ Cardinality(Counting(r)') = Cardinality(Counting(r)) - 1
    BY <1>1, <1>3, <1>5 DEF TypeOK, SaturatingIncrement
  <2>3. /\ reported[r] + lagged[r] + Cardinality(Counting(r)) <= dropped[r]
        /\ \/ reported[r] + lagged[r] + Cardinality(Counting(r)) = dropped[r]
           \/ reported[r] + lagged[r] >= MaxLag
    BY DEF LagAccounted
  <2> QED
    BY <2>1, <2>2, <2>3
<1>6. CASE r # s
  BY <1>1, <1>4, <1>6 DEF LagAccounted, TypeOK
<1> QED
  BY <1>5, <1>6

\* Reporting a lag moves the counter into the sum of the reports.
LEMMA ReportedLag ==
  ASSUME TypeOK, LagAccounted, NEW s \in Subscriptions, ReportLag(s)
  PROVE  LagAccounted'
<1>1. /\ reported' = [reported EXCEPT ![s] = @ + lagged[s]]
      /\ lagged' = [lagged EXCEPT ![s] = 0]
      /\ dropped' = dropped /\ at' = at
  BY DEF ReportLag, Swap, pubVars
<1>2. \A r \in Subscriptions : Counting(r)' = Counting(r)
  BY <1>1 DEF Counting
<1>3. \A r \in Subscriptions : reported'[r] + lagged'[r] = reported[r] + lagged[r]
  BY <1>1 DEF TypeOK
<1>4. \A r \in Subscriptions : /\ reported[r] \in Nat /\ reported'[r] \in Nat
                               /\ lagged[r] \in Nat /\ lagged'[r] \in Nat
  BY <1>1 DEF TypeOK
<1> QED
  BY <1>1, <1>2, <1>3, <1>4, CountingFinite DEF LagAccounted

\* What leaves the counters and the counting publishers alone keeps the books.
LEMMA OtherLag ==
  ASSUME LagAccounted, UNCHANGED <<at, lagged, dropped, reported>>
  PROVE  LagAccounted'
BY DEF LagAccounted, Counting

\* Every step of the bus keeps the account of a subscription's misses.
LEMMA NextLagAccounted == TypeOK /\ LagAccounted /\ [Next]_vars => LagAccounted'
<1> SUFFICES ASSUME TypeOK, LagAccounted, [Next]_vars PROVE LagAccounted'
  OBVIOUS
<1>1. ASSUME NEW p \in Publishers, NEW e \in Events, BeginPublish(p, e)
      PROVE  LagAccounted'
  BY <1>1, OtherLag DEF BeginPublish, chanVars
<1>2. ASSUME NEW p \in Publishers, PublishStep(p)
      PROVE  LagAccounted'
  <2>1. ASSUME NEW s \in Subscriptions, Skip(p, s) \/ FindClosed(p, s)
        PROVE  LagAccounted'
    BY <2>1, OtherLag DEF Skip, FindClosed, chanVars, hist
  <2>2. ASSUME NEW s \in Subscriptions, Send(p, s)
        PROVE  LagAccounted'
    BY <2>2, OtherLag DEF Send, hist
  <2>3. CASE EndVisit(p) \/ Purge(p)
    BY <2>3, OtherLag DEF EndVisit, Purge, chanVars, hist
  <2> QED
    BY <1>2, <2>1, <2>2, <2>3, FullLag, CountLag DEF PublishStep, Visit
<1>3. ASSUME NEW s \in Subscriptions, Consume(s)
      PROVE  LagAccounted'
  <2>1. CASE \E f \in Filters : Subscribe(s, f)
    BY <2>1, OtherLag DEF Subscribe, pubVars, hist
  <2>2. CASE NextEventClosed(s) \/ BeginReceive(s) \/ ReceiveEnd(s) \/ Cancel(s)
    BY <2>2, OtherLag DEF NextEventClosed, BeginReceive, ReceiveEnd, Cancel,
                          chanVars, pubVars, hist
  <2>3. CASE Receive(s)
    BY <2>3, OtherLag DEF Receive, pubVars
  <2>4. CASE Close(s) \/ Drop(s) \/ Detach(s)
    BY <2>4, OtherLag DEF Close, Drop, Detach, pubVars, hist
  <2> QED
    BY <1>3, <2>1, <2>2, <2>3, <2>4, ReportedLag DEF Consume
<1>4. CASE DropBus
  BY <1>4, OtherLag DEF DropBus, chanVars, pubVars, hist
<1>5. CASE UNCHANGED vars
  BY <1>5, OtherLag DEF vars, chanVars, pubVars, hist
<1> QED
  BY <1>1, <1>2, <1>3, <1>4, <1>5 DEF Next

\* At first nothing is dropped, counted or reported.
LEMMA InitLagAccounted == Init => LagAccounted
<1> SUFFICES ASSUME Init PROVE LagAccounted
  OBVIOUS
<1>1. \A s \in Subscriptions : Counting(s) = {}
  BY DEF Init, Counting
<1>2. \A s \in Subscriptions : /\ Cardinality(Counting(s)) = 0
                               /\ reported[s] = 0 /\ lagged[s] = 0 /\ dropped[s] = 0
  BY <1>1, FS_EmptySet DEF Init
<1> QED
  BY <1>2 DEF LagAccounted

\* No lag error ever claims an event that was not dropped, and none is missing
\* from what the errors, the counter and the increments under way claim unless
\* the errors and the counter claim MaxLag at least: publishers that increment
\* and a consumer that swaps never lose a miss between them, and an overflow
\* never hides one (memory.rs:98-105 and 184-193).
THEOREM LagAccountedAlways == Spec => []LagAccounted
BY InitLagAccounted, NextLagAccounted, TypeCorrect, PTL DEF Spec

(***************************************************************************)
(* Theorems about the table of subscriptions and about when a consumer is  *)
(* told of a lag, for any publishers, subscriptions, filters and bounds.   *)
(***************************************************************************)
-----------------------------------------------------------------------------
\* Where a consumer is tells what it has done to its receiver.
TaskKnowsReceiver ==
    \A s \in Subscriptions :
        /\ task[s] = "unborn" => ~rxClosed[s]
        /\ task[s] = "receiving" => ~closed[s]
        /\ task[s] = "closing" => closed[s]
        /\ rxClosed[s] /\ task[s] \in {"idle", "receiving"} => closed[s]

\* Publishers purge none but those whose receiver is closed for ever.
FoundAreClosed ==
    \A p \in Publishers : \A s \in found[p] : rxClosed[s]

\* The inductive invariant.  A purge may come at any time after the visit that
\* found the receiver closed, so it is right only because no receiver is ever
\* opened again; a publisher that remembered a subscription for any other
\* reason would take a live one out of the table.
TableInv ==
    /\ TypeOK
    /\ TaskKnowsReceiver
    /\ FoundAreClosed
    /\ RegistrationMatchesLife
    /\ EndOnlyWhenBusGone

LEMMA InitTableInv == Init => TableInv
BY InitTypeOK DEF Init, TableInv, TaskKnowsReceiver, FoundAreClosed,
                  RegistrationMatchesLife, EndOnlyWhenBusGone

\* A publisher that visits a subscription disturbs only what it has found.
LEMMA PublishTableInv ==
  ASSUME TableInv, NEW p \in Publishers,
         (\E e \in Events : BeginPublish(p, e)) \/ PublishStep(p)
  PROVE  TableInv'
<1>1. TypeOK'
  BY NextTypeOK DEF TableInv, Next
<1>2. ASSUME UNCHANGED <<alive, subscribers, rxClosed, found, subVars>>
      PROVE  TableInv'
  BY <1>1, <1>2 DEF TableInv, TaskKnowsReceiver, FoundAreClosed,
                    RegistrationMatchesLife, EndOnlyWhenBusGone, subVars
<1>3. ASSUME NEW e \in Events, BeginPublish(p, e)
      PROVE  TableInv'
  BY <1>2, <1>3 DEF BeginPublish, busVars, chanVars
<1>4. ASSUME NEW s \in Subscriptions, Skip(p, s) \/ Send(p, s) \/ Full(p, s)
      PROVE  TableInv'
  BY <1>2, <1>4 DEF Skip, Send, Full, busVars, chanVars
<1>5. ASSUME NEW s \in Subscriptions, FindClosed(p, s)
      PROVE  TableInv'
  <2>1. /\ rxClosed[s]
        /\ found' = [found EXCEPT ![p] = @ \cup {s}]
        /\ UNCHANGED <<alive, subscribers, rxClosed, subVars>>
    BY <1>5 DEF FindClosed, busVars, chanVars
  <2>2. FoundAreClosed'
    BY <2>1 DEF TableInv, TypeOK, FoundAreClosed
  <2> QED
    BY <1>1, <2>1, <2>2 DEF TableInv, TaskKnowsReceiver,
       RegistrationMatchesLife, EndOnlyWhenBusGone, subVars
<1>6. CASE CountMissed(p) \/ EndVisit(p)
  BY <1>2, <1>6 DEF CountMissed, EndVisit, busVars, chanVars
<1>7. CASE Purge(p)
  <2>1. /\ subscribers' = subscribers \ found[p]
        /\ found' = [found EXCEPT ![p] = {}]
        /\ UNCHANGED <<alive, rxClosed, subVars>>
    BY <1>7 DEF Purge, chanVars
  <2>2. FoundAreClosed'
    BY <2>1 DEF TableInv, TypeOK, FoundAreClosed
  <2>3. RegistrationMatchesLife'
    <3> SUFFICES ASSUME NEW s \in Subscriptions
                 PROVE  /\ alive /\ task[s] \in {"idle", "receiving"} /\ ~closed[s]
                              => s \in subscribers'
                        /\ s \in subscribers'
                              => alive /\ (rxClosed[s] => task[s] \in {"closing", "dropping"})
      BY <2>1 DEF RegistrationMatchesLife, subVars
    <3>1. s \in found[p] => rxClosed[s]
      BY DEF TableInv, FoundAreClosed
    <3> QED
      BY <2>1, <3>1 DEF TableInv, TaskKnowsReceiver, RegistrationMatchesLife
  <2> QED
    BY <1>1, <2>1, <2>2, <2>3 DEF TableInv, TaskKnowsReceiver,
       EndOnlyWhenBusGone, subVars
<1> QED
  BY <1>3, <1>4, <1>5, <1>6, <1>7 DEF PublishStep, Visit

\* A consumer changes only its own entry of the table, and recv answers None
\* only to one whose entry something else than itself has removed.
LEMMA ConsumeTableInv ==
  ASSUME TableInv, NEW s \in Subscriptions, Consume(s)
  PROVE  TableInv'
<1>1. TypeOK'
  BY NextTypeOK DEF TableInv, Next
<1> USE DEF TableInv, TypeOK
<1>2. ASSUME NEW f \in Filters, Subscribe(s, f)
      PROVE  TableInv'
  <2>1. /\ alive /\ task[s] = "unborn"
        /\ subscribers' = subscribers \cup {s}
        /\ task' = [task EXCEPT ![s] = "idle"]
        /\ UNCHANGED <<alive, rxClosed, closed, result, found>>
    BY <1>2 DEF Subscribe, pubVars
  <2>2. TaskKnowsReceiver' /\ FoundAreClosed'
    BY <2>1 DEF TaskKnowsReceiver, FoundAreClosed
  <2>3. RegistrationMatchesLife' /\ EndOnlyWhenBusGone'
    BY <2>1 DEF TaskKnowsReceiver, RegistrationMatchesLife, EndOnlyWhenBusGone
  <2> QED
    BY <1>1, <2>2, <2>3
<1>3. CASE NextEventClosed(s) \/ ReportLag(s) \/ BeginReceive(s) \/ Receive(s) \/ Cancel(s)
  <2>1. /\ \/ task' = task /\ closed' = closed
           \/ task[s] = "idle" /\ ~closed[s]
              /\ task' = [task EXCEPT ![s] = "receiving"] /\ closed' = closed
           \/ task[s] = "receiving"
              /\ task' = [task EXCEPT ![s] = "idle"] /\ closed' = closed
        /\ UNCHANGED <<alive, subscribers, rxClosed, found>>
    BY <1>3 DEF NextEventClosed, ReportLag, BeginReceive, Receive, Cancel,
                busVars, chanVars, pubVars
  <2>2. /\ TaskKnowsReceiver'
        /\ FoundAreClosed'
        /\ RegistrationMatchesLife'
    <3>1. CASE task' = task /\ closed' = closed
      BY <2>1, <3>1 DEF TaskKnowsReceiver, FoundAreClosed,
                        RegistrationMatchesLife
    <3>2. CASE /\ ~closed[s] /\ closed' = closed
               /\ \E x \in {"idle", "receiving"} :
                     /\ task[s] \in {"idle", "receiving"}
                     /\ task' = [task EXCEPT ![s] = x]
      <4>1. TaskKnowsReceiver'
        BY <2>1, <3>2 DEF TaskKnowsReceiver
      <4>2. FoundAreClosed'
        BY <2>1 DEF FoundAreClosed
      <4>3. RegistrationMatchesLife'
        BY <2>1, <3>2 DEF RegistrationMatchesLife
      <4> QED
        BY <4>1, <4>2, <4>3
    <3> QED
      BY <2>1, <3>1, <3>2 DEF TaskKnowsReceiver
  <2>3. \/ result' = result
        \/ \E x \in Answers \ {"end"} : result' = [result EXCEPT ![s] = x]
    BY <1>3 DEF NextEventClosed, ReportLag, BeginReceive, Receive, Cancel,
                Answers
  <2>4. EndOnlyWhenBusGone'
    BY <2>1, <2>3 DEF EndOnlyWhenBusGone
  <2> QED
    BY <1>1, <2>2, <2>4
<1>4. CASE ReceiveEnd(s)
  <2>1. /\ task[s] = "receiving" /\ s \notin subscribers
        /\ task' = [task EXCEPT ![s] = "idle"]
        /\ result' = [result EXCEPT ![s] = "end"]
        /\ UNCHANGED <<alive, subscribers, rxClosed, closed, found>>
    BY <1>4 DEF ReceiveEnd, busVars, chanVars, pubVars
  <2>2. ~alive
    BY <2>1 DEF TaskKnowsReceiver, RegistrationMatchesLife
  <2>3. TaskKnowsReceiver' /\ FoundAreClosed'
    BY <2>1 DEF TaskKnowsReceiver, FoundAreClosed
  <2>4. RegistrationMatchesLife' /\ EndOnlyWhenBusGone'
    BY <2>1, <2>2 DEF RegistrationMatchesLife, EndOnlyWhenBusGone
  <2> QED
    BY <1>1, <2>3, <2>4
<1>5. CASE Close(s)
  <2>1. /\ task[s] = "idle"
        /\ closed' = [closed EXCEPT ![s] = TRUE]
        /\ rxClosed' = [rxClosed EXCEPT ![s] = TRUE]
        /\ task' = [task EXCEPT ![s] = "closing"]
        /\ UNCHANGED <<alive, subscribers, result, found>>
    BY <1>5 DEF Close, MarkClosed, busVars, pubVars
  <2>2. TaskKnowsReceiver' /\ FoundAreClosed'
    BY <2>1 DEF TaskKnowsReceiver, FoundAreClosed
  <2>3. RegistrationMatchesLife' /\ EndOnlyWhenBusGone'
    BY <2>1 DEF RegistrationMatchesLife, EndOnlyWhenBusGone
  <2> QED
    BY <1>1, <2>2, <2>3
<1>6. CASE Drop(s)
  <2>1. /\ task[s] = "idle"
        /\ rxClosed' = [rxClosed EXCEPT ![s] = TRUE]
        /\ task' = [task EXCEPT ![s] = "dropping"]
        /\ UNCHANGED <<alive, subscribers, closed, result, found>>
    BY <1>6 DEF Drop, busVars, pubVars
  <2>2. TaskKnowsReceiver' /\ FoundAreClosed'
    BY <2>1 DEF TaskKnowsReceiver, FoundAreClosed
  <2>3. RegistrationMatchesLife' /\ EndOnlyWhenBusGone'
    BY <2>1 DEF RegistrationMatchesLife, EndOnlyWhenBusGone
  <2> QED
    BY <1>1, <2>2, <2>3
<1>7. CASE Detach(s)
  <2>1. /\ task[s] \in {"closing", "dropping"}
        /\ subscribers' = subscribers \ {s}
        /\ task' = [task EXCEPT ![s] = IF @ = "closing" THEN "idle" ELSE "dropped"]
        /\ UNCHANGED <<alive, rxClosed, closed, result, found>>
    BY <1>7 DEF Detach, Leave, pubVars
  <2>2. TaskKnowsReceiver' /\ FoundAreClosed'
    BY <2>1 DEF TaskKnowsReceiver, FoundAreClosed
  <2>3. RegistrationMatchesLife' /\ EndOnlyWhenBusGone'
    BY <2>1 DEF TaskKnowsReceiver, RegistrationMatchesLife, EndOnlyWhenBusGone
  <2> QED
    BY <1>1, <2>2, <2>3
<1> QED
  BY <1>2, <1>3, <1>4, <1>5, <1>6, <1>7 DEF Consume

LEMMA NextTableInv == TableInv /\ [Next]_vars => TableInv'
<1> SUFFICES ASSUME TableInv, [Next]_vars PROVE TableInv'
  OBVIOUS
<1>1. TypeOK'
  BY NextTypeOK DEF TableInv
<1>2. CASE DropBus
  BY <1>1, <1>2 DEF DropBus, TableInv, TaskKnowsReceiver, FoundAreClosed,
     RegistrationMatchesLife, EndOnlyWhenBusGone, chanVars, subVars, pubVars
<1>3. CASE UNCHANGED vars
  BY <1>1, <1>3 DEF vars, busVars, chanVars, subVars, pubVars, TableInv,
     TaskKnowsReceiver, FoundAreClosed, RegistrationMatchesLife,
     EndOnlyWhenBusGone
<1> QED
  BY <1>2, <1>3, PublishTableInv, ConsumeTableInv DEF Next

\* The table of a live bus holds exactly the subscriptions that can still
\* receive and, for a while, those that are on their way out, whatever
\* publishers purge at the same time (memory.rs:87-221).
THEOREM RegistrationAlwaysMatches == Spec => []RegistrationMatchesLife
<1>1. Init => TableInv
  BY InitTableInv
<1>2. TableInv /\ [Next]_vars => TableInv'
  BY NextTableInv
<1>3. TableInv => RegistrationMatchesLife
  BY DEF TableInv
<1> QED
  BY <1>1, <1>2, <1>3, PTL DEF Spec

\* No subscription ends before the bus does (subscription.rs:57).
THEOREM EndAlwaysMeansBusGone == Spec => []EndOnlyWhenBusGone
<1>1. Init => TableInv
  BY InitTableInv
<1>2. TableInv /\ [Next]_vars => TableInv'
  BY NextTableInv
<1>3. TableInv => EndOnlyWhenBusGone
  BY DEF TableInv
<1> QED
  BY <1>1, <1>2, <1>3, PTL DEF Spec

-----------------------------------------------------------------------------
\* A consumer that still has a miss to be told of after a delivery is told by
\* its next call, for nothing but receive_after_lag could keep it from that,
\* and a consumer comes to recv with this flag down and nothing overdue.
LagTurns ==
    \A s \in Subscriptions :
        /\ overdue[s] \in {0, 1}
        /\ overdue[s] = 1 => lagged[s] > 0 /\ ~receiveAfterLag[s]
        /\ task[s] = "receiving" => overdue[s] = 0 /\ ~receiveAfterLag[s]
        /\ result[s] = "lagged" => receiveAfterLag[s] \/ task[s] = "receiving"

LagInv == TypeOK /\ LagTurns

\* What leaves these variables alone leaves the turns alone.
LEMMA OtherTurns ==
  ASSUME LagTurns,
         UNCHANGED <<overdue, lagged, receiveAfterLag, task, result>>
  PROVE  LagTurns'
BY DEF LagTurns

LEMMA PublishTurns ==
  ASSUME LagInv, NEW p \in Publishers,
         (\E e \in Events : BeginPublish(p, e)) \/ PublishStep(p)
  PROVE  LagTurns'
<1> USE DEF LagInv
<1>1. CASE CountMissed(p)
  <2> PICK s \in Subscriptions : s = at[p]
    BY <1>1 DEF CountMissed, TypeOK
  <2>1. /\ lagged' = [lagged EXCEPT ![s] = SaturatingIncrement(@)]
        /\ UNCHANGED <<overdue, receiveAfterLag, task, result>>
    BY <1>1 DEF CountMissed, subVars, hist
  <2>2. \A r \in Subscriptions : lagged[r] > 0 => lagged'[r] > 0
    BY <2>1 DEF SaturatingIncrement, TypeOK
  <2> QED
    BY <2>1, <2>2 DEF LagTurns
<1>2. ASSUME NEW e \in Events, BeginPublish(p, e)
      PROVE  LagTurns'
  BY <1>2, OtherTurns DEF BeginPublish, chanVars, subVars
<1>3. ASSUME NEW s \in Subscriptions, Visit(p, s)
      PROVE  LagTurns'
  BY <1>3, OtherTurns DEF Visit, Skip, Send, Full, FindClosed, chanVars,
                          subVars, hist
<1>4. CASE EndVisit(p) \/ Purge(p)
  BY <1>4, OtherTurns DEF EndVisit, Purge, chanVars, subVars, hist
<1> QED
  BY <1>1, <1>2, <1>3, <1>4 DEF PublishStep

LEMMA ConsumeTurns ==
  ASSUME LagInv, NEW s \in Subscriptions, Consume(s)
  PROVE  LagTurns'
<1> USE DEF LagInv, TypeOK
<1>1. ASSUME NEW f \in Filters, Subscribe(s, f)
      PROVE  LagTurns'
  <2>1. /\ task[s] = "unborn" /\ task' = [task EXCEPT ![s] = "idle"]
        /\ UNCHANGED <<overdue, lagged, receiveAfterLag, result>>
    BY <1>1 DEF Subscribe, hist
  <2> QED
    BY <2>1 DEF LagTurns
<1>2. CASE NextEventClosed(s)
  <2>1. /\ result' = [result EXCEPT ![s] = "closed"]
        /\ UNCHANGED <<overdue, lagged, receiveAfterLag, task>>
    BY <1>2 DEF NextEventClosed, chanVars, hist
  <2> QED
    BY <2>1 DEF LagTurns, Answers
<1>3. CASE ReportLag(s)
  <2>1. /\ overdue' = [overdue EXCEPT ![s] = 0]
        /\ lagged' = [lagged EXCEPT ![s] = 0]
        /\ receiveAfterLag' = [receiveAfterLag EXCEPT ![s] = TRUE]
        /\ result' = [result EXCEPT ![s] = "lagged"]
        /\ task[s] = "idle" /\ task' = task
    BY <1>3 DEF ReportLag, Swap
  <2> QED
    BY <2>1 DEF LagTurns
<1>4. CASE BeginReceive(s)
  <2>1. /\ receiveAfterLag[s] \/ ~(lagged[s] > 0)
        /\ receiveAfterLag' = [receiveAfterLag EXCEPT ![s] = FALSE]
        /\ task' = [task EXCEPT ![s] = "receiving"]
        /\ UNCHANGED <<overdue, lagged, result>>
    BY <1>4 DEF BeginReceive, MustReport, Rearm, chanVars, hist
  <2>2. overdue[s] = 0
    BY <2>1 DEF LagTurns
  <2> QED
    BY <2>1, <2>2 DEF LagTurns
<1>5. CASE Receive(s)
  <2>1. /\ task[s] = "receiving"
        /\ overdue' = [overdue EXCEPT ![s] = IF lagged[s] > 0 THEN @ + 1 ELSE 0]
        /\ task' = [task EXCEPT ![s] = "idle"]
        /\ result' = [result EXCEPT ![s] = "event"]
        /\ UNCHANGED <<lagged, receiveAfterLag>>
    BY <1>5 DEF Receive
  <2>2. overdue[s] = 0 /\ ~receiveAfterLag[s]
    BY <2>1 DEF LagTurns
  <2> QED
    BY <2>1, <2>2 DEF LagTurns
<1>6. CASE ReceiveEnd(s) \/ Cancel(s)
  <2>1. /\ task' = [task EXCEPT ![s] = "idle"]
        /\ \E x \in {"end", "cancelled"} : result' = [result EXCEPT ![s] = x]
        /\ UNCHANGED <<overdue, lagged, receiveAfterLag>>
    BY <1>6 DEF ReceiveEnd, Cancel, chanVars, hist
  <2> QED
    BY <2>1 DEF LagTurns
<1>7. CASE Close(s) \/ Drop(s) \/ Detach(s)
  <2>1. /\ task[s] # "receiving"
        /\ \E x \in {"closing", "dropping", "idle", "dropped"} :
              task' = [task EXCEPT ![s] = x]
        /\ UNCHANGED <<overdue, lagged, receiveAfterLag, result>>
    BY <1>7 DEF Close, Drop, Detach, hist
  <2> QED
    BY <2>1 DEF LagTurns
<1> QED
  BY <1>1, <1>2, <1>3, <1>4, <1>5, <1>6, <1>7 DEF Consume

LEMMA NextLagInv == LagInv /\ [Next]_vars => LagInv'
<1> SUFFICES ASSUME LagInv, [Next]_vars PROVE LagTurns'
  BY NextTypeOK DEF LagInv
<1>1. CASE DropBus
  BY <1>1, OtherTurns DEF LagInv, DropBus, chanVars, subVars, hist
<1>2. CASE UNCHANGED vars
  BY <1>2, OtherTurns DEF LagInv, vars, chanVars, subVars, hist
<1> QED
  BY <1>1, <1>2, PublishTurns, ConsumeTurns DEF Next

\* Once a miss is counted the consumer gets at most one more event before it
\* is told, however the publishers' increments fall (memory.rs:184-196).
THEOREM LagAlwaysReportedSoon == Spec => []LagReportedSoon
<1>1. Init => LagInv
  BY InitTypeOK DEF Init, LagInv, LagTurns
<1>2. LagInv /\ [Next]_vars => LagInv'
  BY NextLagInv
<1>3. LagInv => LagReportedSoon
  BY DEF LagInv, LagTurns, LagReportedSoon
<1> QED
  BY <1>1, <1>2, <1>3, PTL DEF Spec

\* Only the swap reports, and only to a consumer whose flag is down.
LEMMA ReportsApart ==
  ASSUME LagInv, [Next]_vars,
         NEW s \in Subscriptions, result[s] = "lagged", result'[s] = "lagged"
  PROVE  reported'[s] = reported[s]
<1>1. ASSUME NEW r \in Subscriptions, ReportLag(r)
      PROVE  reported'[s] = reported[s]
  <2>1. /\ task[r] = "idle" /\ ~receiveAfterLag[r]
        /\ reported' = [reported EXCEPT ![r] = @ + lagged[r]]
    BY <1>1 DEF ReportLag, MustReport
  <2>2. r # s
    BY <2>1 DEF LagInv, LagTurns
  <2> QED
    BY <2>1, <2>2 DEF LagInv, TypeOK
<1>2. ASSUME ~\E r \in Subscriptions : ReportLag(r)
      PROVE  reported' = reported
  <2>1. CASE DropBus \/ UNCHANGED vars
    BY <2>1 DEF DropBus, vars, hist
  <2>2. ASSUME NEW p \in Publishers,
               (\E e \in Events : BeginPublish(p, e)) \/ PublishStep(p)
        PROVE  reported' = reported
    BY <2>2 DEF BeginPublish, PublishStep, Visit, Skip, Send, Full,
                FindClosed, CountMissed, EndVisit, Purge, hist
  <2>3. ASSUME NEW r \in Subscriptions, Consume(r)
        PROVE  reported' = reported
    BY <1>2, <2>3 DEF Consume, Subscribe, NextEventClosed, BeginReceive,
       Receive, ReceiveEnd, Cancel, Close, Drop, Detach, hist
  <2> QED
    BY <2>1, <2>2, <2>3 DEF Next
<1> QED
  BY <1>1, <1>2

\* A consumer told of a lag is not told of another one by its next call: a
\* queue that always overflows cannot keep it from the events it holds
\* (memory.rs:184-193).
THEOREM NoLagStormEver == Spec => NoLagStorm
<1>1. Init => LagInv
  BY InitTypeOK DEF Init, LagInv, LagTurns
<1>2. LagInv /\ [Next]_vars => LagInv'
  BY NextLagInv
<1>3. LagInv /\ [Next]_vars =>
        [\A s \in Subscriptions :
            result[s] = "lagged" /\ result'[s] = "lagged"
                => reported'[s] = reported[s]]_vars
  BY ReportsApart
<1> QED
  BY <1>1, <1>2, <1>3, PTL DEF Spec, NoLagStorm

(***************************************************************************)
(* Theorems about the events a subscription gets: none is unaccounted for, *)
(* and each publisher's arrive in its order; for any publishers,           *)
(* subscriptions, filters and bounds.                                      *)
(***************************************************************************)
-----------------------------------------------------------------------------
\* Who is not iterating over the table has nobody left to visit, and who is
\* being dropped has closed its receiver.
VisitsUnderLock ==
    /\ \A p \in Publishers : pc[p] # "offering" => todo[p] = {}
    /\ \A s \in Subscriptions : task[s] = "dropping" => rxClosed[s]

AccountInv == TypeOK /\ VisitsUnderLock /\ EventsAccounted

\* The publishers still to offer an event are finitely many.
LEMMA OfferingFinite ==
  ASSUME NEW s \in Subscriptions
  PROVE  IsFiniteSet(Offering(s)) /\ Cardinality(Offering(s)) \in Nat
<1>1. Offering(s) \subseteq Publishers
  BY DEF Offering
<1> QED
  BY <1>1, FS_Subset, FS_CardinalityType

\* What leaves the fates of events alone keeps the account.
LEMMA OtherAccount ==
  ASSUME EventsAccounted,
         \A s \in Subscriptions : rxClosed[s] => rxClosed'[s],
         UNCHANGED <<owed, delivered, queue, dropped>>,
         \A s \in Subscriptions : ~rxClosed'[s] => Offering(s)' = Offering(s)
  PROVE  EventsAccounted'
BY DEF EventsAccounted

\* The publisher that leaves its visit to s behind is one fewer to offer.
LEMMA LeaveOffer ==
  ASSUME TypeOK, NEW p \in Publishers, NEW s \in Subscriptions,
         s \in todo[p],
         todo' = VisitNext(p, s), UNCHANGED <<event, filter>>
  PROVE  /\ \A r \in Subscriptions : r # s => Offering(r)' = Offering(r)
         /\ ~Matches(filter[s], event[p]) => Offering(s)' = Offering(s)
         /\ Matches(filter[s], event[p]) =>
               Cardinality(Offering(s)') = Cardinality(Offering(s)) - 1
<1>1. todo' = [todo EXCEPT ![p] = @ \ {s}]
  BY DEF VisitNext
<1>2. \A r \in Subscriptions : r # s => Offering(r)' = Offering(r)
  BY <1>1 DEF Offering, TypeOK
<1>3. Offering(s)' = Offering(s) \ {p}
  BY <1>1 DEF Offering, TypeOK
<1>4. ASSUME ~Matches(filter[s], event[p]) PROVE Offering(s)' = Offering(s)
  BY <1>3, <1>4 DEF Offering
<1>5. ASSUME Matches(filter[s], event[p])
      PROVE  Cardinality(Offering(s)') = Cardinality(Offering(s)) - 1
  <2>1. p \in Offering(s)
    BY <1>5 DEF Offering
  <2> QED
    BY <1>3, <2>1, OfferingFinite, FS_RemoveElement
<1> QED
  BY <1>2, <1>4, <1>5

\* A publish begins by owing its event to the matching subscriptions, each of
\* which gains one publisher that will offer it.
LEMMA BeginAccount ==
  ASSUME AccountInv, NEW p \in Publishers, NEW e \in Events, BeginPublish(p, e)
  PROVE  EventsAccounted'
<1>1. /\ pc[p] = "idle"
      /\ event' = [event EXCEPT ![p] = e]
      /\ todo' = [todo EXCEPT ![p] = subscribers]
      /\ owed' = [s \in Subscriptions |->
                     IF s \in subscribers /\ Matches(filter[s], e)
                     THEN owed[s] + 1 ELSE owed[s]]
      /\ UNCHANGED <<filter, queue, rxClosed, dropped, delivered>>
  BY DEF BeginPublish, chanVars
<1>2. todo[p] = {}
  BY <1>1 DEF AccountInv, VisitsUnderLock
<1> SUFFICES ASSUME NEW s \in Subscriptions, ~rxClosed[s]
             PROVE  owed'[s] = Len(delivered[s]) + Len(queue[s]) + dropped[s]
                               + Cardinality(Offering(s)')
  BY <1>1 DEF EventsAccounted
<1>3. /\ owed[s] = Len(delivered[s]) + Len(queue[s]) + dropped[s]
                   + Cardinality(Offering(s))
      /\ owed[s] \in Nat
      /\ Len(delivered[s]) \in Nat /\ Len(queue[s]) \in Nat
      /\ dropped[s] \in Nat
      /\ Cardinality(Offering(s)) \in Nat
  <2>1. delivered[s] \in Seq(Items) /\ queue[s] \in Seq(Items)
    BY DEF AccountInv, TypeOK
  <2>2. Len(delivered[s]) \in Nat /\ Len(queue[s]) \in Nat
    BY <2>1, LenProperties
  <2>3. owed[s] \in Nat /\ dropped[s] \in Nat
    BY DEF AccountInv, TypeOK
  <2> QED
    BY <2>2, <2>3, OfferingFinite DEF AccountInv, EventsAccounted
<1>6. /\ event'[p] = e /\ todo'[p] = subscribers
      /\ \A o \in Publishers : o # p => event'[o] = event[o] /\ todo'[o] = todo[o]
  BY <1>1 DEF AccountInv, TypeOK
<1>4. CASE s \in subscribers /\ Matches(filter[s], e)
  <2>1. /\ Offering(s)' = Offering(s) \cup {p}
        /\ p \notin Offering(s)
    BY <1>1, <1>2, <1>4, <1>6 DEF Offering
  <2>2. Cardinality(Offering(s)') = Cardinality(Offering(s)) + 1
    BY <2>1, OfferingFinite, FS_AddElement
  <2>3. owed'[s] = owed[s] + 1
    BY <1>1, <1>4
  <2> DEFINE d == Len(delivered[s])
             q == Len(queue[s])
             c == Cardinality(Offering(s))
             c1 == Cardinality(Offering(s)')
  <2>4. /\ owed[s] = d + q + dropped[s] + c /\ c1 = c + 1
        /\ owed[s] \in Nat /\ d \in Nat /\ q \in Nat
        /\ dropped[s] \in Nat /\ c \in Nat
    BY <1>3, <2>2
  <2> HIDE DEF d, q, c, c1
  <2>5. owed[s] + 1 = d + q + dropped[s] + c1
    BY <2>4
  <2> QED
    BY <2>3, <2>5 DEF d, q, c1
<1>5. CASE ~(s \in subscribers /\ Matches(filter[s], e))
  <2>1. Offering(s)' = Offering(s)
    BY <1>1, <1>2, <1>5, <1>6 DEF Offering
  <2> QED
    BY <1>1, <1>3, <1>5, <2>1
<1> QED
  BY <1>4, <1>5

\* An offer that is not refused for a closed receiver ends as a queued event
\* or as a dropped one.
LEMMA OfferAccount ==
  ASSUME AccountInv, NEW p \in Publishers, NEW s \in Subscriptions,
         Send(p, s) \/ Full(p, s)
  PROVE  EventsAccounted'
<1>1. /\ s \in todo[p] /\ Matches(filter[s], event[p])
      /\ todo' = VisitNext(p, s)
      /\ UNCHANGED <<filter, event, rxClosed, owed, delivered>>
  BY DEF Send, Full, Visiting, chanVars, hist
<1>2. /\ \A r \in Subscriptions : r # s => Offering(r)' = Offering(r)
      /\ Cardinality(Offering(s)') = Cardinality(Offering(s)) - 1
  BY <1>1, LeaveOffer DEF AccountInv
<1>3. /\ \A r \in Subscriptions : r # s =>
            Len(queue'[r]) = Len(queue[r]) /\ dropped'[r] = dropped[r]
      /\ Len(queue'[s]) + dropped'[s] = Len(queue[s]) + dropped[s] + 1
  <2>1. CASE Send(p, s)
    <3> DEFINE item == [by |-> p, num |-> published[p],
                        event |-> event[p], gap |-> dropped[s]]
    <3>1. item \in Items
      BY <2>1 DEF Send, Visiting, Items, AccountInv, TypeOK
    <3>2. /\ queue' = [queue EXCEPT ![s] = Append(@, item)]
          /\ dropped' = dropped
      BY <2>1 DEF Send, hist
    <3> HIDE DEF item
    <3>3. /\ queue[s] \in Seq(Items) /\ dropped[s] \in Nat
          /\ queue \in [Subscriptions -> Seq(Items)]
      BY DEF AccountInv, TypeOK
    <3>4. Len(Append(queue[s], item)) = Len(queue[s]) + 1 /\ Len(queue[s]) \in Nat
      BY <3>1, <3>3, AppendProperties, LenProperties
    <3>5. /\ queue'[s] = Append(queue[s], item)
          /\ \A r \in Subscriptions : r # s => queue'[r] = queue[r]
      BY <3>2, <3>3
    <3>6. Len(queue'[s]) = Len(queue[s]) + 1 /\ dropped'[s] = dropped[s]
      BY <3>2, <3>4, <3>5
    <3>7. Len(queue'[s]) + dropped'[s] = Len(queue[s]) + dropped[s] + 1
      <4> DEFINE q == Len(queue[s])
      <4>1. q \in Nat /\ dropped[s] \in Nat
        BY <3>3, <3>4
      <4> HIDE DEF q
      <4>2. (q + 1) + dropped[s] = q + dropped[s] + 1
        BY <4>1
      <4> QED
        BY <3>6, <4>2 DEF q
    <3> QED
      BY <3>2, <3>5, <3>7
  <2>2. CASE Full(p, s)
    <3>1. /\ dropped' = [dropped EXCEPT ![s] = @ + 1] /\ queue' = queue
      BY <2>2 DEF Full, chanVars
    <3>2. queue[s] \in Seq(Items) /\ dropped \in [Subscriptions -> Nat]
      BY DEF AccountInv, TypeOK
    <3>3. Len(queue[s]) \in Nat
      BY <3>2, LenProperties
    <3> QED
      BY <3>1, <3>2, <3>3
  <2> QED
    BY <2>1, <2>2
<1> SUFFICES ASSUME NEW r \in Subscriptions, ~rxClosed[r]
             PROVE  owed[r] = Len(delivered[r]) + Len(queue'[r]) + dropped'[r]
                              + Cardinality(Offering(r)')
  BY <1>1 DEF EventsAccounted
<1>4. owed[r] = Len(delivered[r]) + Len(queue[r]) + dropped[r]
                + Cardinality(Offering(r))
  BY DEF AccountInv, EventsAccounted
<1>5. /\ Len(delivered[r]) \in Nat /\ Len(queue[r]) \in Nat
      /\ dropped[r] \in Nat /\ Cardinality(Offering(r)) \in Nat
      /\ Len(queue'[r]) \in Nat /\ dropped'[r] \in Nat
  <2>1. /\ delivered[r] \in Seq(Items) /\ queue[r] \in Seq(Items)
        /\ queue'[r] \in Seq(Items)
        /\ dropped[r] \in Nat /\ dropped'[r] \in Nat
    <3>1. TypeOK'
      BY NextTypeOK DEF AccountInv, Next, PublishStep, Visit
    <3> QED
      BY <3>1 DEF AccountInv, TypeOK
  <2> QED
    BY <2>1, LenProperties, OfferingFinite
<1>6. CASE r = s
  <2>1. /\ Len(queue'[r]) + dropped'[r] = Len(queue[r]) + dropped[r] + 1
        /\ Cardinality(Offering(r)') = Cardinality(Offering(r)) - 1
    BY <1>2, <1>3, <1>6
  <2> DEFINE d == Len(delivered[r])
             q == Len(queue[r])
             q1 == Len(queue'[r])
             c == Cardinality(Offering(r))
             c1 == Cardinality(Offering(r)')
  <2>2. /\ owed[r] = d + q + dropped[r] + c
        /\ q1 + dropped'[r] = q + dropped[r] + 1 /\ c1 = c - 1
        /\ d \in Nat /\ q \in Nat /\ dropped[r] \in Nat /\ c \in Nat
        /\ q1 \in Nat /\ dropped'[r] \in Nat
    BY <1>4, <1>5, <2>1
  <2> HIDE DEF d, q, q1, c, c1
  <2>3. owed[r] = d + q1 + dropped'[r] + c1
    BY <2>2
  <2> QED
    BY <2>3 DEF d, q1, c1
<1>7. CASE r # s
  BY <1>2, <1>3, <1>4, <1>7
<1> QED
  BY <1>6, <1>7

\* What recv answers is taken from the queue.
LEMMA ReceiveAccount ==
  ASSUME AccountInv, NEW s \in Subscriptions, Receive(s)
  PROVE  EventsAccounted'
<1>1. /\ queue[s] # <<>>
      /\ queue' = [queue EXCEPT ![s] = Tail(@)]
      /\ delivered' = [delivered EXCEPT ![s] = Append(@, Head(queue[s]))]
      /\ UNCHANGED <<filter, rxClosed, event, todo, owed, dropped>>
  BY DEF Receive, pubVars
<1>2. /\ delivered \in [Subscriptions -> Seq(Items)]
      /\ queue \in [Subscriptions -> Seq(Items)]
  BY DEF AccountInv, TypeOK
<1>3. /\ Head(queue[s]) \in Items
      /\ Len(Tail(queue[s])) = Len(queue[s]) - 1
      /\ Len(Append(delivered[s], Head(queue[s]))) = Len(delivered[s]) + 1
      /\ Len(delivered[s]) \in Nat /\ Len(queue[s]) \in Nat
  BY <1>1, <1>2, HeadTailProperties
<1>6. /\ queue'[s] = Tail(queue[s])
      /\ delivered'[s] = Append(delivered[s], Head(queue[s]))
      /\ \A r \in Subscriptions : r # s =>
            queue'[r] = queue[r] /\ delivered'[r] = delivered[r]
  BY <1>1, <1>2
<1>4. \A r \in Subscriptions :
         Len(delivered'[r]) + Len(queue'[r]) = Len(delivered[r]) + Len(queue[r])
  <2>1. /\ Len(queue'[s]) = Len(queue[s]) - 1
        /\ Len(delivered'[s]) = Len(delivered[s]) + 1
    BY <1>3, <1>6
  <2>2. Len(delivered'[s]) + Len(queue'[s]) = Len(delivered[s]) + Len(queue[s])
    <3> DEFINE d == Len(delivered[s])
               q == Len(queue[s])
    <3>1. d \in Nat /\ q \in Nat
      BY <1>3
    <3> HIDE DEF d, q
    <3>2. (d + 1) + (q - 1) = d + q
      BY <3>1
    <3> QED
      BY <2>1, <3>2 DEF d, q
  <2> QED
    BY <1>6, <2>2
<1>5. \A r \in Subscriptions : Offering(r)' = Offering(r)
  BY <1>1 DEF Offering
<1> QED
  BY <1>1, <1>4, <1>5 DEF AccountInv, EventsAccounted

LEMMA NextVisits == TypeOK /\ VisitsUnderLock /\ [Next]_vars => VisitsUnderLock'
<1> SUFFICES ASSUME TypeOK, VisitsUnderLock, [Next]_vars
             PROVE  VisitsUnderLock'
  OBVIOUS
<1> USE DEF VisitsUnderLock, TypeOK
<1>1. ASSUME NEW p \in Publishers, NEW e \in Events, BeginPublish(p, e)
      PROVE  VisitsUnderLock'
  BY <1>1 DEF BeginPublish, chanVars, subVars
<1>2. ASSUME NEW p \in Publishers, NEW s \in Subscriptions, Visit(p, s)
      PROVE  VisitsUnderLock'
  BY <1>2 DEF Visit, Skip, Send, Full, FindClosed, Visiting, VisitNext,
              chanVars, subVars
<1>3. ASSUME NEW p \in Publishers, CountMissed(p) \/ EndVisit(p) \/ Purge(p)
      PROVE  VisitsUnderLock'
  BY <1>3 DEF CountMissed, EndVisit, Purge, chanVars, subVars
<1>4. ASSUME NEW s \in Subscriptions, Consume(s)
      PROVE  VisitsUnderLock'
  <2>1. /\ task \in [Subscriptions -> Tasks]
        /\ rxClosed \in [Subscriptions -> BOOLEAN]
    BY DEF Tasks
  <2> HIDE DEF TypeOK
  <2>2. ASSUME UNCHANGED <<pc, todo>>,
               \/ task' = [task EXCEPT ![s] = "idle"]
               \/ task' = [task EXCEPT ![s] = "receiving"]
               \/ task' = task,
               rxClosed' = rxClosed
        PROVE  VisitsUnderLock'
    BY <2>1, <2>2
  <2>3. CASE Close(s) \/ Drop(s)
    BY <2>1, <2>3 DEF Close, Drop, pubVars
  <2>4. CASE Detach(s)
    BY <2>1, <2>4 DEF Detach, pubVars
  <2>5. CASE Receive(s) \/ ReportLag(s)
    BY <2>2, <2>5 DEF Receive, ReportLag, pubVars
  <2>6. CASE ReceiveEnd(s) \/ Cancel(s)
    BY <2>2, <2>6 DEF ReceiveEnd, Cancel, chanVars, pubVars
  <2>7. CASE BeginReceive(s) \/ NextEventClosed(s)
    BY <2>2, <2>7 DEF BeginReceive, NextEventClosed, chanVars, pubVars
  <2>8. CASE \E f \in Filters : Subscribe(s, f)
    BY <2>2, <2>8 DEF Subscribe, pubVars
  <2> QED
    BY <1>4, <2>3, <2>4, <2>5, <2>6, <2>7, <2>8 DEF Consume
<1>5. CASE DropBus \/ UNCHANGED vars
  BY <1>5 DEF DropBus, vars, chanVars, subVars, pubVars
<1> QED
  BY <1>1, <1>2, <1>3, <1>4, <1>5 DEF Next, PublishStep

LEMMA NextAccount == AccountInv /\ [Next]_vars => EventsAccounted'
<1> SUFFICES ASSUME AccountInv, [Next]_vars PROVE EventsAccounted'
  OBVIOUS
<1>1. ASSUME UNCHANGED <<filter, queue, rxClosed, event, todo, owed, dropped,
                         delivered>>
      PROVE  EventsAccounted'
  BY <1>1, OtherAccount DEF AccountInv, Offering
<1>2. ASSUME NEW p \in Publishers, NEW s \in Subscriptions,
             Skip(p, s) \/ FindClosed(p, s)
      PROVE  EventsAccounted'
  <2>1. /\ s \in todo[p] /\ todo' = VisitNext(p, s)
        /\ rxClosed[s] \/ ~Matches(filter[s], event[p])
        /\ UNCHANGED <<filter, queue, rxClosed, event, owed, dropped, delivered>>
    BY <1>2 DEF Skip, FindClosed, Visiting, chanVars, hist
  <2>2. \A r \in Subscriptions : ~rxClosed'[r] => Offering(r)' = Offering(r)
    BY <2>1, LeaveOffer DEF AccountInv
  <2> QED
    BY <2>1, <2>2, OtherAccount DEF AccountInv
<1>3. ASSUME NEW p \in Publishers, CountMissed(p) \/ EndVisit(p) \/ Purge(p)
      PROVE  EventsAccounted'
  BY <1>1, <1>3 DEF CountMissed, EndVisit, Purge, chanVars, hist
<1>4. ASSUME NEW s \in Subscriptions, NEW f \in Filters, Subscribe(s, f)
      PROVE  EventsAccounted'
  <2>1. /\ NoReader
        /\ filter' = [filter EXCEPT ![s] = f]
        /\ UNCHANGED <<queue, rxClosed, event, todo, owed, dropped, delivered>>
    BY <1>4 DEF Subscribe, pubVars, hist
  <2>2. \A p \in Publishers : todo[p] = {}
    BY <2>1 DEF NoReader, AccountInv, VisitsUnderLock
  <2>3. \A r \in Subscriptions : Offering(r)' = Offering(r)
    BY <2>1, <2>2 DEF Offering
  <2> QED
    BY <2>1, <2>3, OtherAccount DEF AccountInv
<1>5. ASSUME NEW s \in Subscriptions,
             \/ NextEventClosed(s) \/ ReportLag(s) \/ BeginReceive(s)
             \/ ReceiveEnd(s) \/ Cancel(s)
      PROVE  EventsAccounted'
  BY <1>1, <1>5 DEF NextEventClosed, ReportLag, BeginReceive, ReceiveEnd,
     Cancel, chanVars, pubVars, hist
<1>6. ASSUME NEW s \in Subscriptions, Close(s) \/ Drop(s)
      PROVE  EventsAccounted'
  <2>1. /\ rxClosed' = [rxClosed EXCEPT ![s] = TRUE]
        /\ UNCHANGED <<filter, queue, event, todo, owed, dropped, delivered>>
    BY <1>6 DEF Close, Drop, pubVars, hist
  <2> QED
    BY <2>1, OtherAccount DEF AccountInv, TypeOK, Offering
<1>7. ASSUME NEW s \in Subscriptions, Detach(s)
      PROVE  EventsAccounted'
  <2>1. /\ task[s] \in {"closing", "dropping"}
        /\ queue' = [queue EXCEPT ![s] = IF task[s] = "closing" THEN @ ELSE <<>>]
        /\ UNCHANGED <<filter, rxClosed, event, todo, owed, dropped, delivered>>
    BY <1>7 DEF Detach, pubVars, hist
  <2>2. \A r \in Subscriptions : ~rxClosed[r] => queue'[r] = queue[r]
    BY <2>1 DEF AccountInv, TypeOK, VisitsUnderLock
  <2>3. \A r \in Subscriptions : Offering(r)' = Offering(r)
    BY <2>1 DEF Offering
  <2> QED
    BY <2>1, <2>2, <2>3 DEF AccountInv, EventsAccounted
<1>8. CASE DropBus \/ UNCHANGED vars
  BY <1>1, <1>8 DEF DropBus, vars, chanVars, pubVars, hist
<1> QED
  BY <1>2, <1>3, <1>4, <1>5, <1>6, <1>7, <1>8, BeginAccount, OfferAccount,
     ReceiveAccount DEF Next, PublishStep, Visit, Consume

\* Every matching event published to a subscription with an open receiver is
\* returned, queued, refused for lack of room or about to be offered, and is
\* only one of these (memory.rs:87-118 and 177-197).
THEOREM EventsAlwaysAccounted == Spec => []EventsAccounted
<1>1. Init => AccountInv
  <2> SUFFICES ASSUME Init PROVE EventsAccounted /\ VisitsUnderLock
    BY InitTypeOK DEF AccountInv
  <2>1. \A s \in Subscriptions : Offering(s) = {}
    BY DEF Init, Offering
  <2>2. \A s \in Subscriptions : /\ Cardinality(Offering(s)) = 0
                                 /\ owed[s] = 0 /\ dropped[s] = 0
                                 /\ Len(queue[s]) = 0 /\ Len(delivered[s]) = 0
    BY <2>1, FS_EmptySet DEF Init
  <2> QED
    BY <2>2 DEF Init, EventsAccounted, VisitsUnderLock
<1>2. AccountInv /\ [Next]_vars => AccountInv'
  BY NextTypeOK, NextVisits, NextAccount DEF AccountInv
<1>3. AccountInv => EventsAccounted
  BY DEF AccountInv
<1> QED
  BY <1>1, <1>2, <1>3, PTL DEF Spec

-----------------------------------------------------------------------------
\* What a subscription has been sent and has kept, the oldest first.
Received(s) == delivered[s] \o queue[s]

InOrder(s) ==
    \A i, j \in DOMAIN Received(s) :
        i < j /\ Received(s)[i].by = Received(s)[j].by
            => Received(s)[i].num < Received(s)[j].num

\* Whatever a publisher still has to offer is newer than all it has sent.
OffersNewer(s) ==
    \A i \in DOMAIN Received(s) :
        LET m == Received(s)[i]
        IN  /\ m.num <= published[m.by]
            /\ s \in todo[m.by] => m.num < published[m.by]

OrderInv == TypeOK /\ \A s \in Subscriptions : InOrder(s) /\ OffersNewer(s)

LEMMA ReceivedType ==
  ASSUME TypeOK, NEW s \in Subscriptions
  PROVE  /\ Received(s) \in Seq(Items)
         /\ DOMAIN Received(s) = 1..Len(Received(s))
         /\ Len(Received(s)) \in Nat
         /\ \A i \in DOMAIN Received(s) : /\ Received(s)[i].by \in Publishers
                                         /\ Received(s)[i].num \in Nat
<1>1. Received(s) \in Seq(Items)
  BY ConcatProperties DEF Received, TypeOK
<1>2. DOMAIN Received(s) = 1..Len(Received(s)) /\ Len(Received(s)) \in Nat
  BY <1>1, LenProperties
<1>3. \A i \in DOMAIN Received(s) : Received(s)[i] \in Items
  BY <1>1, <1>2, ElementOfSeq
<1> QED
  BY <1>1, <1>2, <1>3 DEF Items

\* Publishers that only move on, or begin a new call, disturb no order.
LEMMA KeepOrder ==
  ASSUME OrderInv, NEW s \in Subscriptions, Received(s)' = Received(s),
         \A p \in Publishers :
            \/ published'[p] = published[p] /\ todo'[p] \subseteq todo[p]
            \/ published'[p] = published[p] + 1
  PROVE  InOrder(s)' /\ OffersNewer(s)'
<1>1. InOrder(s)'
  BY DEF OrderInv, InOrder
<1>2. ASSUME NEW i \in DOMAIN Received(s)
      PROVE  LET m == Received(s)[i]
             IN  /\ m.num <= published'[m.by]
                 /\ s \in todo'[m.by] => m.num < published'[m.by]
  <2> DEFINE m == Received(s)[i]
  <2>1. /\ m.by \in Publishers /\ m.num \in Nat
        /\ m.num <= published[m.by]
        /\ s \in todo[m.by] => m.num < published[m.by]
    BY ReceivedType DEF OrderInv, OffersNewer
  <2>2. published[m.by] \in Nat
    BY <2>1 DEF OrderInv, TypeOK
  <2> HIDE DEF m
  <2>3. CASE published'[m.by] = published[m.by] /\ todo'[m.by] \subseteq todo[m.by]
    BY <2>1, <2>3 DEF m
  <2>4. CASE published'[m.by] = published[m.by] + 1
    <3>1. m.num < published[m.by] + 1
      BY <2>1, <2>2
    <3> QED
      BY <2>1, <2>2, <2>4, <3>1 DEF m
  <2> QED
    BY <2>1, <2>3, <2>4
<1> QED
  BY <1>1, <1>2 DEF OffersNewer

\* A sent event comes last, and is the newest of its publisher.
LEMMA SendOrder ==
  ASSUME OrderInv, NEW p \in Publishers, NEW s \in Subscriptions, Send(p, s)
  PROVE  InOrder(s)' /\ OffersNewer(s)'
<1> DEFINE item == [by |-> p, num |-> published[p],
                    event |-> event[p], gap |-> dropped[s]]
           n == Len(Received(s))
<1>1. /\ s \in todo[p]
      /\ queue' = [queue EXCEPT ![s] = Append(@, item)]
      /\ todo' = [todo EXCEPT ![p] = @ \ {s}]
      /\ UNCHANGED <<delivered, published>>
  BY DEF Send, Visiting, VisitNext, hist
<1>2. item \in Items /\ item.by = p /\ item.num = published[p]
  BY DEF Send, Visiting, Items, OrderInv, TypeOK
<1> HIDE DEF item
<1>3. /\ queue[s] \in Seq(Items) /\ delivered[s] \in Seq(Items)
      /\ queue'[s] = Append(queue[s], item)
      /\ published[p] \in Nat
  BY <1>1 DEF OrderInv, TypeOK
<1>4. Received(s)' = Append(Received(s), item)
  <2>1. Append(queue[s], item) = queue[s] \o <<item>>
    BY <1>2, <1>3, AppendIsConcat
  <2>2. <<item>> \in Seq(Items)
    BY <1>2
  <2>3. (delivered[s] \o queue[s]) \o <<item>> = delivered[s] \o (queue[s] \o <<item>>)
    <3>1. \A a, b, c \in Seq(Items) : (a \o b) \o c = a \o (b \o c)
      BY ConcatAssociative
    <3> QED
      BY <1>3, <2>2, <3>1, Zenon
  <2>4. delivered[s] \o queue[s] \in Seq(Items)
    BY <1>3, ConcatProperties
  <2>5. Append(delivered[s] \o queue[s], item) = (delivered[s] \o queue[s]) \o <<item>>
    BY <1>2, <2>4, AppendIsConcat
  <2> QED
    BY <1>1, <1>3, <2>1, <2>3, <2>5 DEF Received
<1>5. /\ Received(s) \in Seq(Items) /\ n \in Nat
      /\ \A i \in 1..n : /\ Received(s)[i].by \in Publishers
                        /\ Received(s)[i].num \in Nat
  BY ReceivedType DEF OrderInv
<1>6. /\ DOMAIN Received(s)' = 1..n + 1
      /\ \A i \in 1..n : Received(s)'[i] = Received(s)[i]
      /\ Received(s)'[n + 1] = item
  BY <1>2, <1>4, <1>5, AppendProperties
<1>7. \A i \in 1..n :
         /\ Received(s)[i].num <= published[Received(s)[i].by]
         /\ s \in todo[Received(s)[i].by]
               => Received(s)[i].num < published[Received(s)[i].by]
  BY <1>5, ReceivedType DEF OrderInv, OffersNewer
<1>8. InOrder(s)'
  <2> SUFFICES ASSUME NEW i \in 1..n + 1, NEW j \in 1..n + 1, i < j,
                      Received(s)'[i].by = Received(s)'[j].by
               PROVE  Received(s)'[i].num < Received(s)'[j].num
    BY <1>6 DEF InOrder
  <2>1. i \in 1..n
    BY <1>5
  <2>2. CASE j \in 1..n
    BY <1>5, <1>6, <2>1, <2>2, ReceivedType DEF OrderInv, InOrder
  <2>3. CASE j = n + 1
    <3>1. Received(s)[i].by = p
      BY <1>2, <1>6, <2>1, <2>3
    <3>2. Received(s)[i].num < published[p]
      BY <1>1, <1>7, <2>1, <3>1
    <3> QED
      BY <1>2, <1>6, <2>1, <2>3, <3>2
  <2> QED
    BY <1>5, <2>2, <2>3
<1>9. OffersNewer(s)'
  <2> SUFFICES ASSUME NEW i \in 1..n + 1
               PROVE  LET m == Received(s)'[i]
                      IN  /\ m.num <= published[m.by]
                          /\ s \in todo'[m.by] => m.num < published[m.by]
    BY <1>1, <1>6 DEF OffersNewer
  <2>1. CASE i = n + 1
    <3>1. s \notin todo'[p]
      BY <1>1 DEF OrderInv, TypeOK
    <3> QED
      BY <1>2, <1>3, <1>6, <2>1, <3>1
  <2>2. CASE i \in 1..n
    <3>1. todo'[Received(s)[i].by] \subseteq todo[Received(s)[i].by]
      BY <1>1, <1>5, <2>2 DEF OrderInv, TypeOK
    <3> QED
      BY <1>6, <1>7, <2>2, <3>1
  <2> QED
    BY <1>5, <2>1, <2>2
<1> QED
  BY <1>8, <1>9

\* recv moves the oldest queued event, and a drop forgets the queued ones.
LEMMA ReceiveOrder ==
  ASSUME OrderInv, NEW s \in Subscriptions, Receive(s)
  PROVE  \A r \in Subscriptions : Received(r)' = Received(r)
<1>1. /\ queue[s] # <<>>
      /\ queue' = [queue EXCEPT ![s] = Tail(@)]
      /\ delivered' = [delivered EXCEPT ![s] = Append(@, Head(queue[s]))]
  BY DEF Receive
<1>2. /\ queue \in [Subscriptions -> Seq(Items)]
      /\ delivered \in [Subscriptions -> Seq(Items)]
  BY DEF OrderInv, TypeOK
<1>3. /\ Head(queue[s]) \in Items /\ Tail(queue[s]) \in Seq(Items)
      /\ queue[s] = <<Head(queue[s])>> \o Tail(queue[s])
  BY <1>1, <1>2, HeadTailProperties
<1>4. Append(delivered[s], Head(queue[s])) = delivered[s] \o <<Head(queue[s])>>
  BY <1>2, <1>3, AppendIsConcat
<1>5. <<Head(queue[s])>> \in Seq(Items)
  BY <1>3
<1>6. (delivered[s] \o <<Head(queue[s])>>) \o Tail(queue[s])
        = delivered[s] \o (<<Head(queue[s])>> \o Tail(queue[s]))
  BY <1>2, <1>3, <1>5, ConcatAssociative
<1>7. Received(s)' = Received(s)
  BY <1>1, <1>2, <1>3, <1>4, <1>6 DEF Received
<1>8. \A r \in Subscriptions : r # s => Received(r)' = Received(r)
  BY <1>1, <1>2 DEF Received
<1> QED
  BY <1>7, <1>8

LEMMA DetachOrder ==
  ASSUME OrderInv, NEW s \in Subscriptions, Detach(s), NEW r \in Subscriptions
  PROVE  InOrder(r)' /\ OffersNewer(r)'
<1>1. /\ queue' = [queue EXCEPT ![s] = IF task[s] = "closing" THEN @ ELSE <<>>]
      /\ UNCHANGED <<delivered, todo, published>>
  BY DEF Detach, pubVars, hist
<1>2. /\ queue \in [Subscriptions -> Seq(Items)]
      /\ delivered \in [Subscriptions -> Seq(Items)]
  BY DEF OrderInv, TypeOK
<1>3. CASE r # s \/ task[s] = "closing"
  <2>1. Received(r)' = Received(r)
    BY <1>1, <1>2, <1>3 DEF Received
  <2> QED
    BY <1>1, <2>1, KeepOrder
<1>4. CASE r = s /\ task[s] # "closing"
  <2>1. queue'[r] = <<>>
    BY <1>1, <1>2, <1>4
  <2>2. Received(r)' = delivered[r]
    BY <1>1, <1>2, <2>1, ConcatEmptySeq DEF Received
  <2>3. \A i \in DOMAIN delivered[r] :
           i \in DOMAIN Received(r) /\ Received(r)[i] = delivered[r][i]
    <3> DEFINE d == delivered[r]
               q == queue[r]
    <3>1. d \in Seq(Items) /\ q \in Seq(Items) /\ Received(r) = d \o q
      BY <1>2 DEF Received
    <3> HIDE DEF d, q
    <3>2. /\ Len(d) \in Nat /\ Len(q) \in Nat
          /\ DOMAIN d = 1..Len(d)
          /\ DOMAIN (d \o q) = 1..Len(d) + Len(q)
      BY <3>1, ConcatProperties, LenProperties
    <3>3. \A i \in 1..Len(d) : i \in 1..Len(d) + Len(q) /\ (d \o q)[i] = d[i]
      BY <3>1, <3>2, ConcatProperties
    <3>4. \A i \in DOMAIN d : i \in DOMAIN (d \o q) /\ (d \o q)[i] = d[i]
      BY <3>2, <3>3
    <3> QED
      BY <3>1, <3>4 DEF d
  <2> QED
    BY <1>1, <2>2, <2>3 DEF OrderInv, InOrder, OffersNewer
<1> QED
  BY <1>3, <1>4

LEMMA NextOrder == OrderInv /\ [Next]_vars => OrderInv'
<1> SUFFICES ASSUME OrderInv, [Next]_vars, NEW r \in Subscriptions
             PROVE  InOrder(r)' /\ OffersNewer(r)'
  BY NextTypeOK DEF OrderInv
<1>1. ASSUME UNCHANGED <<queue, delivered>>,
             \A p \in Publishers :
                \/ published'[p] = published[p] /\ todo'[p] \subseteq todo[p]
                \/ published'[p] = published[p] + 1
      PROVE  InOrder(r)' /\ OffersNewer(r)'
  BY <1>1, KeepOrder DEF Received
<1>2. ASSUME NEW p \in Publishers, NEW e \in Events, BeginPublish(p, e)
      PROVE  InOrder(r)' /\ OffersNewer(r)'
  <2>1. /\ published' = [published EXCEPT ![p] = @ + 1]
        /\ todo' = [todo EXCEPT ![p] = subscribers]
        /\ UNCHANGED <<queue, delivered>>
    BY <1>2 DEF BeginPublish, chanVars
  <2> QED
    BY <1>1, <2>1 DEF OrderInv, TypeOK
<1>3. ASSUME NEW p \in Publishers, NEW s \in Subscriptions,
             Skip(p, s) \/ Full(p, s) \/ FindClosed(p, s)
      PROVE  InOrder(r)' /\ OffersNewer(r)'
  <2>1. /\ todo' = [todo EXCEPT ![p] = @ \ {s}]
        /\ UNCHANGED <<queue, delivered, published>>
    BY <1>3 DEF Skip, Full, FindClosed, VisitNext, chanVars, hist
  <2> QED
    BY <1>1, <2>1 DEF OrderInv, TypeOK
<1>4. ASSUME NEW p \in Publishers, NEW s \in Subscriptions, Send(p, s)
      PROVE  InOrder(r)' /\ OffersNewer(r)'
  <2>1. CASE r = s
    BY <1>4, <2>1, SendOrder
  <2>2. CASE r # s
    <3>1. /\ todo' = [todo EXCEPT ![p] = @ \ {s}]
          /\ UNCHANGED <<delivered, published>>
      BY <1>4 DEF Send, VisitNext, hist
    <3>2. Received(r)' = Received(r)
      <4> DEFINE item == [by |-> p, num |-> published[p],
                          event |-> event[p], gap |-> dropped[s]]
      <4>1. queue' = [queue EXCEPT ![s] = Append(@, item)]
        BY <1>4 DEF Send
      <4> HIDE DEF item
      <4>2. queue'[r] = queue[r]
        BY <2>2, <4>1 DEF OrderInv, TypeOK
      <4> QED
        BY <3>1, <4>2 DEF Received
    <3>3. \A o \in Publishers : todo'[o] \subseteq todo[o]
      BY <3>1 DEF OrderInv, TypeOK
    <3> QED
      BY <3>1, <3>2, <3>3, KeepOrder
  <2> QED
    BY <2>1, <2>2
<1>5. ASSUME NEW p \in Publishers, CountMissed(p) \/ EndVisit(p) \/ Purge(p)
      PROVE  InOrder(r)' /\ OffersNewer(r)'
  BY <1>1, <1>5 DEF CountMissed, EndVisit, Purge, chanVars, hist
<1>6. ASSUME NEW s \in Subscriptions, Receive(s)
      PROVE  InOrder(r)' /\ OffersNewer(r)'
  <2>1. UNCHANGED <<todo, published>>
    BY <1>6 DEF Receive, pubVars
  <2> QED
    BY <1>6, <2>1, ReceiveOrder, KeepOrder
<1>7. ASSUME NEW s \in Subscriptions,
             \/ \E f \in Filters : Subscribe(s, f)
             \/ NextEventClosed(s) \/ ReportLag(s) \/ BeginReceive(s)
             \/ ReceiveEnd(s) \/ Cancel(s) \/ Close(s) \/ Drop(s)
      PROVE  InOrder(r)' /\ OffersNewer(r)'
  <2>1. UNCHANGED <<queue, delivered, todo, published>>
    BY <1>7 DEF Subscribe, NextEventClosed, ReportLag, BeginReceive,
       ReceiveEnd, Cancel, Close, Drop, chanVars, pubVars, hist
  <2> QED
    BY <1>1, <2>1
<1>8. CASE DropBus \/ UNCHANGED vars
  BY <1>1, <1>8 DEF DropBus, vars, chanVars, pubVars, hist
<1> QED
  BY <1>2, <1>3, <1>4, <1>5, <1>6, <1>7, <1>8, DetachOrder
     DEF Next, PublishStep, Visit, Consume

LEMMA InitOrder == Init => OrderInv
<1> SUFFICES ASSUME Init, NEW s \in Subscriptions
             PROVE  InOrder(s) /\ OffersNewer(s)
  BY InitTypeOK DEF OrderInv
<1>1. Received(s) = <<>>
  BY DEF Init, Received
<1> QED
  BY <1>1 DEF InOrder, OffersNewer

\* The events of one publisher reach a subscription in the order they were
\* published and none of them twice, however many publishers share the read
\* lock and whatever is lost in between (memory.rs:87-118).
THEOREM PublisherAlwaysInOrder == Spec => []PublisherOrder
<1>1. OrderInv => PublisherOrder
  BY DEF OrderInv, PublisherOrder, InOrder, Received
<1> QED
  BY <1>1, InitOrder, NextOrder, PTL DEF Spec

(***************************************************************************)
(* MemoryEventBus implements LossyStream, for any publishers,              *)
(* subscriptions, filters and bounds: what a consumer can tell of a        *)
(* subscription is a lossy stream.                                         *)
(***************************************************************************)
-----------------------------------------------------------------------------
\* Nothing is known of a subscription before subscribe has made it.
UnbornUntouched ==
    \A s \in Subscriptions : task[s] = "unborn" =>
        /\ s \notin subscribers
        /\ filter[s] = None
        /\ ~rxClosed[s]
        /\ \A p \in Publishers : s \notin todo[p]

\* A filter, once given, is there to stay.
BornFiltered ==
    \A s \in Subscriptions : task[s] # "unborn" => filter[s] \in Filters

\* The calls of publish count from one, and within their bound.
CallsNumbered ==
    \A p \in Publishers :
        /\ published[p] <= MaxPublished
        /\ pc[p] = "offering" => published[p] >= 1

\* The strengthening under which every step of the bus is one of the stream
\* or a stutter.
StreamInv ==
    /\ OrderInv
    /\ LagAccounted
    /\ VisitsUnderLock
    /\ UnbornUntouched
    /\ BornFiltered
    /\ CallsNumbered

LEMMA InitStreamInv == Init => StreamInv
<1> SUFFICES ASSUME Init PROVE StreamInv
  OBVIOUS
<1>1. OrderInv
  BY InitOrder
<1>2. LagAccounted
  BY InitLagAccounted
<1>3. VisitsUnderLock /\ UnbornUntouched /\ BornFiltered /\ CallsNumbered
  BY BusAssumption DEF Init, VisitsUnderLock, UnbornUntouched, BornFiltered,
                       CallsNumbered
<1> QED
  BY <1>1, <1>2, <1>3 DEF StreamInv

\* What is known of the unborn and of filters outlives a step that leaves
\* filters alone, moves nobody in or out of "unborn" and adds no visits.
LEMMA UnbornKept ==
  ASSUME UnbornUntouched, BornFiltered, filter' = filter,
         \A s \in Subscriptions :
            /\ task'[s] = "unborn" <=> task[s] = "unborn"
            /\ task[s] = "unborn" => rxClosed'[s] = rxClosed[s]
            /\ s \in subscribers' => s \in subscribers
            /\ \A p \in Publishers :
                  s \in todo'[p] => s \in todo[p] \/ s \in subscribers
  PROVE  UnbornUntouched' /\ BornFiltered'
BY DEF UnbornUntouched, BornFiltered

LEMMA NextUnborn ==
  ASSUME TypeOK, UnbornUntouched, BornFiltered, [Next]_vars
  PROVE  UnbornUntouched' /\ BornFiltered'
<1> DEFINE Kept ==
        /\ filter' = filter
        /\ \A s \in Subscriptions :
            /\ task'[s] = "unborn" <=> task[s] = "unborn"
            /\ task[s] = "unborn" => rxClosed'[s] = rxClosed[s]
            /\ s \in subscribers' => s \in subscribers
            /\ \A p \in Publishers :
                  s \in todo'[p] => s \in todo[p] \/ s \in subscribers
<1> USE DEF TypeOK
<1>1. ASSUME NEW p \in Publishers, NEW e \in Events, BeginPublish(p, e)
      PROVE  Kept
  BY <1>1 DEF BeginPublish, busVars, chanVars, subVars
<1>2. ASSUME NEW p \in Publishers, NEW s \in Subscriptions, Visit(p, s)
      PROVE  Kept
  <2>1. /\ UNCHANGED <<subscribers, filter, rxClosed, task>>
        /\ todo' = VisitNext(p, s)
    BY <1>2 DEF Visit, Skip, Send, Full, FindClosed, busVars, chanVars, subVars
  <2> QED
    BY <2>1 DEF VisitNext
<1>3. ASSUME NEW p \in Publishers, CountMissed(p) \/ EndVisit(p) \/ Purge(p)
      PROVE  Kept
  <2>1. /\ UNCHANGED <<filter, rxClosed, task, todo>>
        /\ subscribers' \subseteq subscribers
    BY <1>3 DEF CountMissed, EndVisit, Purge, busVars, chanVars, subVars
  <2> QED
    BY <2>1
<1>4. ASSUME NEW s \in Subscriptions, NEW f \in Filters, Subscribe(s, f)
      PROVE  UnbornUntouched' /\ BornFiltered'
  BY <1>4 DEF Subscribe, UnbornUntouched, BornFiltered, pubVars
<1>5. ASSUME NEW s \in Subscriptions,
             \/ NextEventClosed(s) \/ ReportLag(s) \/ BeginReceive(s)
             \/ Receive(s) \/ ReceiveEnd(s) \/ Cancel(s)
      PROVE  Kept
  <2>1. /\ UNCHANGED <<subscribers, filter, rxClosed, todo>>
        /\ task[s] # "unborn"
        /\ \/ task' = task
           \/ task' = [task EXCEPT ![s] = "idle"]
           \/ task' = [task EXCEPT ![s] = "receiving"]
    BY <1>5 DEF NextEventClosed, ReportLag, BeginReceive, Receive,
                ReceiveEnd, Cancel, busVars, chanVars, pubVars
  <2> QED
    BY <2>1
<1>6. ASSUME NEW s \in Subscriptions, Close(s) \/ Drop(s) \/ Detach(s)
      PROVE  Kept
  <2>1. /\ UNCHANGED <<filter, todo>>
        /\ subscribers' \subseteq subscribers
        /\ task[s] # "unborn"
        /\ \E x \in {"closing", "dropping", "idle", "dropped"} :
              task' = [task EXCEPT ![s] = x]
        /\ rxClosed' = rxClosed \/ rxClosed' = [rxClosed EXCEPT ![s] = TRUE]
    BY <1>6 DEF Close, Drop, Detach, Leave, busVars, pubVars
  <2> QED
    BY <2>1
<1>7. CASE DropBus \/ UNCHANGED vars
  <2>1. Kept
    BY <1>7 DEF DropBus, vars, busVars, chanVars, subVars, pubVars
  <2> QED
    BY <2>1, UnbornKept
<1> HIDE DEF Kept
<1>8. Kept => UnbornUntouched' /\ BornFiltered'
  BY UnbornKept DEF Kept
<1> QED
  BY <1>1, <1>2, <1>3, <1>4, <1>5, <1>6, <1>7, <1>8 DEF Next, PublishStep, Consume

LEMMA NextNumbered ==
  ASSUME TypeOK, CallsNumbered, [Next]_vars
  PROVE  CallsNumbered'
<1> USE BusAssumption DEF TypeOK, CallsNumbered
<1>1. ASSUME NEW p \in Publishers, NEW e \in Events, BeginPublish(p, e)
      PROVE  CallsNumbered'
  BY <1>1 DEF BeginPublish
<1>2. ASSUME NEW p \in Publishers, PublishStep(p)
      PROVE  CallsNumbered'
  BY <1>2 DEF PublishStep, Visit, Skip, Send, Full, FindClosed, CountMissed,
              EndVisit, Purge, hist
<1>3. ASSUME NEW s \in Subscriptions, Consume(s)
      PROVE  UNCHANGED <<pc, published>>
  BY <1>3 DEF Consume, Subscribe, NextEventClosed, ReportLag, BeginReceive,
     Receive, ReceiveEnd, Cancel, Close, Drop, Detach, pubVars, hist
<1>4. CASE DropBus \/ UNCHANGED vars
  BY <1>4 DEF DropBus, vars, pubVars, hist
<1> QED
  BY <1>1, <1>2, <1>3, <1>4 DEF Next

LEMMA NextStreamInv == StreamInv /\ [Next]_vars => StreamInv'
<1> SUFFICES ASSUME StreamInv, [Next]_vars PROVE StreamInv'
  OBVIOUS
<1>1. OrderInv' /\ VisitsUnderLock'
  BY NextOrder, NextVisits DEF StreamInv, OrderInv
<1>2. LagAccounted'
  BY NextLagAccounted DEF StreamInv, OrderInv
<1> QED
  BY <1>1, <1>2, NextUnborn, NextNumbered DEF StreamInv, OrderInv

-----------------------------------------------------------------------------
LEMMA FunctionIsSeq ==
  ASSUME NEW V, NEW n \in Nat, NEW f \in [1..n -> V]
  PROVE  f \in Seq(V) /\ Len(f) = n
OBVIOUS

\* What the consumer can tell of an item, and of a queue of them.
AsMessage(item) == [by |-> item.by, num |-> item.num, event |-> item.event]
Viewed == [by : Publishers, num : Nat, event : Events]

LEMMA ViewOf ==
  ASSUME NEW q \in Seq(Items)
  PROVE  /\ AsMessages(q) \in Seq(Viewed)
         /\ Len(AsMessages(q)) = Len(q)
         /\ DOMAIN AsMessages(q) = 1..Len(q)
         /\ \A i \in 1..Len(q) : AsMessages(q)[i] = AsMessage(q[i])
<1>1. DOMAIN q = 1..Len(q) /\ Len(q) \in Nat
  BY LenProperties
<1>2. \A i \in 1..Len(q) : AsMessage(q[i]) \in Viewed
  <2>1. \A i \in 1..Len(q) : q[i] \in Items
    BY ElementOfSeq
  <2> QED
    BY <2>1 DEF AsMessage, Items, Viewed
<1>3. AsMessages(q) = [i \in 1..Len(q) |-> AsMessage(q[i])]
  BY <1>1 DEF AsMessages, AsMessage
<1>4. AsMessages(q) \in [1..Len(q) -> Viewed]
  BY <1>2, <1>3
<1>5. AsMessages(q) \in Seq(Viewed) /\ Len(AsMessages(q)) = Len(q)
  BY <1>1, <1>4, FunctionIsSeq
<1> QED
  BY <1>3, <1>5

\* The consumer's view of a queue moves with the queue.
LEMMA ViewOfAppend ==
  ASSUME NEW q \in Seq(Items), NEW item \in Items
  PROVE  AsMessages(Append(q, item)) = Append(AsMessages(q), AsMessage(item))
<1> DEFINE v == AsMessages(q)
           w == AsMessages(Append(q, item))
           n == Len(q)
           a == Append(v, AsMessage(item))
<1>1. /\ Append(q, item) \in Seq(Items)
      /\ Len(Append(q, item)) = n + 1
      /\ n \in Nat
      /\ \A i \in 1..n : Append(q, item)[i] = q[i]
      /\ Append(q, item)[n + 1] = item
  BY AppendProperties, LenProperties
<1>2. /\ v \in Seq(Viewed) /\ Len(v) = n
      /\ \A i \in 1..n : v[i] = AsMessage(q[i])
  BY ViewOf
<1>3. /\ w \in Seq(Viewed) /\ Len(w) = n + 1
      /\ \A i \in 1..n + 1 : w[i] = AsMessage(Append(q, item)[i])
  BY <1>1, ViewOf
<1>4. AsMessage(item) \in Viewed
  BY DEF AsMessage, Items, Viewed
<1>5. /\ a \in Seq(Viewed) /\ Len(a) = n + 1
      /\ \A i \in 1..n : a[i] = v[i]
      /\ a[n + 1] = AsMessage(item)
  BY <1>2, <1>4, AppendProperties
<1> HIDE DEF v, w, n, a
<1>6. \A i \in 1..n + 1 : w[i] = a[i]
  <2> SUFFICES ASSUME NEW i \in 1..n + 1 PROVE w[i] = a[i]
    OBVIOUS
  <2>1. i \in 1..n \/ i = n + 1
    BY <1>1
  <2>2. CASE i \in 1..n
    BY <1>1, <1>2, <1>3, <1>5, <2>2
  <2>3. CASE i = n + 1
    BY <1>1, <1>3, <1>5, <2>3
  <2> QED
    BY <2>1, <2>2, <2>3
<1>7. w = a
  BY <1>3, <1>5, <1>6, SeqEqual
<1> QED
  BY <1>7 DEF v, w, a

LEMMA ViewOfTail ==
  ASSUME NEW q \in Seq(Items), q # <<>>
  PROVE  /\ AsMessages(q) # <<>>
         /\ Head(AsMessages(q)) = AsMessage(Head(q))
         /\ AsMessages(Tail(q)) = Tail(AsMessages(q))
<1> DEFINE v == AsMessages(q)
           w == AsMessages(Tail(q))
           n == Len(q)
<1>1. /\ n \in Nat /\ n > 0
      /\ Tail(q) \in Seq(Items) /\ Len(Tail(q)) = n - 1
      /\ \A i \in 1..n - 1 : Tail(q)[i] = q[i + 1]
      /\ Head(q) = q[1]
  BY HeadTailProperties, LenProperties, EmptySeq
<1>2. /\ v \in Seq(Viewed) /\ Len(v) = n
      /\ \A i \in 1..n : v[i] = AsMessage(q[i])
  BY ViewOf
<1>3. /\ w \in Seq(Viewed) /\ Len(w) = n - 1
      /\ \A i \in 1..n - 1 : w[i] = AsMessage(Tail(q)[i])
  BY <1>1, ViewOf
<1>4. v # <<>>
  BY <1>1, <1>2, EmptySeq
<1>5. /\ Head(v) = v[1]
      /\ Tail(v) \in Seq(Viewed) /\ Len(Tail(v)) = n - 1
      /\ \A i \in 1..n - 1 : Tail(v)[i] = v[i + 1]
  BY <1>2, <1>4, HeadTailProperties
<1> HIDE DEF v, w, n
<1>6. \A i \in 1..n - 1 : w[i] = Tail(v)[i]
  <2> SUFFICES ASSUME NEW i \in 1..n - 1 PROVE w[i] = Tail(v)[i]
    OBVIOUS
  <2>1. i + 1 \in 1..n
    BY <1>1
  <2> QED
    BY <1>1, <1>2, <1>3, <1>5, <2>1
<1>7. w = Tail(v)
  BY <1>3, <1>5, <1>6, SeqEqual
<1>8. Head(v) = AsMessage(Head(q))
  BY <1>1, <1>2, <1>5
<1> QED
  BY <1>4, <1>7, <1>8 DEF v, w

-----------------------------------------------------------------------------
\* The operators the stream is specified with are those of the bus.
LEMMA SameMatching ==
  ASSUME NEW f, NEW e
  PROVE  /\ Stream!Matches(f, e) <=> Matches(f, e)
         /\ Stream!IsValid(f) <=> IsValid(f)
BY DEF Stream!Matches, Stream!Accepts, Stream!AcceptsType, Stream!IsValid,
       Matches, Accepts, AcceptsType, IsValid

\* A step shows to no consumer that leaves alone what the stream is made of.
LEMMA Unseen ==
  ASSUME UNCHANGED <<filter, queue, rxClosed, delivered, dropped, reported>>,
         \A s \in Subscriptions : task'[s] = "unborn" <=> task[s] = "unborn"
  PROVE  UNCHANGED Stream!streamVars
BY DEF Stream!streamVars

\* What bounds the numbers in a queue bounds those in its view.
LEMMA ViewIsBounded ==
  ASSUME NEW q \in Seq(Items), NEW p, NEW k,
         \A i \in 1..Len(q) : q[i].by = p => q[i].num < k
  PROVE  \A n \in Stream!Range(AsMessages(q)) : n.by = p => n.num < k
<1> SUFFICES ASSUME NEW n \in Stream!Range(AsMessages(q)), n.by = p
             PROVE  n.num < k
  OBVIOUS
<1>1. PICK i \in 1..Len(q) : n = AsMessage(q[i])
  BY ViewOf DEF Stream!Range
<1>2. n.by = q[i].by /\ n.num = q[i].num
  BY <1>1 DEF AsMessage
<1> QED
  BY <1>2

\* What is in two queues is in the one made of them.
LEMMA PartsAreBounded ==
  ASSUME NEW d \in Seq(Items), NEW q \in Seq(Items), NEW p, NEW k,
         \A i \in DOMAIN (d \o q) : (d \o q)[i].by = p => (d \o q)[i].num < k
  PROVE  /\ \A i \in 1..Len(d) : d[i].by = p => d[i].num < k
         /\ \A i \in 1..Len(q) : q[i].by = p => q[i].num < k
<1> DEFINE r == d \o q
           a == Len(d)
           b == Len(q)
<1>1. a \in Nat /\ b \in Nat
  BY LenProperties
<1>2. r \in Seq(Items) /\ Len(r) = a + b
  BY ConcatProperties
<1>3. DOMAIN r = 1..(a + b)
  BY <1>2, LenProperties
<1>4. \A i \in 1..(a + b) : r[i] = IF i <= a THEN d[i] ELSE q[i - a]
  BY ConcatProperties
<1>5. \A i \in DOMAIN r : r[i].by = p => r[i].num < k
  OBVIOUS
<1> HIDE DEF r, a, b
<1>6. ASSUME NEW i \in 1..a PROVE d[i].by = p => d[i].num < k
  <2>1. i \in DOMAIN r /\ r[i] = d[i]
    BY <1>1, <1>3, <1>4
  <2> QED
    BY <1>5, <2>1
<1>7. ASSUME NEW i \in 1..b PROVE q[i].by = p => q[i].num < k
  <2>1. /\ a + i \in 1..(a + b) /\ ~(a + i <= a) /\ (a + i) - a = i
    BY <1>1
  <2>2. a + i \in DOMAIN r /\ r[a + i] = q[i]
    BY <1>3, <1>4, <2>1
  <2> QED
    BY <1>5, <2>2
<1> QED
  BY <1>6, <1>7 DEF a, b

\* What publish tries to send comes after all that the consumer has seen or
\* has waiting of the publisher.
LEMMA SendIsNext ==
  ASSUME StreamInv, NEW p \in Publishers, NEW s \in Subscriptions, s \in todo[p]
  PROVE  \A n \in Stream!Range(AsMessages(delivered[s]))
                     \cup Stream!Range(AsMessages(queue[s])) :
            n.by = p => n.num < published[p]
<1>1. delivered[s] \in Seq(Items) /\ queue[s] \in Seq(Items)
  BY DEF StreamInv, OrderInv, TypeOK
<1>2. \A i \in DOMAIN Received(s) :
         Received(s)[i].by = p => Received(s)[i].num < published[p]
  BY DEF StreamInv, OrderInv, OffersNewer
<1>3. \A i \in DOMAIN (delivered[s] \o queue[s]) :
         (delivered[s] \o queue[s])[i].by = p
            => (delivered[s] \o queue[s])[i].num < published[p]
  BY <1>2, Zenon DEF Received
<1>4. /\ \A i \in 1..Len(delivered[s]) :
            delivered[s][i].by = p => delivered[s][i].num < published[p]
      /\ \A i \in 1..Len(queue[s]) :
            queue[s][i].by = p => queue[s][i].num < published[p]
  BY <1>1, <1>3, PartsAreBounded
<1> QED
  BY <1>1, <1>4, ViewIsBounded

LEMMA SendIsAccept ==
  ASSUME StreamInv, NEW p \in Publishers, NEW s \in Subscriptions, Send(p, s)
  PROVE  Stream!StreamNext
<1> DEFINE item == [by |-> p, num |-> published[p], event |-> event[p],
                    gap |-> dropped[s]]
           m == AsMessage(item)
           view == [r \in Subscriptions |-> AsMessages(queue[r])]
           open == {r \in Subscriptions : task[r] # "unborn" /\ ~rxClosed[r]}
<1>1. /\ pc[p] = "offering" /\ s \in todo[p] /\ ~rxClosed[s]
      /\ Matches(filter[s], event[p]) /\ Len(queue[s]) < QueueCapacity
      /\ queue' = [queue EXCEPT ![s] = Append(@, item)]
      /\ UNCHANGED <<filter, rxClosed, task, dropped, reported, delivered>>
  BY DEF Send, Visiting, HasRoom, subVars, hist
<1>2. item \in Items /\ m \in Messages
  <2>1. /\ published[p] \in Nat /\ published[p] <= MaxPublished
        /\ published[p] >= 1 /\ event[p] \in Events /\ dropped[s] \in Nat
    BY <1>1 DEF StreamInv, OrderInv, TypeOK, CallsNumbered
  <2> QED
    BY <2>1, BusAssumption DEF Items, Messages, AsMessage
<1>3. m.by = p /\ m.num = published[p] /\ m.event = event[p]
  BY DEF AsMessage
<1>4. s \in open
  BY <1>1 DEF StreamInv, UnbornUntouched
<1>5. queue[s] \in Seq(Items) /\ queue \in [Subscriptions -> Seq(Items)]
  BY DEF StreamInv, OrderInv, TypeOK
<1>6. Len(view[s]) < QueueCapacity
  BY <1>1, <1>5, ViewOf
<1>7. [r \in Subscriptions |-> AsMessages(queue'[r])]
         = [view EXCEPT ![s] = Append(@, m)]
  BY <1>1, <1>2, <1>5, ViewOfAppend
<1>8. Stream!IsNext(s, m)
  BY <1>1, <1>3, SendIsNext DEF Stream!IsNext
<1>9. Stream!Matches(filter[s], m.event)
  BY <1>1, <1>3, SameMatching
<1> HIDE DEF item, m
<1>10. Stream!Accept(s, m)
  BY <1>1, <1>4, <1>6, <1>7, <1>8, <1>9 DEF Stream!Accept
<1> QED
  BY <1>2, <1>10 DEF Stream!StreamNext

LEMMA FullIsMiss ==
  ASSUME StreamInv, NEW p \in Publishers, NEW s \in Subscriptions, Full(p, s)
  PROVE  Stream!StreamNext
<1>1. /\ s \in todo[p] /\ ~rxClosed[s] /\ ~(Len(queue[s]) < QueueCapacity)
      /\ dropped' = [dropped EXCEPT ![s] = @ + 1]
      /\ UNCHANGED <<filter, queue, rxClosed, task, reported, delivered>>
  BY DEF Full, Visiting, HasRoom, chanVars, subVars
<1>2. s \in {r \in Subscriptions : task[r] # "unborn" /\ ~rxClosed[r]}
  BY <1>1 DEF StreamInv, UnbornUntouched
<1>3. /\ queue[s] \in Seq(Items)
      /\ Len(queue[s]) \in Nat /\ Len(queue[s]) <= QueueCapacity
  BY LenProperties DEF StreamInv, OrderInv, TypeOK
<1>4. Len(AsMessages(queue[s])) = QueueCapacity
  BY <1>1, <1>3, ViewOf, BusAssumption
<1>5. Stream!Miss(s)
  BY <1>1, <1>2, <1>4 DEF Stream!Miss
<1> QED
  BY <1>5 DEF Stream!StreamNext

LEMMA SubscribeIsOpen ==
  ASSUME StreamInv, NEW s \in Subscriptions, NEW f \in Filters, Subscribe(s, f)
  PROVE  Stream!StreamNext
<1>1. /\ task[s] = "unborn" /\ IsValid(f)
      /\ filter' = [filter EXCEPT ![s] = f]
      /\ task' = [task EXCEPT ![s] = "idle"]
      /\ UNCHANGED <<queue, rxClosed, dropped, reported, delivered>>
  BY DEF Subscribe, hist
<1>2. filter[s] = None /\ ~rxClosed[s]
  BY <1>1 DEF StreamInv, UnbornUntouched
<1>3. {r \in Subscriptions : task'[r] # "unborn" /\ ~rxClosed'[r]}
         = {r \in Subscriptions : task[r] # "unborn" /\ ~rxClosed[r]} \cup {s}
  BY <1>1, <1>2 DEF StreamInv, OrderInv, TypeOK
<1>4. Stream!Open(s, f)
  BY <1>1, <1>2, <1>3, SameMatching DEF Stream!Open
<1> QED
  BY <1>4 DEF Stream!StreamNext

LEMMA ReceiveIsDeliver ==
  ASSUME StreamInv, NEW s \in Subscriptions, Receive(s)
  PROVE  Stream!StreamNext
<1> DEFINE view == [r \in Subscriptions |-> AsMessages(queue[r])]
           seen == [r \in Subscriptions |-> AsMessages(delivered[r])]
<1>1. /\ queue[s] # <<>> /\ task[s] = "receiving"
      /\ queue' = [queue EXCEPT ![s] = Tail(@)]
      /\ delivered' = [delivered EXCEPT ![s] = Append(@, Head(queue[s]))]
      /\ task' = [task EXCEPT ![s] = "idle"]
      /\ UNCHANGED <<filter, rxClosed, dropped, reported>>
  BY DEF Receive
<1>2. /\ queue \in [Subscriptions -> Seq(Items)]
      /\ delivered \in [Subscriptions -> Seq(Items)]
      /\ task[s] # "unborn"
      /\ \A r \in Subscriptions : task'[r] = "unborn" <=> task[r] = "unborn"
  BY <1>1 DEF StreamInv, OrderInv, TypeOK
<1>3. Head(queue[s]) \in Items
  BY <1>1, <1>2, HeadTailProperties
<1>4. view[s] # <<>> /\ Head(view[s]) = AsMessage(Head(queue[s]))
  BY <1>1, <1>2, ViewOfTail
<1>5. [r \in Subscriptions |-> AsMessages(queue'[r])]
         = [view EXCEPT ![s] = Tail(@)]
  BY <1>1, <1>2, ViewOfTail
<1>6. [r \in Subscriptions |-> AsMessages(delivered'[r])]
         = [seen EXCEPT ![s] = Append(@, AsMessage(Head(queue[s])))]
  BY <1>1, <1>2, <1>3, ViewOfAppend
<1>7. Stream!Deliver(s)
  BY <1>1, <1>2, <1>4, <1>5, <1>6 DEF Stream!Deliver
<1> QED
  BY <1>7 DEF Stream!StreamNext

LEMMA ReportIsTell ==
  ASSUME StreamInv, NEW s \in Subscriptions, ReportLag(s)
  PROVE  Stream!StreamNext
<1> DEFINE n == lagged[s]
           c == Cardinality(Counting(s))
<1>1. /\ n > 0
      /\ reported' = [reported EXCEPT ![s] = @ + n]
      /\ UNCHANGED <<filter, queue, rxClosed, task, dropped, delivered>>
  BY DEF ReportLag, MustReport
<1>2. /\ n \in Nat /\ reported[s] \in Nat /\ dropped[s] \in Nat
  BY BusAssumption DEF StreamInv, OrderInv, TypeOK
<1>3. c \in Nat
  BY CountingFinite DEF StreamInv, OrderInv
<1>4. reported[s] + n + c <= dropped[s]
  BY DEF StreamInv, LagAccounted
<1> HIDE DEF n, c
<1>5. n \in 1..(dropped[s] - reported[s])
  BY <1>1, <1>2, <1>3, <1>4
<1>6. Stream!Tell(s, n)
  BY <1>1, <1>5 DEF Stream!Tell
<1> QED
  BY <1>5, <1>6 DEF Stream!StreamNext

\* Closing a receiver shuts the stream, unless it is shut already.
LEMMA ClosingIsShut ==
  ASSUME StreamInv, NEW s \in Subscriptions, Close(s) \/ Drop(s)
  PROVE  [Stream!StreamNext]_(Stream!streamVars)
<1>1. /\ rxClosed' = [rxClosed EXCEPT ![s] = TRUE]
      /\ task[s] = "idle"
      /\ \/ task' = [task EXCEPT ![s] = "closing"]
         \/ task' = [task EXCEPT ![s] = "dropping"]
      /\ UNCHANGED <<filter, queue, dropped, reported, delivered>>
  BY DEF Close, Drop, hist
<1>2. /\ rxClosed \in [Subscriptions -> BOOLEAN]
      /\ \A r \in Subscriptions : task'[r] = "unborn" <=> task[r] = "unborn"
  BY <1>1 DEF StreamInv, OrderInv, TypeOK
<1>3. CASE rxClosed[s]
  <2>1. rxClosed' = rxClosed
    BY <1>1, <1>2, <1>3
  <2> QED
    BY <1>1, <1>2, <2>1, Unseen
<1>4. CASE ~rxClosed[s]
  <2>1. s \in {r \in Subscriptions : task[r] # "unborn" /\ ~rxClosed[r]}
    BY <1>1, <1>4
  <2>2. {r \in Subscriptions : task'[r] # "unborn" /\ ~rxClosed'[r]}
           = {r \in Subscriptions : task[r] # "unborn" /\ ~rxClosed[r]} \ {s}
    BY <1>1, <1>2
  <2>3. Stream!Shut(s)
    BY <1>1, <2>1, <2>2 DEF Stream!Shut
  <2> QED
    BY <2>3 DEF Stream!StreamNext
<1> QED
  BY <1>3, <1>4

\* A dropped receiver takes its queue with it; a closed one keeps it.
LEMMA DetachIsDiscard ==
  ASSUME StreamInv, NEW s \in Subscriptions, Detach(s)
  PROVE  [Stream!StreamNext]_(Stream!streamVars)
<1>1. /\ task[s] \in {"closing", "dropping"}
      /\ task' = [task EXCEPT ![s] = IF @ = "closing" THEN "idle" ELSE "dropped"]
      /\ queue' = [queue EXCEPT ![s] = IF task[s] = "closing" THEN @ ELSE <<>>]
      /\ UNCHANGED <<filter, rxClosed, dropped, reported, delivered>>
  BY DEF Detach, hist
<1>2. /\ queue \in [Subscriptions -> Seq(Items)]
      /\ \A r \in Subscriptions : task'[r] = "unborn" <=> task[r] = "unborn"
  BY <1>1 DEF StreamInv, OrderInv, TypeOK
<1>3. CASE task[s] = "closing"
  <2>1. queue' = queue
    BY <1>1, <1>2, <1>3
  <2> QED
    BY <1>1, <1>2, <2>1, Unseen
<1>4. CASE task[s] = "dropping"
  <2>1. rxClosed[s] /\ filter[s] # None
    BY <1>4, FilterAssumption DEF StreamInv, VisitsUnderLock, BornFiltered
  <2>2. AsMessages(<<>>) = <<>>
    BY DEF AsMessages
  <2>3. [r \in Subscriptions |-> AsMessages(queue'[r])]
           = [[r \in Subscriptions |-> AsMessages(queue[r])] EXCEPT ![s] = <<>>]
    BY <1>1, <1>2, <1>4, <2>2
  <2>4. Stream!Discard(s)
    BY <1>1, <1>2, <2>1, <2>3 DEF Stream!Discard
  <2> QED
    BY <2>4 DEF Stream!StreamNext
<1> QED
  BY <1>1, <1>3, <1>4

LEMMA BusStepIsStreamStep ==
  ASSUME StreamInv, [Next]_vars
  PROVE  [Stream!StreamNext]_(Stream!streamVars)
<1>1. ASSUME NEW p \in Publishers, NEW e \in Events, BeginPublish(p, e)
      PROVE  UNCHANGED Stream!streamVars
  BY <1>1, Unseen DEF BeginPublish, chanVars, subVars
<1>2. ASSUME NEW p \in Publishers, NEW s \in Subscriptions,
             Skip(p, s) \/ FindClosed(p, s)
      PROVE  UNCHANGED Stream!streamVars
  BY <1>2, Unseen DEF Skip, FindClosed, chanVars, subVars, hist
<1>3. ASSUME NEW p \in Publishers
      PROVE  CountMissed(p) \/ EndVisit(p) \/ Purge(p)
                => UNCHANGED Stream!streamVars
  BY Unseen DEF CountMissed, EndVisit, Purge, chanVars, subVars, hist
<1>4. ASSUME NEW s \in Subscriptions,
             \/ NextEventClosed(s) \/ BeginReceive(s)
             \/ ReceiveEnd(s) \/ Cancel(s)
      PROVE  UNCHANGED Stream!streamVars
  <2>1. /\ UNCHANGED <<filter, queue, rxClosed, delivered, dropped, reported>>
        /\ task[s] # "unborn"
        /\ \/ task' = task
           \/ task' = [task EXCEPT ![s] = "idle"]
           \/ task' = [task EXCEPT ![s] = "receiving"]
    BY <1>4 DEF NextEventClosed, BeginReceive, ReceiveEnd, Cancel, chanVars, hist
  <2>2. \A r \in Subscriptions : task'[r] = "unborn" <=> task[r] = "unborn"
    BY <2>1 DEF StreamInv, OrderInv, TypeOK
  <2> QED
    BY <2>1, <2>2, Unseen
<1>5. CASE DropBus \/ UNCHANGED vars
  BY <1>5, Unseen DEF DropBus, vars, chanVars, subVars, hist
<1> QED
  BY <1>1, <1>2, <1>3, <1>4, <1>5, SendIsAccept, FullIsMiss, SubscribeIsOpen,
     ReceiveIsDeliver, ReportIsTell, ClosingIsShut, DetachIsDiscard
     DEF Next, PublishStep, Visit, Consume

\* Each subscription is a lossy stream, whatever the publishers, the other
\* subscriptions and the end of the bus do to the table (memory.rs:72-117,
\* 184-216), for any number of them, any filters and any capacity.
THEOREM BusImplementsStream == Spec => ImplementsStream
<1>1. Init => Stream!StreamInit
  <2>1. AsMessages(<<>>) = <<>>
    BY DEF AsMessages
  <2> QED
    BY <2>1 DEF Init, Stream!StreamInit
<1> QED
  BY <1>1, InitStreamInv, NextStreamInv, BusStepIsStreamStep, PTL
     DEF Spec, ImplementsStream, Stream!StreamSpec

=============================================================================
