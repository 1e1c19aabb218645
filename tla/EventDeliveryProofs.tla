------------------------ MODULE EventDeliveryProofs ------------------------
(***************************************************************************)
(* Theorems about dispatching to the store and the bus and listening to    *)
(* both, for any calls, retries, sessions and clients, batches of any size *)
(* and queues of any capacity.                                             *)
(***************************************************************************)
EXTENDS EventDelivery, SelectionProofs

-----------------------------------------------------------------------------
Sent == [by : Calls, num : Nat, event : Events]

DeliveryTypes ==
    /\ action \in Assignments
    /\ pc \in [Calls -> {"idle", "store", "publish", "ok", "failed"}]
    /\ batch \in [Calls -> Seq(Events)]
    /\ appended \in [Calls -> Nat]
    /\ announced \in [Calls -> Nat]
    /\ todo \in [Calls -> (SUBSET Clients) \cup {None}]
    /\ phase \in [Clients -> {"off", "replaying", "live", "gone"}]
    /\ log \in Seq(Events)
    /\ wants \in [Clients -> {QueryOf(k) : k \in Clients} \cup {None}]
    /\ place \in [Clients -> Nat]
    /\ seen \in [Clients -> Seq(Events)]
    /\ open \in SUBSET Clients
    /\ wanted \in [Clients -> {FilterOf(k) : k \in Clients} \cup {None}]
    /\ buffer \in [Clients -> Seq(Sent)]
    /\ got \in [Clients -> Seq(Sent)]
    /\ lost \in [Clients -> Nat]
    /\ told \in [Clients -> Nat]

\* The batch of a call: its events are its own, and it has published none
\* before it has appended all.
BatchOK(c) ==
    /\ \A i \in DOMAIN batch[c] : /\ batch[c][i].id = EventId(c, action[c], i)
                                  /\ batch[c][i].action = action[c].id
    /\ appended[c] <= Len(batch[c])
    /\ pc[c] = "idle" => batch[c] = <<>>
    /\ pc[c] \in {"idle", "store"} => announced[c] = 0 /\ todo[c] = None
    /\ pc[c] = "publish" => appended[c] = Len(batch[c])
    /\ todo[c] # None => pc[c] = "publish" /\ announced[c] < Len(batch[c])

\* Nothing is in the log but what calls have appended.
Logged ==
    \A i \in DOMAIN log : \E c \in Calls : \E j \in 1..appended[c] :
        log[i] = batch[c][j]

\* The n-th event of a call has been offered to a client, or never will be.
Offered(c, k, n) ==
    \/ n <= announced[c]
    \/ n = announced[c] + 1 /\ todo[c] # None /\ k \notin todo[c]

\* What a client has been given of the log, up to its place in it.
Replayed(k) ==
    /\ place[k] <= Len(log)
    /\ \A i \in 1..place[k] : Concerns(log[i], k) => log[i] \in Range(seen[k])

\* Where a client is in using the interface.
Using(k) ==
    /\ told[k] <= lost[k]
    /\ phase[k] = "off" => place[k] = 0
    /\ phase[k] # "off" => wants[k] = QueryOf(k)
    /\ phase[k] \in {"replaying", "live"} => k \in open /\ wanted[k] = FilterOf(k)

\* A client has only what it has been offered.
SentOnce(k) ==
    \A m \in Range(got[k]) \cup Range(buffer[k]) : Offered(m.by, k, m.num)

\* An event may still reach a client, or it knows that it has to ask for it.
Reachable(e, k) ==
    \/ e \in Known(k) \cup Buffered(k)
    \/ lost[k] > told[k]
    \/ \E c \in Calls : e \in Unoffered(c, k)

NoGap(k) ==
    phase[k] = "live" =>
        \A e \in Range(log) : Concerns(e, k) => Reachable(e, k)

InLog(a) == {i \in DOMAIN log : log[i].action = a}

Counted ==
    \A a \in ActionIds :
        /\ IsFiniteSet(InLog(a)) /\ IsFiniteSet(AppendedFor(a))
        /\ Cardinality(InLog(a)) = Cardinality(AppendedFor(a))

DeliveryInv ==
    /\ DeliveryTypes
    /\ \A c \in Calls : BatchOK(c)
    /\ Logged
    /\ \A k \in Clients : Using(k) /\ Replayed(k) /\ SentOnce(k) /\ NoGap(k)
    /\ Counted

-----------------------------------------------------------------------------
\* What a sequence holds after the steps of a queue.
LEMMA RangeIs ==
  ASSUME NEW V, NEW s \in Seq(V)
  PROVE  /\ Range(s) \subseteq V
         /\ \A i \in DOMAIN s : s[i] \in Range(s)
         /\ \A v \in Range(s) : \E i \in DOMAIN s : v = s[i]
         /\ DOMAIN s = 1..Len(s) /\ Len(s) \in Nat
BY DEF Range

LEMMA RangeAppend ==
  ASSUME NEW V, NEW s \in Seq(V), NEW v \in V
  PROVE  Range(Append(s, v)) = Range(s) \cup {v}
<1>1. PICK t : t = Append(s, v)
  OBVIOUS
<1>2. /\ t \in Seq(V) /\ Len(t) = Len(s) + 1 /\ Len(s) \in Nat
      /\ \A i \in 1..Len(s) : t[i] = s[i]
      /\ t[Len(s) + 1] = v
      /\ DOMAIN t = 1..Len(t) /\ DOMAIN s = 1..Len(s)
  BY <1>1
<1>3. Range(t) \subseteq Range(s) \cup {v}
  BY <1>2 DEF Range
<1>4. Range(s) \subseteq Range(t)
  BY <1>2 DEF Range
<1>5. v \in Range(t)
  BY <1>2 DEF Range
<1> QED
  BY <1>1, <1>3, <1>4, <1>5

LEMMA RangeConcat ==
  ASSUME NEW V, NEW s \in Seq(V), NEW u \in Seq(V)
  PROVE  Range(s) \cup Range(u) \subseteq Range(s \o u)
<1>1. PICK t : t = s \o u
  OBVIOUS
<1>2. /\ Len(t) = Len(s) + Len(u) /\ Len(s) \in Nat /\ Len(u) \in Nat
      /\ DOMAIN t = 1..Len(t) /\ DOMAIN s = 1..Len(s) /\ DOMAIN u = 1..Len(u)
      /\ \A i \in 1..Len(s) : t[i] = s[i]
      /\ \A i \in 1..Len(u) : t[Len(s) + i] = u[i]
  BY <1>1
<1>3. Range(s) \subseteq Range(t)
  BY <1>2 DEF Range
<1>4. Range(u) \subseteq Range(t)
  <2> SUFFICES ASSUME NEW i \in 1..Len(u) PROVE u[i] \in Range(t)
    BY <1>2 DEF Range
  <2>1. Len(s) + i \in DOMAIN t /\ t[Len(s) + i] = u[i]
    BY <1>2
  <2> QED
    BY <2>1 DEF Range
<1> QED
  BY <1>1, <1>3, <1>4

LEMMA RangeTail ==
  ASSUME NEW V, NEW s \in Seq(V), s # <<>>
  PROVE  /\ Head(s) \in V /\ Tail(s) \in Seq(V)
         /\ Head(s) \in Range(s)
         /\ Range(s) \subseteq Range(Tail(s)) \cup {Head(s)}
         /\ Range(Tail(s)) \subseteq Range(s)
<1>1. PICK t : t = Tail(s)
  OBVIOUS
<1>2. /\ t \in Seq(V) /\ Len(s) \in Nat /\ Len(s) > 0 /\ Len(t) = Len(s) - 1
      /\ DOMAIN t = 1..Len(t) /\ DOMAIN s = 1..Len(s)
      /\ \A i \in 1..Len(t) : t[i] = s[i + 1]
      /\ Head(s) = s[1] /\ s[1] \in V
  BY <1>1
<1>3. Range(t) \subseteq Range(s)
  BY <1>2 DEF Range
<1>4. s[1] \in Range(s)
  BY <1>2 DEF Range
<1>5. Range(s) \subseteq Range(t) \cup {s[1]}
  <2> SUFFICES ASSUME NEW i \in 1..Len(s), i # 1 PROVE s[i] \in Range(t)
    BY <1>2 DEF Range
  <2>1. i - 1 \in DOMAIN t /\ t[i - 1] = s[i]
    BY <1>2
  <2> QED
    BY <2>1 DEF Range
<1> QED
  BY <1>1, <1>2, <1>3, <1>4, <1>5

-----------------------------------------------------------------------------
\* The store and the bus have the operators of this module.
LEMMA SameOperators ==
  /\ \A s : Store!Range(s) = Range(s) /\ Bus!Range(s) = Range(s)
  /\ \A f, e : Bus!Matches(f, e) <=> Matches(f, e)
  /\ \A k \in Clients : \A e : Store!QueryMatches(QueryOf(k), e) <=> Concerns(e, k)
BY DEF Range, Store!Range, Bus!Range, Matches, Bus!Matches, Accepts, Bus!Accepts,
       AcceptsType, Bus!AcceptsType, Store!QueryMatches, Store!Matches,
       Store!Accepts, Store!AcceptsType, Store!Occurred, Concerns, QueryOf,
       FilterOf, ForSession, AllQuery, AllFilter

\* The events of a call that a client has not been offered yet.
LEMMA UnofferedIs ==
  ASSUME NEW c \in Calls, NEW k \in Clients,
         announced[c] \in Nat, batch[c] \in Seq(Events)
  PROVE  \A e : e \in Unoffered(c, k) <=>
               \E j \in DOMAIN batch[c] : ~Offered(c, k, j) /\ e = batch[c][j]
<1>1. DOMAIN batch[c] \subseteq Nat
  OBVIOUS
<1>2. \A j \in DOMAIN batch[c] :
         ~Offered(c, k, j) <=>
            /\ j > announced[c]
            /\ todo[c] # None /\ j = announced[c] + 1 => k \in todo[c]
  BY <1>1 DEF Offered
<1> QED
  BY <1>2 DEF Unoffered

LEMMA StillUnoffered ==
  ASSUME NEW c \in Calls, NEW k \in Clients,
         (announced[c])' \in Nat, (batch[c])' \in Seq(Events),
         NEW j \in (DOMAIN batch[c])', ~Offered(c, k, j)'
  PROVE  (batch[c][j])' \in Unoffered(c, k)'
<1>1. j \in Nat
  OBVIOUS
<1>2. /\ j > announced'[c]
      /\ todo'[c] # None /\ j = announced'[c] + 1 => k \in todo'[c]
  BY <1>1 DEF Offered
<1> QED
  BY <1>2 DEF Unoffered

\* What a client knows or has in its queue is what it has been sent.
LEMMA KnownIs ==
  ASSUME NEW k
  PROVE  \A e : e \in Known(k) \cup Buffered(k) <=>
              \/ e \in Range(seen[k])
              \/ \E m \in Range(got[k]) \cup Range(buffer[k]) : e = m.event
BY DEF Known, Buffered

\* A step of one call that leaves the store and the bus alone.
LEMMA CallStep ==
  ASSUME DeliveryInv, UNCHANGED <<storeVars, busVars, action, phase, appended>>,
         NEW c \in Calls, BatchOK(c)',
         pc' \in [Calls -> {"idle", "store", "publish", "ok", "failed"}],
         batch' \in [Calls -> Seq(Events)],
         announced' \in [Calls -> Nat],
         todo' \in [Calls -> (SUBSET Clients) \cup {None}],
         \A d \in Calls \ {c} :
            UNCHANGED <<pc[d], batch[d], announced[d], todo[d]>>,
         batch'[c] = batch[c] \/ batch[c] = <<>>,
         \A k \in Clients, n \in Nat : Offered(c, k, n) => Offered(c, k, n)',
         \A k \in open : \A n \in DOMAIN batch[c] : Offered(c, k, n)' => Offered(c, k, n)
  PROVE  DeliveryInv'
<1>1. /\ epoch' = epoch /\ log' = log /\ wants' = wants /\ place' = place
      /\ seen' = seen /\ reads' = reads
      /\ open' = open /\ wanted' = wanted /\ buffer' = buffer /\ got' = got
      /\ lost' = lost /\ told' = told
      /\ action' = action /\ phase' = phase /\ appended' = appended
  BY DEF storeVars, busVars
<1>2. DeliveryTypes /\ DeliveryTypes'
  BY <1>1 DEF DeliveryInv, DeliveryTypes
<1>3. \A d \in Calls : BatchOK(d)'
  <2>1. ASSUME NEW d \in Calls \ {c} PROVE BatchOK(d)'
    <3>1. BatchOK(d)
      BY DEF DeliveryInv
    <3>2. /\ pc'[d] = pc[d] /\ batch'[d] = batch[d]
          /\ announced'[d] = announced[d] /\ todo'[d] = todo[d]
      OBVIOUS
    <3> QED
      BY <1>1, <3>1, <3>2 DEF BatchOK
  <2> QED
    BY <2>1
<1>4. Logged'
  <2> SUFFICES ASSUME NEW i \in DOMAIN log
               PROVE  \E d \in Calls : \E j \in 1..appended[d] : log[i] = batch'[d][j]
    BY <1>1 DEF Logged
  <2>0. PICK d \in Calls : \E j \in 1..appended[d] : log[i] = batch[d][j]
    BY DEF DeliveryInv, Logged
  <2>1. PICK j \in 1..appended[d] : log[i] = batch[d][j]
    BY <2>0
  <2>2. CASE batch'[d] = batch[d]
    BY <2>1, <2>2
  <2>3. CASE d = c /\ batch[c] = <<>>
    <3>1. appended[c] <= Len(batch[c]) /\ appended[c] \in Nat
      BY <1>2 DEF DeliveryInv, BatchOK, DeliveryTypes
    <3>2. Len(batch[c]) = 0
      BY <2>3
    <3> QED
      BY <2>1, <2>3, <3>1, <3>2
  <2> QED
    BY <2>2, <2>3
<1>5. ASSUME NEW k \in Clients
      PROVE  Using(k)' /\ Replayed(k)' /\ SentOnce(k)' /\ NoGap(k)'
  <2>1. Using(k) /\ Replayed(k) /\ SentOnce(k) /\ NoGap(k)
    BY DEF DeliveryInv
  <2>2. Using(k)' /\ Replayed(k)'
    BY <1>1, <2>1 DEF Using, Replayed, Concerns
  <2>3. \A d \in Calls, n \in Nat : Offered(d, k, n) => Offered(d, k, n)'
    <3>1. ASSUME NEW d \in Calls \ {c}, NEW n \in Nat
          PROVE  Offered(d, k, n) => Offered(d, k, n)'
      BY DEF Offered
    <3> QED
      BY <3>1
  <2>4. SentOnce(k)'
    <3> SUFFICES ASSUME NEW m \in Range(got[k]) \cup Range(buffer[k])
                 PROVE  Offered(m.by, k, m.num)'
      BY <1>1 DEF SentOnce
    <3>1. got[k] \in Seq(Sent) /\ buffer[k] \in Seq(Sent)
      BY <1>2 DEF DeliveryTypes
    <3>2. Range(got[k]) \subseteq Sent /\ Range(buffer[k]) \subseteq Sent
      BY <3>1, RangeIs
    <3>3. m.by \in Calls /\ m.num \in Nat
      BY <3>2 DEF Sent
    <3>4. Offered(m.by, k, m.num)
      BY <2>1 DEF SentOnce
    <3> QED
      BY <2>3, <3>3, <3>4
  <2>5. NoGap(k)'
    <3> SUFFICES ASSUME phase[k] = "live", NEW e \in Range(log), Concerns(e, k)
                 PROVE  Reachable(e, k)'
      BY <1>1 DEF NoGap, Concerns
    <3>1. k \in open
      BY <2>1 DEF Using
    <3>2. Reachable(e, k)
      BY <2>1 DEF NoGap
    <3>3. CASE e \in Known(k) \cup Buffered(k) \/ lost[k] > told[k]
      BY <1>1, <3>3 DEF Reachable, Known, Buffered
    <3>4. ASSUME NEW d \in Calls, e \in Unoffered(d, k) PROVE e \in Unoffered(d, k)'
      <4>1. announced[d] \in Nat /\ batch[d] \in Seq(Events)
        BY <1>2 DEF DeliveryTypes
      <4>2. announced'[d] \in Nat /\ batch'[d] \in Seq(Events)
        BY <1>2 DEF DeliveryTypes
      <4>3. PICK j \in DOMAIN batch[d] : ~Offered(d, k, j) /\ e = batch[d][j]
        BY <3>4, <4>1, UnofferedIs
      <4>4. batch'[d] = batch[d]
        BY <4>3
      <4>5. ~Offered(d, k, j)'
        <5>1. CASE d = c
          BY <3>1, <4>3, <5>1
        <5>2. CASE d # c
          BY <4>3, <5>2 DEF Offered
        <5> QED
          BY <5>1, <5>2
      <4> QED
        BY <4>2, <4>3, <4>4, <4>5, StillUnoffered
    <3> QED
      BY <3>2, <3>3, <3>4 DEF Reachable
  <2> QED
    BY <2>1, <2>2, <2>4, <2>5
<1>6. Counted'
  <2>1. \A a : InLog(a)' = InLog(a) /\ AppendedFor(a)' = AppendedFor(a)
    BY <1>1 DEF InLog, AppendedFor
  <2> QED
    BY <2>1 DEF DeliveryInv, Counted
<1> QED
  BY <1>2, <1>3, <1>4, <1>5, <1>6 DEF DeliveryInv

-----------------------------------------------------------------------------
\* What a call may make of its drafts are events.
LEMMA EventsHas ==
  ASSUME NEW c \in Calls, NEW a \in Assignments, NEW i \in 1..MaxBatch[c],
         NEW d \in Drafts, NEW now \in Now
  PROVE  EventOf(c, a[c], i, d, now) \in Events
<1> DEFINE Of(x, y) == {EventOf(x, y[x], n, draft, time) :
                           n \in 1..MaxBatch[x], draft \in Drafts, time \in Now}
<1>1. EventOf(c, a[c], i, d, now) \in Of(c, a)
  OBVIOUS
<1>2. Events = UNION {Of(x, y) : x \in Calls, y \in Assignments}
  BY DEF Events
<1> HIDE DEF Of
<1> QED
  BY <1>1, <1>2

\* The steps of a call between its appends and its offers.
LEMMA HandleInv ==
  ASSUME DeliveryInv, NEW c \in Calls, Handle(c)
  PROVE  DeliveryInv'
<1>1. PICK n \in 0..MaxBatch[c] : \E drafts \in [1..n -> Drafts] : \E now \in Now :
          batch' = [batch EXCEPT ![c] =
                       [i \in 1..n |-> EventOf(c, action[c], i, drafts[i], now)]]
  BY DEF Handle
<1>2. PICK drafts \in [1..n -> Drafts], now \in Now :
          batch' = [batch EXCEPT ![c] =
                       [i \in 1..n |-> EventOf(c, action[c], i, drafts[i], now)]]
  BY <1>1
<1>3. PICK b : b = [i \in 1..n |-> EventOf(c, action[c], i, drafts[i], now)]
  OBVIOUS
<1>4. /\ pc[c] = "idle" /\ pc' = [pc EXCEPT ![c] = "store"]
      /\ UNCHANGED <<storeVars, busVars, action, appended, announced, todo, phase>>
  BY DEF Handle
<1>5. DeliveryTypes /\ BatchOK(c)
  BY DEF DeliveryInv
<1>6. n \in Nat /\ n <= MaxBatch[c] /\ MaxBatch[c] \in Nat
  BY DeliveryAssumption
<1>7. b \in Seq(Events)
  <2> SUFFICES ASSUME NEW i \in 1..n PROVE b[i] \in Events
    BY <1>3, <1>6
  <2>1. drafts[i] \in Drafts /\ i \in 1..MaxBatch[c]
    BY <1>6
  <2>2. EventOf(c, action[c], i, drafts[i], now) \in Events
    BY <1>5, <2>1, EventsHas DEF DeliveryTypes
  <2> QED
    BY <1>3, <2>2
<1>8. Len(b) = n /\ DOMAIN b = 1..n
  BY <1>3, <1>6
<1>9. batch' = [batch EXCEPT ![c] = b] /\ batch' \in [Calls -> Seq(Events)]
  BY <1>2, <1>3, <1>5, <1>7 DEF DeliveryTypes
<1>10. batch'[c] = b /\ batch[c] = <<>> /\ pc'[c] = "store"
  BY <1>4, <1>5, <1>9 DEF DeliveryTypes, BatchOK
<1>11. appended[c] = 0
  BY <1>5, <1>10 DEF DeliveryTypes, BatchOK
<1>12. BatchOK(c)'
  <2>1. ASSUME NEW i \in DOMAIN b
        PROVE  b[i].id = EventId(c, action[c], i) /\ b[i].action = action[c].id
    BY <1>3, <1>8 DEF EventOf, Materialize
  <2>2. appended'[c] <= Len(b)
    BY <1>4, <1>6, <1>8, <1>11
  <2> QED
    BY <1>4, <1>5, <1>10, <2>1, <2>2 DEF BatchOK
<1>13. \A d \in Calls \ {c} : UNCHANGED <<pc[d], batch[d], announced[d], todo[d]>>
  BY <1>4, <1>5, <1>9 DEF DeliveryTypes
<1>14. \A k, i : Offered(c, k, i)' <=> Offered(c, k, i)
  BY <1>4 DEF Offered
<1>15. /\ pc' \in [Calls -> {"idle", "store", "publish", "ok", "failed"}]
       /\ announced' \in [Calls -> Nat]
       /\ todo' \in [Calls -> (SUBSET Clients) \cup {None}]
  BY <1>4, <1>5 DEF DeliveryTypes
<1> QED
  BY <1>4, <1>9, <1>10, <1>12, <1>13, <1>14, <1>15, CallStep

LEMMA GoInv ==
  ASSUME DeliveryInv, NEW c \in Calls, StartPublishing(c) \/ Succeed(c) \/ Fail(c)
  PROVE  DeliveryInv'
<1>1. PICK t \in {"publish", "ok", "failed"} :
         /\ pc' = [pc EXCEPT ![c] = t]
         /\ t = "publish" => pc[c] = "store" /\ AllIsStored(c)
         /\ t # "publish" => pc[c] \in {"store", "publish"}
         /\ t = "ok" => announced[c] = Len(batch[c])
         /\ t = "failed" => todo[c] = None
  BY DEF StartPublishing, Succeed, Fail
<1>2. UNCHANGED <<storeVars, busVars, action, batch, appended, announced, todo, phase>>
  BY DEF StartPublishing, Succeed, Fail
<1>3. DeliveryTypes /\ BatchOK(c)
  BY DEF DeliveryInv
<1>4. /\ pc'[c] = t
      /\ pc' \in [Calls -> {"idle", "store", "publish", "ok", "failed"}]
  BY <1>1, <1>3 DEF DeliveryTypes
<1>5. todo[c] = None
  <2>1. announced[c] \in Nat /\ Len(batch[c]) \in Nat
    BY <1>3 DEF DeliveryTypes
  <2> QED
    BY <1>1, <1>3, <2>1 DEF BatchOK
<1>6. BatchOK(c)'
  BY <1>1, <1>2, <1>3, <1>4, <1>5 DEF BatchOK, AllIsStored
<1>7. \A d \in Calls \ {c} : UNCHANGED <<pc[d], batch[d], announced[d], todo[d]>>
  BY <1>1, <1>2, <1>3 DEF DeliveryTypes
<1>8. \A k, i : Offered(c, k, i)' <=> Offered(c, k, i)
  BY <1>2 DEF Offered
<1>9. /\ batch' \in [Calls -> Seq(Events)]
      /\ announced' \in [Calls -> Nat]
      /\ todo' \in [Calls -> (SUBSET Clients) \cup {None}]
      /\ batch'[c] = batch[c]
  BY <1>2, <1>3 DEF DeliveryTypes
<1> QED
  BY <1>2, <1>4, <1>6, <1>7, <1>8, <1>9, CallStep

LEMMA BeginPublishInv ==
  ASSUME DeliveryInv, NEW c \in Calls, BeginPublish(c)
  PROVE  DeliveryInv'
<1>1. /\ pc[c] = "publish" /\ todo[c] = None /\ announced[c] < Len(batch[c])
      /\ todo' = [todo EXCEPT ![c] = open]
      /\ UNCHANGED <<storeVars, busVars, action, pc, batch, appended, announced, phase>>
  BY DEF BeginPublish, Table
<1>2. DeliveryTypes /\ BatchOK(c)
  BY DEF DeliveryInv
<1>3. open \in SUBSET Clients
  BY <1>2 DEF DeliveryTypes
<1>4. open # None
  BY <1>3, DeliveryAssumption
<1>5. /\ todo' \in [Calls -> (SUBSET Clients) \cup {None}] /\ todo'[c] = open
      /\ \A d \in Calls \ {c} : todo'[d] = todo[d]
  BY <1>1, <1>2, <1>3 DEF DeliveryTypes
<1>6. BatchOK(c)'
  BY <1>1, <1>2, <1>5 DEF BatchOK
<1>7. \A k, n : Offered(c, k, n) => Offered(c, k, n)'
  BY <1>1 DEF Offered
<1>8. \A k \in open : \A n : Offered(c, k, n)' => Offered(c, k, n)
  BY <1>1, <1>5 DEF Offered
<1>9. /\ pc' \in [Calls -> {"idle", "store", "publish", "ok", "failed"}]
      /\ batch' \in [Calls -> Seq(Events)]
      /\ announced' \in [Calls -> Nat]
      /\ batch'[c] = batch[c]
      /\ \A d \in Calls \ {c} : UNCHANGED <<pc[d], batch[d], announced[d], todo[d]>>
  BY <1>1, <1>2, <1>5 DEF DeliveryTypes
<1> QED
  BY <1>1, <1>5, <1>6, <1>7, <1>8, <1>9, CallStep

LEMMA EndPublishInv ==
  ASSUME DeliveryInv, NEW c \in Calls, EndPublish(c)
  PROVE  DeliveryInv'
<1>1. /\ todo[c] = {}
      /\ todo' = [todo EXCEPT ![c] = None]
      /\ announced' = [announced EXCEPT ![c] = @ + 1]
      /\ UNCHANGED <<storeVars, busVars, action, pc, batch, appended, phase>>
  BY DEF EndPublish
<1>2. DeliveryTypes /\ BatchOK(c)
  BY DEF DeliveryInv
<1>3. todo[c] # None
  BY <1>1, DeliveryAssumption
<1>4. announced[c] \in Nat /\ Len(batch[c]) \in Nat
  BY <1>2 DEF DeliveryTypes
<1>5. /\ todo' \in [Calls -> (SUBSET Clients) \cup {None}] /\ todo'[c] = None
      /\ announced' \in [Calls -> Nat] /\ announced'[c] = announced[c] + 1
      /\ \A d \in Calls \ {c} : todo'[d] = todo[d] /\ announced'[d] = announced[d]
  BY <1>1, <1>2 DEF DeliveryTypes
<1>6. BatchOK(c)'
  BY <1>1, <1>2, <1>3, <1>4, <1>5 DEF BatchOK
<1>7. \A k, n : n \in Nat => (Offered(c, k, n)' <=> Offered(c, k, n))
  BY <1>1, <1>3, <1>4, <1>5 DEF Offered
<1>8. DOMAIN batch[c] \subseteq Nat
  BY <1>2 DEF DeliveryTypes
<1>9. /\ pc' \in [Calls -> {"idle", "store", "publish", "ok", "failed"}]
      /\ batch' \in [Calls -> Seq(Events)]
      /\ batch'[c] = batch[c]
      /\ \A d \in Calls \ {c} : UNCHANGED <<pc[d], batch[d], announced[d], todo[d]>>
  BY <1>1, <1>2, <1>5 DEF DeliveryTypes
<1>10. \A k \in open : \A n \in DOMAIN batch[c] : Offered(c, k, n)' => Offered(c, k, n)
  BY <1>7, <1>8
<1> QED
  BY <1>1, <1>5, <1>6, <1>7, <1>9, <1>10, CallStep

-----------------------------------------------------------------------------
\* The identity of the event a call appends is that of none in the log.
LEMMA NextIsFresh ==
  ASSUME DeliveryInv, NEW c \in Calls, pc[c] = "store", appended[c] < Len(batch[c])
  PROVE  \A f \in Range(log) : f.id # (batch[c][appended[c] + 1]).id
<1> SUFFICES ASSUME NEW f \in Range(log) PROVE f.id # (batch[c][appended[c] + 1]).id
  OBVIOUS
<1>1. DeliveryTypes
  BY DEF DeliveryInv
<1>2. \A d \in Calls : /\ appended[d] \in Nat /\ Len(batch[d]) \in Nat
                       /\ DOMAIN batch[d] = 1..Len(batch[d])
                       /\ appended[d] <= Len(batch[d])
                       /\ \A i \in DOMAIN batch[d] : batch[d][i].id = <<d, i>>
  BY <1>1 DEF DeliveryInv, DeliveryTypes, BatchOK, EventId
<1>3. PICK i \in DOMAIN log : f = log[i]
  BY <1>1, RangeIs DEF DeliveryTypes
<1>4. PICK d \in Calls : \E j \in 1..appended[d] : f = batch[d][j]
  BY <1>3 DEF DeliveryInv, Logged
<1>5. PICK j \in 1..appended[d] : f = batch[d][j]
  BY <1>4
<1>6. f.id = <<d, j>>
  <2>1. j \in DOMAIN batch[d]
    BY <1>2, <1>5
  <2> QED
    BY <1>2, <1>5, <2>1
<1>7. (batch[c][appended[c] + 1]).id = <<c, appended[c] + 1>>
  <2>1. appended[c] + 1 \in DOMAIN batch[c]
    BY <1>2
  <2> QED
    BY <1>2, <2>1
<1>8. j # appended[c] + 1 \/ d # c
  BY <1>2, <1>5
<1> QED
  BY <1>6, <1>7, <1>8

\* What an append does to the log and to what is counted.
LEMMA AppendIs ==
  ASSUME DeliveryInv, NEW c \in Calls, AppendNext(c)
  PROVE  \E e \in Events :
            /\ e = batch[c][appended[c] + 1]
            /\ appended[c] + 1 \in DOMAIN batch[c]
            /\ e.action = action[c].id
            /\ log' = Append(log, e)
            /\ appended' = [appended EXCEPT ![c] = @ + 1]
            /\ UNCHANGED <<epoch, wants, place, seen, reads>>
            /\ UNCHANGED <<busVars, action, pc, batch, announced, todo, phase>>
<1>1. PICK e : e = batch[c][appended[c] + 1]
  OBVIOUS
<1>2. /\ pc[c] = "store" /\ appended[c] < Len(batch[c])
      /\ appended' = [appended EXCEPT ![c] = @ + 1]
      /\ IF e \in Range(log) THEN UNCHANGED storeVars ELSE Store!Record(e)
      /\ UNCHANGED <<busVars, action, pc, batch, announced, todo, phase>>
  BY <1>1 DEF AppendNext
<1>3. e \notin Range(log)
  BY <1>1, <1>2, NextIsFresh
<1>4. Store!Record(e)
  BY <1>2, <1>3
<1>5. log' = Append(log, e) /\ UNCHANGED <<epoch, wants, place, seen, reads>>
  BY <1>4 DEF Store!Record, Store!readerVars
<1>6. /\ batch[c] \in Seq(Events) /\ appended[c] \in Nat
      /\ \A i \in DOMAIN batch[c] : (batch[c][i]).action = action[c].id
  BY DEF DeliveryInv, DeliveryTypes, BatchOK
<1>7. appended[c] + 1 \in DOMAIN batch[c]
  BY <1>2, <1>6
<1>8. e \in Events /\ e.action = action[c].id
  BY <1>1, <1>6, <1>7
<1> QED
  BY <1>1, <1>2, <1>5, <1>7, <1>8

LEMMA AppendCounted ==
  ASSUME DeliveryInv, NEW c \in Calls, AppendNext(c)
  PROVE  Counted'
<1>1. PICK e \in Events :
            /\ e = batch[c][appended[c] + 1]
            /\ appended[c] + 1 \in DOMAIN batch[c]
            /\ e.action = action[c].id
            /\ log' = Append(log, e)
            /\ appended' = [appended EXCEPT ![c] = @ + 1]
            /\ UNCHANGED <<epoch, wants, place, seen, reads>>
            /\ UNCHANGED <<busVars, action, pc, batch, announced, todo, phase>>
  BY AppendIs
<1>2. DeliveryTypes
  BY DEF DeliveryInv
<1>3. PICK n : n = Len(log) + 1
  OBVIOUS
<1>4. /\ n \in Nat /\ DOMAIN log = 1..(n - 1) /\ DOMAIN log' = 1..n
      /\ log'[n] = e /\ \A i \in DOMAIN log : log'[i] = log[i]
  BY <1>1, <1>2, <1>3 DEF DeliveryTypes
<1>5. PICK m : m = appended[c] + 1
  OBVIOUS
<1>6. /\ appended[c] \in Nat /\ m \in Nat
      /\ \A d \in Calls : appended'[d] = IF d = c THEN m ELSE appended[d]
  BY <1>1, <1>2, <1>5 DEF DeliveryTypes
<1> SUFFICES ASSUME NEW a \in ActionIds
             PROVE  /\ IsFiniteSet(InLog(a)') /\ IsFiniteSet(AppendedFor(a)')
                    /\ Cardinality(InLog(a)') = Cardinality(AppendedFor(a)')
  BY DEF Counted
<1>7. /\ IsFiniteSet(InLog(a)) /\ IsFiniteSet(AppendedFor(a))
      /\ Cardinality(InLog(a)) = Cardinality(AppendedFor(a))
  BY DEF DeliveryInv, Counted
<1>8. InLog(a)' = {i \in DOMAIN log' : (log'[i]).action = a}
  BY DEF InLog
<1>9. \A x, y : <<x, y>> \in AppendedFor(a) <=>
                  x \in Calls /\ action[x].id = a /\ y \in 1..appended[x]
  BY DEF AppendedFor
<1>10. \A x, y : <<x, y>> \in AppendedFor(a)' <=>
                  x \in Calls /\ action[x].id = a /\ y \in 1..appended'[x]
  BY <1>1 DEF AppendedFor
<1>11. \A x : x \in AppendedFor(a) \/ x \in AppendedFor(a)' => x = <<x[1], x[2]>>
  BY DEF AppendedFor
<1>12. CASE action[c].id = a
  <2>1. InLog(a)' = InLog(a) \cup {n}
    BY <1>1, <1>4, <1>8, <1>12 DEF InLog
  <2>2. n \notin InLog(a)
    BY <1>4 DEF InLog
  <2>3. \A x, y : <<x, y>> \in AppendedFor(a)' <=>
                     \/ <<x, y>> \in AppendedFor(a)
                     \/ x = c /\ y = m
    <3>1. \A y : y \in 1..m <=> y \in 1..appended[c] \/ y = m
      BY <1>5, <1>6
    <3>2. \A y : <<c, y>> \in AppendedFor(a)' <=> <<c, y>> \in AppendedFor(a) \/ y = m
      BY <1>6, <1>9, <1>10, <1>12, <3>1
    <3>3. \A x, y : x # c => (<<x, y>> \in AppendedFor(a)' <=> <<x, y>> \in AppendedFor(a))
      BY <1>6, <1>9, <1>10
    <3> QED
      BY <3>2, <3>3
  <2>4. AppendedFor(a)' = AppendedFor(a) \cup {<<c, m>>}
    <3>1. AppendedFor(a)' \subseteq AppendedFor(a) \cup {<<c, m>>}
      <4> SUFFICES ASSUME NEW x \in AppendedFor(a)', x \notin AppendedFor(a)
                   PROVE  x = <<c, m>>
        OBVIOUS
      <4>1. x = <<x[1], x[2]>>
        BY <1>11
      <4>2. x[1] = c /\ x[2] = m
        BY <2>3, <4>1
      <4> QED
        BY <4>1, <4>2
    <3>2. AppendedFor(a) \subseteq AppendedFor(a)'
      BY <1>11, <2>3
    <3>3. <<c, m>> \in AppendedFor(a)'
      BY <2>3
    <3> QED
      BY <3>1, <3>2, <3>3
  <2>5. <<c, m>> \notin AppendedFor(a)
    BY <1>5, <1>6, <1>9
  <2>6. /\ IsFiniteSet(InLog(a) \cup {n})
        /\ Cardinality(InLog(a) \cup {n}) = Cardinality(InLog(a)) + 1
    BY <1>7, <2>2, FS_AddElement
  <2>7. /\ IsFiniteSet(AppendedFor(a) \cup {<<c, m>>})
        /\ Cardinality(AppendedFor(a) \cup {<<c, m>>}) = Cardinality(AppendedFor(a)) + 1
    BY <1>7, <2>5, FS_AddElement
  <2> QED
    BY <1>7, <2>1, <2>4, <2>6, <2>7
<1>13. CASE action[c].id # a
  <2>1. InLog(a)' = InLog(a)
    BY <1>1, <1>4, <1>8, <1>13 DEF InLog
  <2>2. \A x, y : <<x, y>> \in AppendedFor(a)' <=> <<x, y>> \in AppendedFor(a)
    BY <1>6, <1>9, <1>10, <1>13
  <2>3. AppendedFor(a)' = AppendedFor(a)
    BY <1>11, <2>2
  <2> QED
    BY <1>7, <2>1, <2>3
<1> QED
  BY <1>12, <1>13

LEMMA AppendNextInv ==
  ASSUME DeliveryInv, NEW c \in Calls, AppendNext(c)
  PROVE  DeliveryInv'
<1>1. PICK e \in Events :
            /\ e = batch[c][appended[c] + 1]
            /\ appended[c] + 1 \in DOMAIN batch[c]
            /\ e.action = action[c].id
            /\ log' = Append(log, e)
            /\ appended' = [appended EXCEPT ![c] = @ + 1]
            /\ UNCHANGED <<epoch, wants, place, seen, reads>>
            /\ UNCHANGED <<busVars, action, pc, batch, announced, todo, phase>>
  BY AppendIs
<1>2. DeliveryTypes
  BY DEF DeliveryInv
<1>3. PICK n : n = Len(log) + 1
  OBVIOUS
<1>4. /\ n \in Nat /\ Len(log) \in Nat /\ Len(log') = n
      /\ DOMAIN log = 1..(n - 1) /\ DOMAIN log' = 1..n
      /\ log'[n] = e /\ \A i \in DOMAIN log : log'[i] = log[i]
      /\ log' \in Seq(Events)
      /\ log \in Seq(Events)
  BY <1>1, <1>2, <1>3 DEF DeliveryTypes
<1>5. PICK m : m = appended[c] + 1
  OBVIOUS
<1>6. /\ appended[c] \in Nat /\ m \in Nat
      /\ \A d \in Calls : appended'[d] = IF d = c THEN m ELSE appended[d]
      /\ appended' \in [Calls -> Nat]
  BY <1>1, <1>2, <1>5 DEF DeliveryTypes
<1>7. /\ open' = open /\ wanted' = wanted /\ buffer' = buffer /\ got' = got
      /\ lost' = lost /\ told' = told
  BY <1>1 DEF busVars
<1>8. DeliveryTypes'
  BY <1>1, <1>2, <1>4, <1>6, <1>7 DEF DeliveryTypes
<1>9. pc[c] = "store"
  BY DEF AppendNext
<1>10. \A d \in Calls : BatchOK(d)'
  <2> SUFFICES ASSUME NEW d \in Calls PROVE BatchOK(d)'
    OBVIOUS
  <2>1. BatchOK(d)
    BY DEF DeliveryInv
  <2>2. CASE d # c
    BY <1>1, <1>6, <2>1, <2>2 DEF BatchOK
  <2>3. CASE d = c
    <3>1. batch[c] \in Seq(Events)
      BY <1>2 DEF DeliveryTypes
    <3>2. m <= Len(batch[c])
      BY <1>1, <1>5, <3>1
    <3> QED
      BY <1>1, <1>6, <1>9, <2>1, <2>3, <3>2 DEF BatchOK
  <2> QED
    BY <2>2, <2>3
<1>11. Logged'
  <2> SUFFICES ASSUME NEW i \in DOMAIN log'
               PROVE  \E d \in Calls : \E j \in 1..appended'[d] : log'[i] = batch[d][j]
    BY <1>1 DEF Logged
  <2>1. CASE i = n
    <3>1. m \in 1..appended'[c] /\ log'[i] = batch[c][m]
      BY <1>1, <1>4, <1>5, <1>6, <2>1
    <3> QED
      BY <3>1
  <2>2. CASE i # n
    <3>1. i \in DOMAIN log /\ log'[i] = log[i]
      BY <1>4, <2>2
    <3>2. PICK d \in Calls : \E j \in 1..appended[d] : log[i] = batch[d][j]
      BY <3>1 DEF DeliveryInv, Logged
    <3>3. PICK j \in 1..appended[d] : log[i] = batch[d][j]
      BY <3>2
    <3>4. appended[d] \in Nat
      BY <1>2 DEF DeliveryTypes
    <3>5. j \in 1..appended'[d]
      BY <1>5, <1>6, <3>4
    <3> QED
      BY <3>1, <3>3, <3>5
  <2> QED
    BY <2>1, <2>2
<1>12. ASSUME NEW k \in Clients
       PROVE  Using(k)' /\ Replayed(k)' /\ SentOnce(k)' /\ NoGap(k)'
  <2>1. Using(k) /\ Replayed(k) /\ SentOnce(k) /\ NoGap(k)
    BY DEF DeliveryInv
  <2>2. Using(k)'
    BY <1>1, <1>7, <2>1 DEF Using
  <2>3. Replayed(k)'
    <3>1. place[k] \in Nat /\ place[k] <= Len(log)
      BY <1>2, <2>1 DEF DeliveryTypes, Replayed
    <3>2. place'[k] <= Len(log')
      BY <1>1, <1>3, <1>4, <3>1
    <3>3. ASSUME NEW i \in 1..place[k], Concerns(log'[i], k) PROVE log'[i] \in Range(seen[k])
      <4>1. i \in DOMAIN log
        BY <1>3, <1>4, <3>1
      <4>2. log'[i] = log[i]
        BY <1>4, <4>1
      <4> QED
        BY <2>1, <3>3, <4>2 DEF Replayed
    <3> QED
      BY <1>1, <3>2, <3>3 DEF Replayed, Concerns
  <2>4. \A d, j : Offered(d, k, j)' <=> Offered(d, k, j)
    BY <1>1 DEF Offered
  <2>5. SentOnce(k)'
    BY <1>7, <2>1, <2>4 DEF SentOnce
  <2>6. \A x : Reachable(x, k) => Reachable(x, k)'
    BY <1>1, <1>7 DEF Reachable, Known, Buffered, Unoffered
  <2>7. e \in Unoffered(c, k)
    <3>1. announced[c] = 0 /\ todo[c] = None
      BY <1>9 DEF DeliveryInv, BatchOK
    <3>2. m > announced[c] /\ m \in DOMAIN batch[c]
      BY <1>1, <1>5, <1>6, <3>1
    <3> QED
      BY <1>1, <1>5, <3>1, <3>2 DEF Unoffered
  <2>8. Reachable(e, k)
    BY <2>7 DEF Reachable
  <2>9. NoGap(k)'
    <3> SUFFICES ASSUME phase[k] = "live", NEW x \in Range(log'), Concerns(x, k)
                 PROVE  Reachable(x, k)'
      BY <1>1 DEF NoGap, Concerns
    <3>1. x \in Range(log) \/ x = e
      BY <1>1, <1>4, RangeAppend
    <3>2. Reachable(x, k)
      BY <2>1, <2>8, <3>1 DEF NoGap
    <3> QED
      BY <2>6, <3>2
  <2> QED
    BY <2>2, <2>3, <2>5, <2>9
<1>13. Counted'
  BY AppendCounted
<1> QED
  BY <1>8, <1>10, <1>11, <1>12, <1>13 DEF DeliveryInv

-----------------------------------------------------------------------------
\* A step that is the affair of one client, and at most of one offer to it.
LEMMA ClientStep ==
  ASSUME DeliveryInv, DeliveryTypes', NEW k \in Clients,
         UNCHANGED <<log, action, pc, batch, appended, announced>>,
         \A c \in Calls : BatchOK(c)',
         \A c \in Calls : todo'[c] = None <=> todo[c] = None,
         \A c \in Calls, j \in Clients \ {k} : j \in todo'[c] <=> j \in todo[c],
         \A j \in Clients \ {k} :
            /\ UNCHANGED <<wants[j], place[j], seen[j], phase[j]>>
            /\ UNCHANGED <<wanted[j], buffer[j], got[j], lost[j], told[j]>>
            /\ j \in open' <=> j \in open,
         Using(k)', Replayed(k)', SentOnce(k)', NoGap(k)'
  PROVE  DeliveryInv'
<1>1. Logged'
  BY DEF DeliveryInv, Logged
<1>2. Counted'
  <2>1. \A a : InLog(a)' = InLog(a) /\ AppendedFor(a)' = AppendedFor(a)
    BY DEF InLog, AppendedFor
  <2> QED
    BY <2>1 DEF DeliveryInv, Counted
<1>3. ASSUME NEW j \in Clients, j # k
      PROVE  Using(j)' /\ Replayed(j)' /\ SentOnce(j)' /\ NoGap(j)'
  <2>1. Using(j) /\ Replayed(j) /\ SentOnce(j) /\ NoGap(j)
    BY DEF DeliveryInv
  <2>2. /\ wants'[j] = wants[j] /\ place'[j] = place[j] /\ seen'[j] = seen[j]
        /\ phase'[j] = phase[j] /\ wanted'[j] = wanted[j] /\ buffer'[j] = buffer[j]
        /\ got'[j] = got[j] /\ lost'[j] = lost[j] /\ told'[j] = told[j]
        /\ j \in open' <=> j \in open
    BY <1>3
  <2>3. Using(j)'
    BY <2>1, <2>2 DEF Using
  <2>4. Replayed(j)'
    BY <2>1, <2>2 DEF Replayed, Concerns
  <2>5. \A c \in Calls : \A n : Offered(c, j, n)' <=> Offered(c, j, n)
    BY <1>3 DEF Offered
  <2>6. SentOnce(j)'
    <3> SUFFICES ASSUME NEW m \in Range(got[j]) \cup Range(buffer[j])
                 PROVE  Offered(m.by, j, m.num)'
      BY <2>2 DEF SentOnce
    <3>1. got[j] \in Seq(Sent) /\ buffer[j] \in Seq(Sent)
      BY DEF DeliveryInv, DeliveryTypes
    <3>2. Range(got[j]) \subseteq Sent /\ Range(buffer[j]) \subseteq Sent
      BY <3>1, RangeIs
    <3>3. m.by \in Calls
      BY <3>2 DEF Sent
    <3> QED
      BY <2>1, <2>5, <3>3 DEF SentOnce
  <2>7. \A c \in Calls : Unoffered(c, j)' = Unoffered(c, j)
    BY <1>3 DEF Unoffered
  <2>8. Known(j)' = Known(j) /\ Buffered(j)' = Buffered(j)
    BY <2>2 DEF Known, Buffered
  <2>9. \A e : Reachable(e, j) => Reachable(e, j)'
    BY <2>2, <2>7, <2>8 DEF Reachable
  <2>10. NoGap(j)'
    BY <2>1, <2>2, <2>9 DEF NoGap, Concerns
  <2> QED
    BY <2>3, <2>4, <2>6, <2>10
<1>4. \A j \in Clients : Using(j)' /\ Replayed(j)' /\ SentOnce(j)' /\ NoGap(j)'
  BY <1>3
<1> QED
  BY <1>1, <1>2, <1>4 DEF DeliveryInv

\* A step that leaves the calls alone.
LEMMA CallsStay ==
  ASSUME DeliveryInv, UNCHANGED <<action, pc, batch, appended, announced, todo>>
  PROVE  \A c \in Calls : BatchOK(c)'
BY DEF DeliveryInv, BatchOK

-----------------------------------------------------------------------------
\* The steps of a client.
LEMMA ConnectInv ==
  ASSUME DeliveryInv, NEW k \in Clients, Connect(k)
  PROVE  DeliveryInv'
<1>1. /\ phase[k] = "off"
      /\ open' = open \cup {k}
      /\ wanted' = [wanted EXCEPT ![k] = FilterOf(k)]
      /\ wants' = [wants EXCEPT ![k] = QueryOf(k)]
      /\ phase' = [phase EXCEPT ![k] = "replaying"]
      /\ UNCHANGED <<buffer, got, lost, told>>
      /\ UNCHANGED <<epoch, log, place, seen, reads>>
      /\ UNCHANGED <<action, pc, batch, appended, announced, todo>>
  BY DEF Connect, Goto, Bus!Open, Store!Begin, Store!logVars, callVars
<1>2. DeliveryTypes /\ Using(k) /\ Replayed(k) /\ SentOnce(k)
  BY DEF DeliveryInv
<1>3. DeliveryTypes'
  <2>1. wanted' \in [Clients -> {FilterOf(j) : j \in Clients} \cup {None}]
    BY <1>1, <1>2 DEF DeliveryTypes
  <2>2. wants' \in [Clients -> {QueryOf(j) : j \in Clients} \cup {None}]
    BY <1>1, <1>2 DEF DeliveryTypes
  <2>3. phase' \in [Clients -> {"off", "replaying", "live", "gone"}]
    BY <1>1, <1>2 DEF DeliveryTypes
  <2>4. open' \in SUBSET Clients
    BY <1>1, <1>2 DEF DeliveryTypes
  <2> QED
    BY <1>1, <1>2, <2>1, <2>2, <2>3, <2>4 DEF DeliveryTypes
<1>4. Using(k)'
  BY <1>1, <1>2 DEF Using, DeliveryTypes
<1>5. Replayed(k)'
  BY <1>1, <1>2 DEF Replayed, Concerns
<1>6. SentOnce(k)'
  BY <1>1, <1>2 DEF SentOnce, Offered
<1>7. NoGap(k)'
  BY <1>1, <1>2 DEF NoGap, DeliveryTypes
<1>8. \A j \in Clients \ {k} :
         /\ UNCHANGED <<wants[j], place[j], seen[j], phase[j]>>
         /\ UNCHANGED <<wanted[j], buffer[j], got[j], lost[j], told[j]>>
         /\ j \in open' <=> j \in open
  BY <1>1, <1>2 DEF DeliveryTypes
<1>9. \A c \in Calls : BatchOK(c)'
  BY <1>1, CallsStay
<1> QED
  BY <1>1, <1>3, <1>4, <1>5, <1>6, <1>7, <1>8, <1>9, ClientStep

LEMMA ListenInv ==
  ASSUME DeliveryInv, NEW k \in Clients, Listen(k)
  PROVE  DeliveryInv'
<1>1. /\ phase[k] = "live" /\ buffer[k] # <<>>
      /\ got' = [got EXCEPT ![k] = Append(@, Head(buffer[k]))]
      /\ buffer' = [buffer EXCEPT ![k] = Tail(@)]
      /\ UNCHANGED <<open, wanted, lost, told>>
      /\ UNCHANGED <<epoch, log, wants, place, seen, reads>>
      /\ UNCHANGED <<action, pc, batch, appended, announced, todo>>
      /\ UNCHANGED phase
  BY DEF Listen, Bus!Deliver, storeVars, callVars
<1>2. DeliveryTypes /\ Using(k) /\ Replayed(k) /\ SentOnce(k) /\ NoGap(k)
  BY DEF DeliveryInv
<1>3. buffer[k] \in Seq(Sent) /\ got[k] \in Seq(Sent)
  BY <1>2 DEF DeliveryTypes
<1>4. /\ Head(buffer[k]) \in Sent /\ Tail(buffer[k]) \in Seq(Sent)
      /\ Head(buffer[k]) \in Range(buffer[k])
      /\ Range(buffer[k]) \subseteq Range(Tail(buffer[k])) \cup {Head(buffer[k])}
      /\ Range(Tail(buffer[k])) \subseteq Range(buffer[k])
  BY <1>1, <1>3, RangeTail
<1>5. /\ Append(got[k], Head(buffer[k])) \in Seq(Sent)
      /\ Range(Append(got[k], Head(buffer[k]))) = Range(got[k]) \cup {Head(buffer[k])}
  BY <1>3, <1>4, RangeAppend
<1>6. /\ got'[k] = Append(got[k], Head(buffer[k])) /\ buffer'[k] = Tail(buffer[k])
      /\ got' \in [Clients -> Seq(Sent)] /\ buffer' \in [Clients -> Seq(Sent)]
  BY <1>1, <1>2, <1>4, <1>5 DEF DeliveryTypes
<1>7. DeliveryTypes'
  BY <1>1, <1>2, <1>6 DEF DeliveryTypes
<1>8. Range(got'[k]) \cup Range(buffer'[k]) = Range(got[k]) \cup Range(buffer[k])
  BY <1>4, <1>5, <1>6
<1>9. Using(k)' /\ Replayed(k)'
  BY <1>1, <1>2 DEF Using, Replayed, Concerns
<1>10. SentOnce(k)'
  BY <1>1, <1>2, <1>8 DEF SentOnce, Offered
<1>11. \A e : e \in Known(k) \cup Buffered(k) => e \in (Known(k) \cup Buffered(k))'
  <2>1. \A e : e \in (Known(k) \cup Buffered(k))' <=>
                 \/ e \in Range(seen'[k])
                 \/ \E m \in Range(got'[k]) \cup Range(buffer'[k]) : e = m.event
    BY DEF Known, Buffered
  <2> QED
    BY <1>1, <1>8, <2>1, KnownIs
<1>12. NoGap(k)'
  <2>1. \A c : Unoffered(c, k)' = Unoffered(c, k)
    BY <1>1 DEF Unoffered
  <2>2. \A e : Reachable(e, k) => Reachable(e, k)'
    BY <1>1, <1>11, <2>1 DEF Reachable
  <2> QED
    BY <1>1, <1>2, <2>2 DEF NoGap, Concerns
<1>13. \A j \in Clients \ {k} :
          /\ UNCHANGED <<wants[j], place[j], seen[j], phase[j]>>
          /\ UNCHANGED <<wanted[j], buffer[j], got[j], lost[j], told[j]>>
          /\ j \in open' <=> j \in open
  BY <1>1, <1>2 DEF DeliveryTypes
<1>14. \A c \in Calls : BatchOK(c)'
  BY <1>1, CallsStay
<1> QED
  BY <1>1, <1>7, <1>9, <1>10, <1>12, <1>13, <1>14, ClientStep

LEMMA HearOfLagInv ==
  ASSUME DeliveryInv, NEW k \in Clients, HearOfLag(k)
  PROVE  DeliveryInv'
<1>1. PICK n \in 1..(lost[k] - told[k]) : Bus!Tell(k, n)
  BY DEF HearOfLag
<1>2. /\ phase[k] = "live"
      /\ told' = [told EXCEPT ![k] = @ + n]
      /\ phase' = [phase EXCEPT ![k] = "replaying"]
      /\ UNCHANGED <<open, wanted, buffer, got, lost>>
      /\ UNCHANGED <<epoch, log, wants, place, seen, reads>>
      /\ UNCHANGED <<action, pc, batch, appended, announced, todo>>
  BY <1>1 DEF HearOfLag, Goto, Bus!Tell, storeVars, callVars
<1>3. DeliveryTypes /\ Using(k) /\ Replayed(k) /\ SentOnce(k)
  BY DEF DeliveryInv
<1>4. /\ told[k] \in Nat /\ lost[k] \in Nat /\ n \in Nat
      /\ told[k] + n <= lost[k] /\ told'[k] = told[k] + n
      /\ phase'[k] = "replaying"
  BY <1>2, <1>3 DEF DeliveryTypes
<1>5. DeliveryTypes'
  <2>1. told' \in [Clients -> Nat]
    BY <1>2, <1>3, <1>4 DEF DeliveryTypes
  <2>2. phase' \in [Clients -> {"off", "replaying", "live", "gone"}]
    BY <1>2, <1>3 DEF DeliveryTypes
  <2> QED
    BY <1>2, <1>3, <2>1, <2>2 DEF DeliveryTypes
<1>6. Using(k)'
  BY <1>2, <1>3, <1>4 DEF Using
<1>7. Replayed(k)'
  BY <1>2, <1>3 DEF Replayed, Concerns
<1>8. SentOnce(k)'
  BY <1>2, <1>3 DEF SentOnce, Offered
<1>9. NoGap(k)'
  BY <1>4 DEF NoGap
<1>10. \A j \in Clients \ {k} :
          /\ UNCHANGED <<wants[j], place[j], seen[j], phase[j]>>
          /\ UNCHANGED <<wanted[j], buffer[j], got[j], lost[j], told[j]>>
          /\ j \in open' <=> j \in open
  BY <1>2, <1>3 DEF DeliveryTypes
<1>11. \A c \in Calls : BatchOK(c)'
  BY <1>2, CallsStay
<1> QED
  BY <1>2, <1>5, <1>6, <1>7, <1>8, <1>9, <1>10, <1>11, ClientStep

LEMMA LeaveInv ==
  ASSUME DeliveryInv, NEW k \in Clients, Leave(k)
  PROVE  DeliveryInv'
<1>1. /\ phase[k] \in {"replaying", "live"}
      /\ open' = open \ {k}
      /\ phase' = [phase EXCEPT ![k] = "gone"]
      /\ UNCHANGED <<wanted, buffer, got, lost, told>>
      /\ UNCHANGED <<epoch, log, wants, place, seen, reads>>
      /\ UNCHANGED <<action, pc, batch, appended, announced, todo>>
  BY DEF Leave, Goto, Bus!Shut, storeVars, callVars
<1>2. DeliveryTypes /\ Using(k) /\ Replayed(k) /\ SentOnce(k)
  BY DEF DeliveryInv
<1>3. /\ phase'[k] = "gone" /\ open' \in SUBSET Clients
      /\ phase' \in [Clients -> {"off", "replaying", "live", "gone"}]
  BY <1>1, <1>2 DEF DeliveryTypes
<1>4. DeliveryTypes'
  BY <1>1, <1>2, <1>3 DEF DeliveryTypes
<1>5. Using(k)'
  BY <1>1, <1>2, <1>3 DEF Using
<1>6. Replayed(k)'
  BY <1>1, <1>2 DEF Replayed, Concerns
<1>7. SentOnce(k)'
  BY <1>1, <1>2 DEF SentOnce, Offered
<1>8. NoGap(k)'
  BY <1>3 DEF NoGap
<1>9. \A j \in Clients \ {k} :
         /\ UNCHANGED <<wants[j], place[j], seen[j], phase[j]>>
         /\ UNCHANGED <<wanted[j], buffer[j], got[j], lost[j], told[j]>>
         /\ j \in open' <=> j \in open
  BY <1>1, <1>2 DEF DeliveryTypes
<1>10. \A c \in Calls : BatchOK(c)'
  BY <1>1, CallsStay
<1> QED
  BY <1>1, <1>4, <1>5, <1>6, <1>7, <1>8, <1>9, <1>10, ClientStep

\* The events of a page.
LEMMA PageHas ==
  ASSUME DeliveryInv, NEW k \in Clients, wants[k] = QueryOf(k),
         NEW n \in place[k]..Len(log)
  PROVE  \E page \in Seq(Events) :
            /\ page = Store!Wanted(k, place[k] + 1, n)
            /\ \A i \in (place[k] + 1)..n : Concerns(log[i], k) => log[i] \in Range(page)
<1> DEFINE I == {i \in (place[k] + 1)..n : Store!QueryMatches(wants[k], log[i])}
<1>1. log \in Seq(Events) /\ place[k] \in Nat /\ Len(log) \in Nat
  BY DEF DeliveryInv, DeliveryTypes
<1>2. n \in Nat /\ n \in 0..Len(log)
  BY <1>1
<1>3. PICK page : page = Kept(log, I, n)
  OBVIOUS
<1>4. page = Store!Wanted(k, place[k] + 1, n)
  BY <1>3 DEF Store!Wanted, Store!Kept, Kept
<1>5. page \in Seq(Events)
  BY <1>1, <1>2, <1>3, KeptType
<1>6. ASSUME NEW i \in (place[k] + 1)..n, Concerns(log[i], k)
      PROVE  log[i] \in Range(page)
  <2>1. i \in I
    BY <1>6, SameOperators
  <2>2. i \in 1..n
    BY <1>1, <1>2
  <2> HIDE DEF I
  <2>3. \E j \in 1..Len(Kept(log, I, n)) : Kept(log, I, n)[j] = log[i]
    BY <1>1, <1>2, <2>1, <2>2, KeptHas
  <2>4. PICK j \in 1..Len(page) : page[j] = log[i]
    BY <1>3, <2>3
  <2>5. j \in DOMAIN page
    BY <1>5
  <2> QED
    BY <2>4, <2>5 DEF Range
<1> HIDE DEF I
<1> QED
  BY <1>4, <1>5, <1>6

LEMMA ReplayInv ==
  ASSUME DeliveryInv, NEW k \in Clients, Replay(k)
  PROVE  DeliveryInv'
<1>1. PICK n \in place[k]..Len(log) :
          /\ Store!Read(k, n)
          /\ IF n = Len(log) THEN Goto(k, "live") ELSE UNCHANGED phase
  BY DEF Replay
<1>2. DeliveryTypes /\ Using(k) /\ Replayed(k) /\ SentOnce(k)
  BY DEF DeliveryInv
<1>3. phase[k] = "replaying"
  BY DEF Replay
<1>4. wants[k] = QueryOf(k)
  BY <1>2, <1>3 DEF Using
<1>5. PICK page \in Seq(Events) :
          /\ page = Store!Wanted(k, place[k] + 1, n)
          /\ \A i \in (place[k] + 1)..n : Concerns(log[i], k) => log[i] \in Range(page)
  BY <1>4, PageHas
<1>6. /\ seen' = [seen EXCEPT ![k] = @ \o page]
      /\ place' = [place EXCEPT ![k] = n]
      /\ UNCHANGED <<epoch, log, wants, reads>>
      /\ UNCHANGED <<open, wanted, buffer, got, lost, told>>
      /\ UNCHANGED <<action, pc, batch, appended, announced, todo>>
  BY <1>1, <1>5 DEF Replay, Store!Read, Store!logVars, busVars, callVars
<1>7. /\ log \in Seq(Events) /\ seen[k] \in Seq(Events) /\ place[k] \in Nat
      /\ Len(log) \in Nat /\ DOMAIN log = 1..Len(log) /\ n \in Nat /\ n <= Len(log)
      /\ place[k] <= n
  BY <1>2 DEF DeliveryTypes
<1>8. seen[k] \o page \in Seq(Events)
  BY <1>7
<1>9. Range(seen[k]) \cup Range(page) \subseteq Range(seen[k] \o page)
  BY <1>7, RangeConcat
<1>10. /\ seen' \in [Clients -> Seq(Events)] /\ seen'[k] = seen[k] \o page
       /\ place' \in [Clients -> Nat] /\ place'[k] = n
  BY <1>2, <1>6, <1>7, <1>8 DEF DeliveryTypes
<1>11. /\ phase' \in [Clients -> {"off", "replaying", "live", "gone"}]
       /\ phase'[k] = IF n = Len(log) THEN "live" ELSE "replaying"
       /\ \A j \in Clients \ {k} : phase'[j] = phase[j]
  BY <1>1, <1>2, <1>3 DEF Goto, DeliveryTypes
<1>12. DeliveryTypes'
  BY <1>2, <1>6, <1>10, <1>11 DEF DeliveryTypes
<1>13. Using(k)'
  BY <1>2, <1>3, <1>6, <1>11 DEF Using
<1>14. \A i \in 1..n : Concerns(log[i], k) => log[i] \in Range(seen'[k])
  <2> SUFFICES ASSUME NEW i \in 1..n, Concerns(log[i], k)
               PROVE  log[i] \in Range(seen[k]) \cup Range(page)
    BY <1>9, <1>10
  <2>1. CASE i <= place[k]
    <3>1. i \in 1..place[k]
      BY <1>7, <2>1
    <3> QED
      BY <1>2, <3>1 DEF Replayed
  <2>2. CASE i > place[k]
    <3>1. i \in (place[k] + 1)..n
      BY <1>7, <2>2
    <3> QED
      BY <1>5, <3>1
  <2> QED
    BY <1>7, <2>1, <2>2
<1>15. Replayed(k)'
  BY <1>6, <1>7, <1>10, <1>14 DEF Replayed, Concerns
<1>16. SentOnce(k)'
  BY <1>2, <1>6 DEF SentOnce, Offered
<1>17. NoGap(k)'
  <2> SUFFICES ASSUME n = Len(log), NEW e \in Range(log), Concerns(e, k)
               PROVE  e \in Range(seen'[k])
    BY <1>6, <1>11 DEF NoGap, Reachable, Known, Concerns
  <2>1. PICK i \in 1..n : e = log[i]
    BY <1>7 DEF Range
  <2> QED
    BY <1>14, <2>1
<1>18. \A j \in Clients \ {k} :
          /\ UNCHANGED <<wants[j], place[j], seen[j], phase[j]>>
          /\ UNCHANGED <<wanted[j], buffer[j], got[j], lost[j], told[j]>>
          /\ j \in open' <=> j \in open
  BY <1>2, <1>6, <1>11 DEF DeliveryTypes
<1>19. \A c \in Calls : BatchOK(c)'
  BY <1>6, CallsStay
<1> QED
  BY <1>6, <1>12, <1>13, <1>15, <1>16, <1>17, <1>18, <1>19, ClientStep

-----------------------------------------------------------------------------
\* A step of a publish that is under way, from subscription to subscription.
LEMMA VisitNextInv ==
  ASSUME DeliveryInv, NEW c \in Calls, NEW k \in Clients, VisitNext(c, k)
  PROVE  DeliveryInv'
<1>1. PICK m : m = Message(c)
  OBVIOUS
<1>2. /\ todo[c] # None /\ k \in todo[c]
      /\ todo' = [todo EXCEPT ![c] = @ \ {k}]
      /\ UNCHANGED <<epoch, log, wants, place, seen, reads>>
      /\ UNCHANGED <<action, pc, batch, appended, announced, phase>>
      /\ Offer(c, k)
  BY DEF VisitNext, storeVars
<1>3. /\ DeliveryTypes /\ BatchOK(c)
      /\ Using(k) /\ Replayed(k) /\ SentOnce(k) /\ NoGap(k)
  BY DEF DeliveryInv
<1>4. /\ announced[c] \in Nat /\ batch[c] \in Seq(Events)
      /\ announced[c] + 1 \in DOMAIN batch[c]
  <2>1. announced[c] \in Nat /\ batch[c] \in Seq(Events)
    BY <1>3 DEF DeliveryTypes
  <2> QED
    BY <1>2, <1>3, <2>1 DEF BatchOK
<1>5. /\ m \in Sent /\ m.by = c /\ m.num = announced[c] + 1
      /\ m.event = batch[c][announced[c] + 1]
  BY <1>1, <1>4 DEF Message, Sent
<1>6. todo[c] \in SUBSET Clients /\ todo[c] \ {k} # None
  BY <1>2, <1>3, DeliveryAssumption DEF DeliveryTypes
<1>7. /\ todo' \in [Calls -> (SUBSET Clients) \cup {None}]
      /\ todo'[c] = todo[c] \ {k}
      /\ \A d \in Calls \ {c} : todo'[d] = todo[d]
  BY <1>2, <1>3, <1>6 DEF DeliveryTypes
<1>8. \/ /\ Matches(wanted[k], m.event)
         /\ buffer' = [buffer EXCEPT ![k] = Append(@, m)]
         /\ lost' = lost
      \/ /\ Matches(wanted[k], m.event)
         /\ buffer' = buffer
         /\ lost' = [lost EXCEPT ![k] = @ + 1]
      \/ /\ k \notin open \/ ~Matches(wanted[k], m.event)
         /\ buffer' = buffer /\ lost' = lost
  BY <1>1, <1>2, SameOperators DEF Offer, Bus!Accept, Bus!Miss, busVars
<1>9. UNCHANGED <<open, wanted, got, told>>
  BY <1>2 DEF Offer, Bus!Accept, Bus!Miss, busVars
<1>10. /\ buffer[k] \in Seq(Sent) /\ got[k] \in Seq(Sent) /\ lost[k] \in Nat
       /\ told[k] \in Nat
  BY <1>3 DEF DeliveryTypes
<1>11. /\ Append(buffer[k], m) \in Seq(Sent)
       /\ Range(Append(buffer[k], m)) = Range(buffer[k]) \cup {m}
  BY <1>5, <1>10, RangeAppend
<1>12. /\ buffer' \in [Clients -> Seq(Sent)]
       /\ buffer'[k] = buffer[k] \/ buffer'[k] = Append(buffer[k], m)
       /\ lost' \in [Clients -> Nat]
       /\ lost'[k] \in {lost[k], lost[k] + 1}
       /\ \A j \in Clients \ {k} : buffer'[j] = buffer[j] /\ lost'[j] = lost[j]
  <2>1. CASE buffer' = [buffer EXCEPT ![k] = Append(@, m)] /\ lost' = lost
    BY <1>3, <1>11, <2>1 DEF DeliveryTypes
  <2>2. CASE buffer' = buffer /\ lost' = [lost EXCEPT ![k] = @ + 1]
    BY <1>3, <1>10, <2>2 DEF DeliveryTypes
  <2>3. CASE buffer' = buffer /\ lost' = lost
    BY <1>3, <2>3 DEF DeliveryTypes
  <2> QED
    BY <1>8, <2>1, <2>2, <2>3
<1>13. DeliveryTypes'
  BY <1>2, <1>3, <1>7, <1>9, <1>12 DEF DeliveryTypes
<1>14. \A d \in Calls : BatchOK(d)'
  <2> SUFFICES ASSUME NEW d \in Calls PROVE BatchOK(d)'
    OBVIOUS
  <2>1. BatchOK(d)
    BY DEF DeliveryInv
  <2>2. todo'[d] = None <=> todo[d] = None
    BY <1>2, <1>6, <1>7
  <2> QED
    BY <1>2, <2>1, <2>2 DEF BatchOK
<1>15. \A d \in Calls : \A n : Offered(d, k, n) => Offered(d, k, n)'
  <2> SUFFICES ASSUME NEW d \in Calls, NEW n, Offered(d, k, n) PROVE Offered(d, k, n)'
    OBVIOUS
  <2>1. CASE d = c
    BY <1>2, <1>6, <1>7, <2>1 DEF Offered
  <2>2. CASE d # c
    BY <1>2, <1>7, <2>2 DEF Offered
  <2> QED
    BY <2>1, <2>2
<1>16. Offered(c, k, announced[c] + 1)'
  BY <1>2, <1>6, <1>7 DEF Offered
<1>17. SentOnce(k)'
  <2> SUFFICES ASSUME NEW x \in Range(got[k]) \cup Range(buffer'[k])
               PROVE  Offered(x.by, k, x.num)'
    BY <1>9 DEF SentOnce
  <2>1. x = m \/ x \in Range(got[k]) \cup Range(buffer[k])
    BY <1>11, <1>12
  <2>2. CASE x = m
    <3>1. x.by = c /\ x.num = announced[c] + 1
      BY <1>5, <2>2
    <3>2. announced' = announced
      BY <1>2
    <3> QED
      BY <1>16, <3>1, <3>2 DEF Offered
  <2>3. CASE x \in Range(got[k]) \cup Range(buffer[k])
    <3>1. x \in Sent
      BY <1>10, <2>3, RangeIs
    <3>2. x.by \in Calls
      BY <3>1 DEF Sent
    <3>3. Offered(x.by, k, x.num)
      BY <1>3, <2>3 DEF SentOnce
    <3> QED
      BY <1>15, <3>2, <3>3
  <2> QED
    BY <2>1, <2>2, <2>3
<1>18. Using(k)'
  <2>1. told[k] <= lost'[k]
    BY <1>3, <1>10, <1>12 DEF Using
  <2> QED
    BY <1>2, <1>3, <1>9, <2>1 DEF Using
<1>19. Replayed(k)'
  BY <1>2, <1>3 DEF Replayed, Concerns
<1>20. NoGap(k)'
  <2> SUFFICES ASSUME phase[k] = "live", NEW e \in Range(log), Concerns(e, k)
               PROVE  Reachable(e, k)'
    BY <1>2 DEF NoGap, Concerns
  <2>1. Reachable(e, k)
    BY <1>3 DEF NoGap
  <2>2. Range(buffer[k]) \subseteq Range(buffer'[k])
    BY <1>11, <1>12
  <2>3. CASE e \in Known(k) \cup Buffered(k)
    <3>1. e \in (Known(k) \cup Buffered(k))'
      BY <1>2, <1>9, <2>2, <2>3 DEF Known, Buffered
    <3> QED
      BY <3>1 DEF Reachable
  <2>4. CASE lost[k] > told[k]
    <3>1. lost'[k] > told'[k]
      BY <1>9, <1>10, <1>12, <2>4
    <3> QED
      BY <3>1 DEF Reachable
  <2>5. ASSUME NEW d \in Calls, e \in Unoffered(d, k) PROVE Reachable(e, k)'
    <3>1. announced[d] \in Nat /\ batch[d] \in Seq(Events)
      BY <1>3 DEF DeliveryTypes
    <3>2. PICK j \in DOMAIN batch[d] : ~Offered(d, k, j) /\ e = batch[d][j]
      BY <2>5, <3>1, UnofferedIs
    <3>3. CASE d = c /\ j = announced[c] + 1
      <4>1. e = m.event
        BY <1>5, <3>2, <3>3
      <4>2. k \in open /\ wanted[k] = FilterOf(k)
        BY <1>3 DEF Using
      <4>3. Matches(wanted[k], m.event)
        BY <4>1, <4>2 DEF Concerns
      <4>4. \/ buffer' = [buffer EXCEPT ![k] = Append(@, m)]
            \/ lost' = [lost EXCEPT ![k] = @ + 1]
        BY <1>8, <4>2, <4>3
      <4>5. CASE buffer' = [buffer EXCEPT ![k] = Append(@, m)]
        <5>1. buffer'[k] = Append(buffer[k], m)
          BY <1>3, <4>5 DEF DeliveryTypes
        <5>2. m \in Range(buffer'[k])
          BY <1>11, <5>1
        <5>3. e \in Buffered(k)'
          BY <4>1, <5>2 DEF Buffered
        <5> QED
          BY <5>3 DEF Reachable
      <4>6. CASE lost' = [lost EXCEPT ![k] = @ + 1]
        <5>1. lost'[k] = lost[k] + 1
          BY <1>3, <4>6 DEF DeliveryTypes
        <5>2. lost'[k] > told'[k]
          BY <1>3, <1>9, <1>10, <5>1 DEF Using
        <5> QED
          BY <5>2 DEF Reachable
      <4> QED
        BY <4>4, <4>5, <4>6
    <3>4. CASE ~(d = c /\ j = announced[c] + 1)
      <4>1. ~Offered(d, k, j)'
        <5>1. CASE d = c
          BY <1>2, <3>2, <3>4, <5>1 DEF Offered
        <5>2. CASE d # c
          BY <1>2, <1>7, <3>2, <5>2 DEF Offered
        <5> QED
          BY <5>1, <5>2
      <4>2. /\ (announced[d])' \in Nat /\ (batch[d])' \in Seq(Events)
            /\ j \in (DOMAIN batch[d])' /\ (batch[d][j])' = e
        BY <1>2, <3>1, <3>2
      <4>3. e \in Unoffered(d, k)'
        BY <4>1, <4>2, StillUnoffered
      <4> QED
        BY <4>3 DEF Reachable
    <3> QED
      BY <3>3, <3>4
  <2> QED
    BY <2>1, <2>3, <2>4, <2>5 DEF Reachable
<1>21. /\ \A d \in Calls : todo'[d] = None <=> todo[d] = None
       /\ \A d \in Calls, j \in Clients \ {k} : j \in todo'[d] <=> j \in todo[d]
  BY <1>2, <1>6, <1>7
<1>22. \A j \in Clients \ {k} :
          /\ UNCHANGED <<wants[j], place[j], seen[j], phase[j]>>
          /\ UNCHANGED <<wanted[j], buffer[j], got[j], lost[j], told[j]>>
          /\ j \in open' <=> j \in open
  BY <1>2, <1>9, <1>12
<1> QED
  BY <1>2, <1>13, <1>14, <1>17, <1>18, <1>19, <1>20, <1>21, <1>22, ClientStep

-----------------------------------------------------------------------------
LEMMA InitDeliveryInv == Init => DeliveryInv
<1> SUFFICES ASSUME Init PROVE DeliveryInv
  OBVIOUS
<1>1. /\ log = <<>>
      /\ wants = [k \in Clients |-> None]
      /\ place = [k \in Clients |-> 0]
      /\ seen = [k \in Clients |-> <<>>]
      /\ open = {}
      /\ wanted = [k \in Clients |-> None]
      /\ buffer = [k \in Clients |-> <<>>]
      /\ got = [k \in Clients |-> <<>>]
      /\ lost = [k \in Clients |-> 0]
      /\ told = [k \in Clients |-> 0]
      /\ action \in Assignments
      /\ pc = [c \in Calls |-> "idle"]
      /\ batch = [c \in Calls |-> <<>>]
      /\ appended = [c \in Calls |-> 0]
      /\ announced = [c \in Calls |-> 0]
      /\ todo = [c \in Calls |-> None]
      /\ phase = [k \in Clients |-> "off"]
  BY DEF Init, Store!LogInit, Bus!StreamInit
<1>2. <<>> \in Seq(Events) /\ <<>> \in Seq(Sent) /\ Len(<<>>) = 0
  OBVIOUS
<1>3. DeliveryTypes
  BY <1>1, <1>2 DEF DeliveryTypes
<1>4. ASSUME NEW c \in Calls PROVE BatchOK(c)
  BY <1>1, <1>2 DEF BatchOK
<1>5. Logged
  BY <1>1 DEF Logged
<1>6. ASSUME NEW k \in Clients PROVE Using(k) /\ Replayed(k) /\ SentOnce(k) /\ NoGap(k)
  BY <1>1 DEF Using, Replayed, SentOnce, NoGap, Range
<1>7. Counted
  <2> SUFFICES ASSUME NEW a \in ActionIds
               PROVE  InLog(a) = {} /\ AppendedFor(a) = {}
    BY FS_EmptySet DEF Counted
  <2>1. InLog(a) = {}
    BY <1>1 DEF InLog
  <2>2. \A x, y : <<x, y>> \notin AppendedFor(a)
    BY <1>1 DEF AppendedFor
  <2>3. \A x \in AppendedFor(a) : x = <<x[1], x[2]>>
    BY DEF AppendedFor
  <2> QED
    BY <2>1, <2>2, <2>3
<1> QED
  BY <1>3, <1>4, <1>5, <1>6, <1>7 DEF DeliveryInv

LEMMA NextDeliveryInv == DeliveryInv /\ [Next]_vars => DeliveryInv'
<1> SUFFICES ASSUME DeliveryInv, [Next]_vars PROVE DeliveryInv'
  OBVIOUS
<1>1. ASSUME NEW c \in Calls, Handle(c) \/ Dispatch(c) \/ Fail(c) PROVE DeliveryInv'
  BY <1>1, HandleInv, AppendNextInv, GoInv, BeginPublishInv, VisitNextInv,
     EndPublishInv DEF Dispatch
<1>2. ASSUME NEW k \in Clients,
             Connect(k) \/ Replay(k) \/ Listen(k) \/ HearOfLag(k) \/ Leave(k)
      PROVE  DeliveryInv'
  BY <1>2, ConnectInv, ReplayInv, ListenInv, HearOfLagInv, LeaveInv
<1>3. CASE UNCHANGED vars
  <2>1. /\ UNCHANGED <<log, wants, place, seen, open, wanted, buffer, got, lost, told>>
        /\ UNCHANGED <<action, pc, batch, appended, announced, todo, phase>>
    BY <1>3 DEF vars, storeVars, busVars, callVars
  <2>2. DeliveryTypes'
    BY <2>1 DEF DeliveryInv, DeliveryTypes
  <2>3. \A c \in Calls : BatchOK(c)'
    BY <2>1, CallsStay
  <2>4. \A a : InLog(a)' = InLog(a) /\ AppendedFor(a)' = AppendedFor(a)
    BY <2>1 DEF InLog, AppendedFor
  <2>5. Counted' /\ Logged'
    BY <2>1, <2>4 DEF DeliveryInv, Counted, Logged
  <2>6. ASSUME NEW k \in Clients
        PROVE  Using(k)' /\ Replayed(k)' /\ SentOnce(k)' /\ NoGap(k)'
    <3>1. Using(k) /\ Replayed(k) /\ SentOnce(k) /\ NoGap(k)
      BY DEF DeliveryInv
    <3>2. Using(k)' /\ Replayed(k)' /\ SentOnce(k)'
      BY <2>1, <3>1 DEF Using, Replayed, SentOnce, Concerns, Offered
    <3>3. \A e : Reachable(e, k) => Reachable(e, k)'
      BY <2>1 DEF Reachable, Known, Buffered, Unoffered
    <3> QED
      BY <2>1, <3>1, <3>2, <3>3 DEF NoGap, Concerns
  <2> QED
    BY <2>2, <2>3, <2>5, <2>6 DEF DeliveryInv
<1> QED
  BY <1>1, <1>2, <1>3 DEF Next

LEMMA DeliveryAlways == Spec => []DeliveryInv
BY InitDeliveryInv, NextDeliveryInv, PTL DEF Spec

\* A client that has replayed its session and listens has no gap it cannot
\* know of, whatever calls append and publish in whatever order, and whenever
\* it connects, is told of a lag and replays (pipeline.rs:31-41).
THEOREM NoEventMissed == Spec => []NothingMissed
<1>1. DeliveryInv => NothingMissed
  BY DEF DeliveryInv, NoGap, Reachable, NothingMissed
<1> QED
  BY <1>1, DeliveryAlways, PTL

\* The log has as many events of an action as the calls that execute it have
\* appended, however often it is executed (runtime.rs:69).
THEOREM RetriesAlwaysAddUp == Spec => []RetriesAddUp
<1>1. DeliveryInv => RetriesAddUp
  BY DEF DeliveryInv, Counted, InLog, RetriesAddUp
<1> QED
  BY <1>1, DeliveryAlways, PTL

\* A store that knows the identity of an event and a bus that expects the
\* messages of a sender in their order refuse nothing a call gives them.
PortsAccept ==
    /\ \A c \in Calls :
          pc[c] = "store" /\ appended[c] < Len(batch[c])
             => \A f \in Range(log) : f.id # (batch[c][appended[c] + 1]).id
    /\ \A c \in Calls, k \in Clients :
          todo[c] # None /\ k \in todo[c] => Bus!IsNext(k, Message(c))

\* What EventLog and LossyStream ask of their users, execute observes: every
\* event it appends is new, and every offer is the next of its sender
\* (pipeline.rs:31-41).
THEOREM PortsAlwaysAccept == Spec => []PortsAccept
<1>1. DeliveryInv => PortsAccept
  <2> SUFFICES ASSUME DeliveryInv, NEW c \in Calls, NEW k \in Clients,
                      todo[c] # None, k \in todo[c]
               PROVE  Bus!IsNext(k, Message(c))
    BY NextIsFresh DEF PortsAccept
  <2>1. announced[c] \in Nat /\ Message(c).by = c /\ Message(c).num = announced[c] + 1
    BY DEF DeliveryInv, DeliveryTypes, Message
  <2>2. got[k] \in Seq(Sent) /\ buffer[k] \in Seq(Sent)
    BY DEF DeliveryInv, DeliveryTypes
  <2> SUFFICES ASSUME NEW m \in Range(got[k]) \cup Range(buffer[k]), m.by = c
               PROVE  m.num < announced[c] + 1
    BY <2>1, SameOperators DEF Bus!IsNext
  <2>3. m \in Sent
    BY <2>2, RangeIs
  <2>4. m.num \in Nat
    BY <2>3 DEF Sent
  <2>5. Offered(c, k, m.num)
    BY DEF DeliveryInv, SentOnce
  <2> QED
    BY <2>1, <2>4, <2>5 DEF Offered
<1> QED
  BY <1>1, DeliveryAlways, PTL
=============================================================================
