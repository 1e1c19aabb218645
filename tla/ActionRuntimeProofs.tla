------------------------- MODULE ActionRuntimeProofs -------------------------
(***************************************************************************)
(* Theorems about ActionRuntime, for any calls, handlers, types and sizes  *)
(* of batches: what is stored was approved by its maker, a call's answer   *)
(* tells what it has done, and the whole implements WriteAhead.            *)
(***************************************************************************)
EXTENDS ActionRuntime, SequenceTheorems, TLAPS

USE RuntimeAssumption

-----------------------------------------------------------------------------
\* Appending to a sequence adds one element to its range.
LEMMA RangeOfAppend ==
  ASSUME NEW S, NEW s \in Seq(S), NEW e \in S
  PROVE  Range(Append(s, e)) = Range(s) \cup {e}
<1>1. /\ Append(s, e) \in Seq(S)
      /\ Len(Append(s, e)) = Len(s) + 1
      /\ \A i \in 1..Len(s) : Append(s, e)[i] = s[i]
      /\ Append(s, e)[Len(s) + 1] = e
  BY AppendProperties
<1>2. Range(s) = {s[i] : i \in 1..Len(s)}
  BY RangeEquality
<1>3. Range(Append(s, e)) = {Append(s, e)[i] : i \in 1..(Len(s) + 1)}
  BY <1>1, RangeEquality
<1>4. Len(s) \in Nat
  OBVIOUS
<1> QED
  BY <1>1, <1>2, <1>3, <1>4

-----------------------------------------------------------------------------
\* What a call may have done that has ended in the middle of its dispatch.
Partial(c) ==
    \E i, j \in 0..size[c] : /\ Its(c, stored) = FirstOf(c, i)
                            /\ Its(c, published) = FirstOf(c, j)
                            /\ j > 0 => i = size[c]

\* What a call has done, wherever it is.
Progress(c) ==
    /\ pc[c] \in {"idle", "validate", "authorize", "handle"}
           \cup NeverDispatched =>
         /\ Its(c, stored) = {}
         /\ Its(c, published) = {}
    /\ pc[c] \in {"idle", "validate", "authorize", "handle"} => at[c] = 0
    /\ pc[c] \in {"store", "publish"} => at[c] <= size[c]
    /\ pc[c] = "store" =>
         /\ Its(c, stored) = FirstOf(c, at[c])
         /\ Its(c, published) = {}
    /\ pc[c] = "publish" =>
         /\ Its(c, stored) = FirstOf(c, size[c])
         /\ Its(c, published) = FirstOf(c, at[c])
    /\ pc[c] = "ok" =>
         /\ Its(c, stored) = FirstOf(c, size[c])
         /\ Its(c, published) = FirstOf(c, size[c])
    /\ pc[c] \in {"pipeline_failed", "abandoned"} => Partial(c)

\* Which checks the action of a call has passed.
Checks(c) ==
    /\ pc[c] \in Running => handler[c] \in Handlers
    /\ pc[c] \in {"authorize", "handle"} => validator[c] = handler[c]
    /\ pc[c] = "handle" => c \in authorized
    /\ pc[c] \in {"store", "publish"} =>
         /\ c \in authorized
         /\ maker[c] = validator[c]
         /\ maker[c] \in Handlers

\* Events already stored outlive what their call does next: nothing that they
\* are judged by changes any more.
Inv == 
    /\ TypeOK
    /\ \A c \in Calls : Progress(c) /\ Checks(c)
    /\ ApprovedByItsMaker

USE DEF Running, NeverDispatched, Ended

LEMMA InitInv == Init => Inv
<1> SUFFICES ASSUME Init PROVE Inv
  OBVIOUS
<1>1. Range(<<>>) = {}
  BY DEF Range
<1>2. TypeOK
  BY DEF Init, TypeOK
<1>3. \A c \in Calls : Progress(c) /\ Checks(c)
  BY <1>1 DEF Init, Progress, Checks, Its
<1> QED
  BY <1>1, <1>2, <1>3 DEF Init, Inv, ApprovedByItsMaker

-----------------------------------------------------------------------------
\* A step that leaves everything of a call alone keeps what is known of it.
LEMMA OthersKeep ==
  ASSUME NEW d \in Calls, Progress(d), Checks(d),
         pc'[d] = pc[d], handler'[d] = handler[d],
         validator'[d] = validator[d], d \in authorized' <=> d \in authorized,
         maker'[d] = maker[d], size'[d] = size[d], at'[d] = at[d],
         Its(d, stored') = Its(d, stored),
         Its(d, published') = Its(d, published)
  PROVE  Progress(d)' /\ Checks(d)'
<1>1. \A n : FirstOf(d, n)' = FirstOf(d, n)
  BY DEF FirstOf, EventOf
<1>2. Its(d, stored)' = Its(d, stored) /\ Its(d, published)' = Its(d, published)
  BY DEF Its
<1>3. Partial(d) => Partial(d)'
  BY <1>1, <1>2 DEF Partial
<1>4. Progress(d)'
  BY <1>1, <1>2, <1>3 DEF Progress
<1>5. Checks(d)'
  BY DEF Checks
<1> QED
  BY <1>4, <1>5

\* Registrations come and go without any call noticing.
LEMMA RegistryInv ==
  ASSUME Inv, handlers' \in [Types -> Handlers \cup {None}],
         UNCHANGED <<callVars, portVars>>
  PROVE  Inv'
<1> USE DEF Inv, callVars, portVars
<1>1. TypeOK'
  BY DEF TypeOK
<1>2. \A d \in Calls : Progress(d)' /\ Checks(d)'
  BY OthersKeep
<1>3. ApprovedByItsMaker'
  BY DEF ApprovedByItsMaker
<1> QED
  BY <1>1, <1>2, <1>3

\* Before dispatch a call changes only what nothing in the store tells of.
LEMMA BeforeDispatchInv ==
  ASSUME Inv, NEW c \in Calls,
         Find(c) \/ FindNone(c) \/ Validate(c) \/ Authorize(c) \/ Handle(c)
           \/ Refuse(c)
  PROVE  Inv'
<1> USE DEF Inv
<1>1. /\ Progress(c) /\ Checks(c)
      /\ UNCHANGED portVars
      /\ Its(c, stored) = {}
  BY DEF Find, FindNone, Validate, Authorize, Handle, Refuse, ErrorOf,
         Progress, portVars
<1>2. TypeOK'
  <2> USE DEF TypeOK, Goto, HandlerOf, portVars, registryVars
  <2>1. CASE Find(c)
    BY <2>1 DEF Find
  <2>2. CASE FindNone(c)
    BY <2>2 DEF FindNone
  <2>3. CASE Validate(c)
    BY <1>1, <2>3 DEF Validate, Checks
  <2>4. CASE Authorize(c)
    BY <2>4 DEF Authorize
  <2>5. CASE Handle(c)
    BY <1>1, <2>5 DEF Handle, Checks
  <2>6. CASE Refuse(c)
    BY <2>6 DEF Refuse, ErrorOf
  <2> QED
    BY <2>1, <2>2, <2>3, <2>4, <2>5, <2>6
<1>3. ASSUME NEW d \in Calls, d # c
      PROVE  Progress(d)' /\ Checks(d)'
  <2>1. /\ pc'[d] = pc[d] /\ handler'[d] = handler[d]
        /\ validator'[d] = validator[d]
        /\ d \in authorized' <=> d \in authorized
        /\ maker'[d] = maker[d] /\ size'[d] = size[d] /\ at'[d] = at[d]
    BY <1>3 DEF TypeOK, Find, FindNone, Validate, Authorize, Handle, Refuse,
                Goto
  <2> QED
    BY <1>1, <1>3, <2>1, OthersKeep DEF portVars
<1>4. Progress(c)'
  <2>1. /\ Its(c, stored)' = {}
        /\ Its(c, published)' = {}
        /\ pc'[c] = "store" => at'[c] = 0 /\ size'[c] \in Nat
        /\ pc'[c] \in {"validate", "authorize", "handle"} => at'[c] = 0
        /\ pc'[c] \in {"validate", "authorize", "handle", "store"}
                        \cup NeverDispatched
    BY <1>1 DEF TypeOK, Progress, Find, FindNone, Validate, Authorize,
                Handle, Refuse, ErrorOf, Goto, portVars, Its
  <2>2. FirstOf(c, 0)' = {}
    BY DEF FirstOf
  <2> QED
    BY <2>1, <2>2 DEF Progress, FirstOf
<1>5. Checks(c)'
  BY <1>1 DEF TypeOK, Checks, Find, FindNone, Validate, Authorize, Handle,
              Refuse, ErrorOf, Goto, HandlerOf
<1>6. ApprovedByItsMaker'
  <2> SUFFICES ASSUME NEW e \in Range(stored)
               PROVE  e.call \in authorized' /\ e.by = validator'[e.call]
    BY <1>1 DEF ApprovedByItsMaker, portVars
  <2>1. e.call # c
    BY <1>1 DEF Its
  <2> QED
    BY <2>1 DEF TypeOK, ApprovedByItsMaker, Find, FindNone, Validate,
                Authorize, Handle, Refuse
<1> QED
  BY <1>2, <1>3, <1>4, <1>5, <1>6

-----------------------------------------------------------------------------
\* The next event of a call's batch is one, and extends what is there of it.
LEMMA NextEventFits ==
  ASSUME Inv, NEW c \in Calls, pc[c] \in {"store", "publish"}, HasNext(c)
  PROVE  /\ NextEvent(c) \in Events
         /\ NextEvent(c).call = c
         /\ NextEvent(c).index = at[c] + 1
         /\ NextEvent(c).size = size[c]
         /\ NextEvent(c).by = maker[c]
         /\ Advance(c) \in [Calls -> 0..MaxDrafts]
         /\ Advance(c)[c] = at[c] + 1
         /\ at[c] + 1 <= size[c]
         /\ FirstOf(c, at[c] + 1) = FirstOf(c, at[c]) \cup {NextEvent(c)}
<1>1. /\ at[c] \in Nat /\ size[c] \in Nat /\ at[c] < size[c]
      /\ size[c] <= MaxDrafts
      /\ maker[c] \in Handlers
      /\ at \in [Calls -> 0..MaxDrafts]
  BY DEF Inv, TypeOK, Checks, HasNext
<1>2. Advance(c) \in [Calls -> 0..MaxDrafts] /\ Advance(c)[c] = at[c] + 1
  BY <1>1 DEF Advance
<1>3. NextEvent(c) = [call |-> c, by |-> maker[c], size |-> size[c],
                      index |-> at[c] + 1]
  BY DEF NextEvent, EventOf
<1>4. NextEvent(c) \in Events
  BY <1>1, <1>3 DEF Events
<1>5. FirstOf(c, at[c] + 1) = FirstOf(c, at[c]) \cup {NextEvent(c)}
  BY <1>1 DEF FirstOf, NextEvent
<1> QED
  BY <1>1, <1>2, <1>3, <1>4, <1>5

\* An event appended is a new one of its own call only.
LEMMA ItsOfAppend ==
  ASSUME NEW s \in Seq(Events), NEW e \in Events, NEW d
  PROVE  Its(d, Append(s, e)) = IF d = e.call THEN Its(d, s) \cup {e}
                                              ELSE Its(d, s)
BY RangeOfAppend DEF Its

\* One event more is stored, and the call goes on or fails.
LEMMA StoreInv ==
  ASSUME Inv, NEW c \in Calls, StoreNext(c) \/ FailToStore(c)
  PROVE  Inv'
<1> USE DEF Inv
<1> DEFINE e == NextEvent(c)
<1>1. /\ pc[c] = "store" /\ HasNext(c)
      /\ stored' \in {stored, Append(stored, e)}
      /\ UNCHANGED <<dispatchRest, published>>
      /\ \/ pc' = pc /\ at' = Advance(c) /\ stored' = Append(stored, e)
         \/ pc' = [pc EXCEPT ![c] = "pipeline_failed"] /\ at' = at
  BY DEF StoreNext, FailToStore, Goto
<1>2. /\ e \in Events /\ e.call = c /\ e.by = maker[c]
      /\ Advance(c) \in [Calls -> 0..MaxDrafts]
      /\ Advance(c)[c] = at[c] + 1 /\ at[c] + 1 <= size[c]
      /\ FirstOf(c, at[c] + 1) = FirstOf(c, at[c]) \cup {e}
  BY <1>1, NextEventFits
<1> HIDE DEF e
<1>3. TypeOK'
  <2>1. stored' \in Seq(Events)
    <3>1. stored \in Seq(Events)
      BY DEF TypeOK
    <3>2. Append(stored, e) \in Seq(Events)
      BY <1>2, <3>1, AppendProperties
    <3> QED
      BY <1>1, <3>1, <3>2
  <2>2. pc' \in [Calls -> {"idle"} \cup Running \cup Ended]
    BY <1>1 DEF TypeOK
  <2>3. at' \in [Calls -> 0..MaxDrafts]
    BY <1>1, <1>2 DEF TypeOK
  <2> QED
    BY <1>1, <2>1, <2>2, <2>3 DEF TypeOK, dispatchRest, registryVars
<1>4. \A d \in Calls : d # c => Its(d, stored') = Its(d, stored)
  <2>1. stored \in Seq(Events)
    BY DEF TypeOK
  <2>2. \A d \in Calls : d # c => Its(d, Append(stored, e)) = Its(d, stored)
    BY <1>2, <2>1, ItsOfAppend
  <2> QED
    BY <1>1, <2>2
<1>5. ASSUME NEW d \in Calls, d # c
      PROVE  Progress(d)' /\ Checks(d)'
  <2>1. pc'[d] = pc[d] /\ at'[d] = at[d]
    BY <1>1, <1>5 DEF TypeOK, Advance
  <2> QED
    BY <1>1, <1>4, <1>5, <2>1, OthersKeep DEF dispatchRest
<1>6. Progress(c)' /\ Checks(c)'
  <2>1. CASE pc' = pc /\ at' = Advance(c) /\ stored' = Append(stored, e)
    <3>1. Its(c, stored') = Its(c, stored) \cup {e}
      BY <1>2, <2>1, ItsOfAppend DEF TypeOK
    <3>2. \A n : FirstOf(c, n)' = FirstOf(c, n)
      BY <1>1 DEF FirstOf, EventOf, dispatchRest
    <3> QED
      BY <1>1, <1>2, <2>1, <3>1, <3>2
         DEF Progress, Checks, Its, dispatchRest
  <2>2. CASE pc' = [pc EXCEPT ![c] = "pipeline_failed"] /\ at' = at
    <3>1. PICK i \in {at[c], at[c] + 1} : Its(c, stored') = FirstOf(c, i)
      <4>1. Its(c, Append(stored, e)) = Its(c, stored) \cup {e}
        BY <1>2, ItsOfAppend DEF TypeOK
      <4> QED
        BY <1>1, <1>2, <4>1 DEF Progress
    <3>2. Its(c, published) = {} /\ FirstOf(c, 0) = {}
      BY <1>1 DEF Progress, FirstOf
    <3>3. /\ Its(c, stored)' = FirstOf(c, i)' /\ Its(c, published)' = FirstOf(c, 0)'
          /\ size'[c] = size[c]
      BY <1>1, <3>1, <3>2 DEF FirstOf, EventOf, dispatchRest, Its
    <3>4. i \in 0..size[c] /\ 0 \in 0..size[c]
      BY <1>2, <3>1 DEF TypeOK
    <3>5. Partial(c)'
      BY <3>3, <3>4 DEF Partial
    <3> QED
      BY <2>2, <3>5 DEF TypeOK, Progress, Checks
  <2> QED
    BY <1>1, <2>1, <2>2
<1>7. ApprovedByItsMaker'
  <2>1. \A x \in Range(stored') : x \in Range(stored) \/ x = e
    <3>1. stored \in Seq(Events)
      BY DEF TypeOK
    <3>2. Range(Append(stored, e)) = Range(stored) \cup {e}
      BY <1>2, <3>1, RangeOfAppend
    <3> QED
      BY <1>1, <3>2
  <2>2. c \in authorized /\ maker[c] = validator[c]
    BY <1>1 DEF Checks
  <2> QED
    BY <1>1, <1>2, <2>1, <2>2 DEF ApprovedByItsMaker, dispatchRest
<1> QED
  BY <1>3, <1>5, <1>6, <1>7

\* One event more is published, and the call goes on or fails.
LEMMA PublishInv ==
  ASSUME Inv, NEW c \in Calls, PublishNext(c) \/ FailToPublish(c)
  PROVE  Inv'
<1> USE DEF Inv
<1> DEFINE e == NextEvent(c)
<1>1. /\ pc[c] = "publish" /\ HasNext(c)
      /\ published' \in {published, Append(published, e)}
      /\ UNCHANGED <<dispatchRest, stored>>
      /\ \/ /\ pc' = pc
            /\ at' = Advance(c)
            /\ published' = Append(published, e)
         \/ pc' = [pc EXCEPT ![c] = "pipeline_failed"] /\ at' = at
  BY DEF PublishNext, FailToPublish, Goto
<1>2. /\ e \in Events /\ e.call = c
      /\ Advance(c) \in [Calls -> 0..MaxDrafts]
      /\ Advance(c)[c] = at[c] + 1 /\ at[c] + 1 <= size[c]
      /\ FirstOf(c, at[c] + 1) = FirstOf(c, at[c]) \cup {e}
  BY <1>1, NextEventFits
<1> HIDE DEF e
<1>3. TypeOK'
  <2>1. published' \in Seq(Events)
    <3>1. published \in Seq(Events)
      BY DEF TypeOK
    <3>2. Append(published, e) \in Seq(Events)
      BY <1>2, <3>1, AppendProperties
    <3> QED
      BY <1>1, <3>1, <3>2
  <2>2. pc' \in [Calls -> {"idle"} \cup Running \cup Ended]
    BY <1>1 DEF TypeOK
  <2>3. at' \in [Calls -> 0..MaxDrafts]
    BY <1>1, <1>2 DEF TypeOK
  <2> QED
    BY <1>1, <2>1, <2>2, <2>3 DEF TypeOK, dispatchRest, registryVars
<1>4. \A d \in Calls : d # c => Its(d, published') = Its(d, published)
  <2>1. published \in Seq(Events)
    BY DEF TypeOK
  <2>2. \A d \in Calls : d # c => Its(d, Append(published, e)) = Its(d, published)
    BY <1>2, <2>1, ItsOfAppend
  <2> QED
    BY <1>1, <2>2
<1>5. ASSUME NEW d \in Calls, d # c
      PROVE  Progress(d)' /\ Checks(d)'
  <2>1. pc'[d] = pc[d] /\ at'[d] = at[d]
    BY <1>1, <1>5 DEF TypeOK, Advance
  <2> QED
    BY <1>1, <1>4, <1>5, <2>1, OthersKeep DEF dispatchRest
<1>6. Progress(c)' /\ Checks(c)'
  <2>1. CASE /\ pc' = pc
             /\ at' = Advance(c)
             /\ published' = Append(published, e)
    <3>1. Its(c, published') = Its(c, published) \cup {e}
      BY <1>2, <2>1, ItsOfAppend DEF TypeOK
    <3>2. \A n : FirstOf(c, n)' = FirstOf(c, n)
      BY <1>1 DEF FirstOf, EventOf, dispatchRest
    <3> QED
      BY <1>1, <1>2, <2>1, <3>1, <3>2
         DEF Progress, Checks, Its, dispatchRest
  <2>2. CASE pc' = [pc EXCEPT ![c] = "pipeline_failed"] /\ at' = at
    <3>1. PICK j \in {at[c], at[c] + 1} : Its(c, published') = FirstOf(c, j)
      <4>1. Its(c, Append(published, e)) = Its(c, published) \cup {e}
        BY <1>2, ItsOfAppend DEF TypeOK
      <4> QED
        BY <1>1, <1>2, <4>1 DEF Progress
    <3>2. Its(c, stored) = FirstOf(c, size[c])
      BY <1>1 DEF Progress
    <3>3. /\ Its(c, stored)' = FirstOf(c, size[c])'
          /\ Its(c, published)' = FirstOf(c, j)'
          /\ size'[c] = size[c]
      BY <1>1, <3>1, <3>2 DEF FirstOf, EventOf, dispatchRest, Its
    <3>4. j \in 0..size[c] /\ size[c] \in 0..size[c]
      BY <1>2, <3>1 DEF TypeOK
    <3>5. Partial(c)'
      BY <3>3, <3>4 DEF Partial
    <3> QED
      BY <2>2, <3>5 DEF TypeOK, Progress, Checks
  <2> QED
    BY <1>1, <2>1, <2>2
<1>7. ApprovedByItsMaker'
  BY <1>1 DEF ApprovedByItsMaker, dispatchRest
<1> QED
  BY <1>3, <1>5, <1>6, <1>7

\* A call that turns to publishing has stored its whole batch; one that
\* succeeds has published it; one that is dropped leaves what it has done.
LEMMA BetweenLoopsInv ==
  ASSUME Inv, NEW c \in Calls,
         StartPublishing(c) \/ Succeed(c) \/ Abandon(c)
  PROVE  Inv'
<1> USE DEF Inv
<1>1. /\ UNCHANGED dispatchRest
      /\ UNCHANGED portVars
  BY DEF StartPublishing, Succeed, Abandon
<1>2. \/ /\ pc[c] = "store" /\ at[c] >= size[c]
         /\ pc' = [pc EXCEPT ![c] = "publish"]
         /\ at' = [at EXCEPT ![c] = 0]
      \/ /\ pc[c] = "publish" /\ at[c] >= size[c]
         /\ pc' = [pc EXCEPT ![c] = "ok"]
         /\ at' = at
      \/ /\ pc[c] \in Running
         /\ pc' = [pc EXCEPT ![c] = "abandoned"]
         /\ at' = at
  BY DEF StartPublishing, Succeed, Abandon, StoreIsDone, HasNext, Rewind,
         Goto, TypeOK
<1>3. TypeOK'
  <2>1. pc' \in [Calls -> {"idle"} \cup Running \cup Ended]
    BY <1>2 DEF TypeOK
  <2>2. at' \in [Calls -> 0..MaxDrafts]
    <3>1. at \in [Calls -> 0..MaxDrafts] /\ 0 \in 0..MaxDrafts
      BY DEF TypeOK
    <3> QED
      BY <1>2, <3>1
  <2> QED
    BY <1>1, <2>1, <2>2 DEF TypeOK, dispatchRest, registryVars, portVars
<1>4. ASSUME NEW d \in Calls, d # c
      PROVE  Progress(d)' /\ Checks(d)'
  <2>1. pc'[d] = pc[d] /\ at'[d] = at[d]
    BY <1>2, <1>4 DEF TypeOK
  <2> QED
    BY <1>1, <1>4, <2>1, OthersKeep DEF dispatchRest, portVars
<1>5. Progress(c)' /\ Checks(c)'
  <2>1. \A n : FirstOf(c, n)' = FirstOf(c, n)
    BY <1>1 DEF FirstOf, EventOf, dispatchRest
  <2>2. Its(c, stored)' = Its(c, stored) /\ Its(c, published)' = Its(c, published)
    BY <1>1 DEF Its, portVars
  <2>3. at[c] \in Nat /\ size[c] \in Nat /\ Progress(c) /\ Checks(c)
    BY DEF TypeOK
  <2>4. FirstOf(c, 0) = {}
    BY DEF FirstOf
  <2>5. pc[c] \in {"store", "publish"} /\ at[c] >= size[c] => at[c] = size[c]
    BY <2>3 DEF Progress
  <2>6. Progress(c)'
    <3>1. size'[c] = size[c]
      BY <1>1 DEF dispatchRest
    <3>2. CASE /\ pc[c] = "store" /\ at[c] >= size[c]
               /\ pc' = [pc EXCEPT ![c] = "publish"]
               /\ at' = [at EXCEPT ![c] = 0]
      <4>1. pc'[c] = "publish" /\ at'[c] = 0
        BY <3>2 DEF TypeOK
      <4> QED
        BY <2>1, <2>2, <2>3, <2>4, <2>5, <3>1, <3>2, <4>1, SMTT(30)
        DEF Progress
    <3>3. CASE /\ pc[c] = "publish" /\ at[c] >= size[c]
               /\ pc' = [pc EXCEPT ![c] = "ok"]
               /\ at' = at
      <4>1. pc'[c] = "ok" /\ at'[c] = at[c]
        BY <3>3 DEF TypeOK
      <4> QED
        BY <2>1, <2>2, <2>3, <2>5, <3>1, <3>3, <4>1, SMTT(30)
        DEF Progress
    <3>4. CASE pc[c] \in Running /\ pc' = [pc EXCEPT ![c] = "abandoned"]
      <4>1. pc'[c] = "abandoned"
        BY <3>4 DEF TypeOK
      <4>2. Partial(c)
        <5>1. 0 \in 0..size[c] /\ size[c] \in 0..size[c]
          BY <2>3
        <5>2. CASE pc[c] \in {"validate", "authorize", "handle"}
          BY <2>3, <2>4, <5>1, <5>2 DEF Progress, Partial
        <5>3. CASE pc[c] \in {"store", "publish"}
          <6>1. at[c] \in 0..size[c]
            BY <2>3, <5>3 DEF Progress
          <6> QED
            BY <2>3, <2>4, <5>1, <5>3, <6>1 DEF Progress, Partial
        <5> QED
          BY <3>4, <5>2, <5>3
      <4>3. Partial(c)'
        BY <2>1, <2>2, <3>1, <4>2 DEF Partial
      <4> QED
        BY <4>1, <4>3 DEF Progress
    <3> QED
      BY <1>2, <3>2, <3>3, <3>4
  <2>7. Checks(c)'
    BY <1>1, <1>2, <2>3 DEF TypeOK, Checks, dispatchRest
  <2> QED
    BY <2>6, <2>7
<1>6. ApprovedByItsMaker'
  BY <1>1 DEF ApprovedByItsMaker, dispatchRest, portVars
<1> QED
  BY <1>3, <1>4, <1>5, <1>6

LEMMA NextInv == Inv /\ [Next]_vars => Inv'
<1> SUFFICES ASSUME Inv, [Next]_vars PROVE Inv'
  OBVIOUS
<1>1. ASSUME NEW t \in Types, NEW h \in Handlers, Register(t, h)
      PROVE  Inv'
  BY <1>1, RegistryInv DEF Register, Inv, TypeOK
<1>2. ASSUME NEW t \in Types, Unregister(t)
      PROVE  Inv'
  BY <1>2, RegistryInv DEF Unregister, Inv, TypeOK
<1>3. ASSUME NEW c \in Calls, Execute(c) \/ Abandon(c)
      PROVE  Inv'
  BY <1>3, BeforeDispatchInv, StoreInv, BetweenLoopsInv, PublishInv
     DEF Execute
<1>4. CASE UNCHANGED vars
  BY <1>4, RegistryInv DEF vars, registryVars, Inv, TypeOK
<1> QED
  BY <1>1, <1>2, <1>3, <1>4 DEF Next

LEMMA InvAlways == Spec => []Inv
BY InitInv, NextInv, PTL DEF Spec

-----------------------------------------------------------------------------
\* The variables keep their types, whatever calls and ports do
\* (runtime.rs:32-90, pipeline.rs:30-44).
THEOREM RuntimeTypeCorrect == Spec => []TypeOK
<1>1. Inv => TypeOK
  BY DEF Inv
<1> QED
  BY <1>1, InvAlways, PTL

\* What is stored was authorized, and validated by the handler that made it
\* (runtime.rs:33-62).
THEOREM ApprovedAlways == Spec => []ApprovedByItsMaker
<1>1. Inv => ApprovedByItsMaker
  BY DEF Inv
<1> QED
  BY <1>1, InvAlways, PTL

\* The answer of execute tells what the call has done to the store and the
\* bus: all of its batch, nothing, or the beginning of it when the pipeline
\* has failed or the caller has given up (runtime.rs:81-89, pipeline.rs:30-44).
THEOREM AnswerAlwaysTells == Spec => []AnswerTellsOutcome
<1>1. Inv => AnswerTellsOutcome
  BY DEF Inv, Progress, AnswerTellsOutcome, Partial
<1> QED
  BY <1>1, InvAlways, PTL

-----------------------------------------------------------------------------
\* The events of a batch are siblings.
LEMMA SiblingOfNext ==
  ASSUME NEW c \in Calls, NEW i
  PROVE  Journal!Sibling(NextEvent(c), i) = EventOf(c, i)
BY DEF Journal!Sibling, NextEvent, EventOf

\* Appending to the store is a step of the journal.
LEMMA StoreIsRecord ==
  ASSUME Inv, NEW c \in Calls, pc[c] = "store", HasNext(c),
         stored' = Append(stored, NextEvent(c)), UNCHANGED published
  PROVE  Journal!Next
<1> DEFINE e == NextEvent(c)
<1>1. /\ e \in Events /\ e.call = c /\ e.index = at[c] + 1
      /\ at[c] \in Nat
      /\ Its(c, stored) = FirstOf(c, at[c])
  BY NextEventFits DEF Inv, TypeOK, Progress
<1>2. e \notin Range(stored)
  <2>1. \A x \in FirstOf(c, at[c]) : x.index <= at[c]
    BY <1>1 DEF FirstOf, EventOf
  <2> QED
    BY <1>1, <2>1 DEF Its
<1>3. \A i \in 1..(e.index - 1) : Journal!Sibling(e, i) \in Range(stored)
  BY <1>1, SiblingOfNext DEF Its, FirstOf
<1>4. Journal!Record(e)
  BY <1>2, <1>3 DEF Journal!Record, Journal!Range, Range
<1> QED
  BY <1>1, <1>4 DEF Journal!Next

\* Publishing is a step of the journal.
LEMMA PublishIsAnnounce ==
  ASSUME Inv, NEW c \in Calls, pc[c] = "publish", HasNext(c),
         published' = Append(published, NextEvent(c)), UNCHANGED stored
  PROVE  Journal!Next
<1> DEFINE e == NextEvent(c)
<1>1. /\ e \in Events /\ e.call = c /\ e.index = at[c] + 1
      /\ e.size = size[c]
      /\ at[c] \in Nat
      /\ Its(c, stored) = FirstOf(c, size[c])
      /\ Its(c, published) = FirstOf(c, at[c])
  BY NextEventFits DEF Inv, TypeOK, Progress
<1>2. e \notin Range(published)
  <2>1. \A x \in FirstOf(c, at[c]) : x.index <= at[c]
    BY <1>1 DEF FirstOf, EventOf
  <2> QED
    BY <1>1, <2>1 DEF Its
<1>3. \A i \in 1..(e.index - 1) : Journal!Sibling(e, i) \in Range(published)
  BY <1>1, SiblingOfNext DEF Its, FirstOf
<1>4. \A i \in 1..e.size : Journal!Sibling(e, i) \in Range(stored)
  BY <1>1, SiblingOfNext DEF Its, FirstOf
<1>5. Journal!Announce(e)
  BY <1>2, <1>3, <1>4 DEF Journal!Announce, Journal!Range, Range
<1> QED
  BY <1>1, <1>5 DEF Journal!Next

\* The action runtime with its pipeline implements the write-ahead journal:
\* "Persists a complete event batch before publishing it" (pipeline.rs:11),
\* for any number of calls at once and wherever each of them fails.
THEOREM RuntimeImplementsJournal == Spec => StoredBeforePublished
<1>1. Init => Journal!Init
  BY DEF Init, Journal!Init
<1>2. Inv /\ [Next]_vars => [Journal!Next]_(Journal!vars)
  <2> SUFFICES ASSUME Inv, [Next]_vars, ~UNCHANGED portVars
               PROVE  Journal!Next
    BY DEF Journal!vars, portVars
  <2>1. PICK c \in Calls : \/ StoreNext(c) \/ FailToStore(c)
                           \/ PublishNext(c) \/ FailToPublish(c)
    BY DEF Next, vars, Execute, Abandon, Register, Unregister, Find,
           FindNone, Validate, Authorize, Handle, Refuse, StartPublishing,
           Succeed, portVars
  <2>2. CASE StoreNext(c) \/ FailToStore(c)
    BY <2>2, StoreIsRecord DEF StoreNext, FailToStore, portVars
  <2>3. CASE PublishNext(c) \/ FailToPublish(c)
    BY <2>3, PublishIsAnnounce DEF PublishNext, FailToPublish, portVars
  <2> QED
    BY <2>1, <2>2, <2>3
<1> QED
  BY <1>1, <1>2, InvAlways, PTL DEF Spec, StoredBeforePublished, Journal!Spec

=============================================================================
