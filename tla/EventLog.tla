------------------------------ MODULE EventLog ------------------------------
(***************************************************************************)
(* What an event store promises those who append to it and those who       *)
(* replay from it: an append-only log, in which an identity appears once,  *)
(* and for every reader a place up to which it has been given exactly the  *)
(* events it wants, in the order of the log.  A log may be lost as a       *)
(* whole, and another one be begun in its place; a reader that has been    *)
(* given events of a lost log is given none of another one.                *)
(* MemoryEventStore implements it.                                         *)
(***************************************************************************)
EXTENDS EventMatching, Selection, Functions

CONSTANTS Events,    \* records with an id, among others
          Readers,
          Queries,
          MaxEpochs  \* bound: logs, one after the other

VARIABLES
    epoch,    \* the number of the log
    log,      \* its events
    wants,    \* a reader's query, None before it has one
    place,    \* how much of the log a reader has covered
    seen,     \* what it has been given
    reads     \* the log a reader reads

logVars == <<epoch, log>>
readerVars == <<wants, place, seen, reads>>
vars == <<logVars, readerVars>>

LogInit ==
    /\ epoch = 1
    /\ log = <<>>
    /\ wants = [r \in Readers |-> None]
    /\ place = [r \in Readers |-> 0]
    /\ seen = [r \in Readers |-> <<>>]
    /\ reads = [r \in Readers |-> 1]

Record(e) ==
    /\ \A f \in Range(log) : f.id # e.id
    /\ log' = Append(log, e)
    /\ UNCHANGED <<epoch, readerVars>>

Begin(r, q) ==
    /\ wants[r] = None
    /\ wants' = [wants EXCEPT ![r] = q]
    /\ UNCHANGED <<logVars, place, seen, reads>>

Wanted(r, first, last) ==
    Kept(log, {i \in first..last : QueryMatches(wants[r], log[i])}, last)

\* A reader is given what it wants of the next events, up to the n-th.
Read(r, n) ==
    /\ wants[r] # None
    /\ reads[r] = epoch
    /\ n \in place[r]..Len(log)
    /\ seen' = [seen EXCEPT ![r] = @ \o Wanted(r, place[r] + 1, n)]
    /\ place' = [place EXCEPT ![r] = n]
    /\ UNCHANGED <<logVars, wants, reads>>

Lose ==
    /\ epoch < MaxEpochs
    /\ epoch' = epoch + 1
    /\ log' = <<>>
    /\ place' = [r \in Readers |-> IF seen[r] = <<>> THEN 0 ELSE place[r]]
    /\ reads' = [r \in Readers |-> IF seen[r] = <<>> THEN epoch' ELSE reads[r]]
    /\ UNCHANGED <<wants, seen>>

LogNext ==
    \/ \E e \in Events : Record(e)
    \/ \E r \in Readers :
          \/ \E q \in Queries : Begin(r, q)
          \/ \E n \in 0..Len(log) : Read(r, n)
    \/ Lose

LogSpec == LogInit /\ [][LogNext]_vars

=============================================================================
