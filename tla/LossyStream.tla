----------------------------- MODULE LossyStream -----------------------------
(***************************************************************************)
(* What an event bus promises the consumer of a subscription: a stream of  *)
(* the messages its filter accepts, those of one sender in the order they  *)
(* were sent and none of them twice.  A stream holds a bounded number of   *)
(* messages; the ones it has no room for are lost, and the consumer is     *)
(* told how many, in portions that never exceed the truth.  Nothing is     *)
(* added once the stream is shut.  MemoryEventBus implements it, if the    *)
(* missed events it counts do not saturate.                                *)
(***************************************************************************)
EXTENDS EventMatching, Sequences, Functions

CONSTANTS Streams,
          Filters,
          Messages,   \* records of a sender `by`, a number `num`, an `event`
          Capacity    \* of every stream

VARIABLES
    open,     \* the streams that accept messages
    wanted,   \* the filter of a stream, None before it is opened
    buffer,   \* the messages it holds
    got,      \* what its consumer has received
    lost,     \* the number of messages there was no room for
    told      \* how many of them the consumer has been told of

streamVars == <<open, wanted, buffer, got, lost, told>>

StreamInit ==
    /\ open = {}
    /\ wanted = [s \in Streams |-> None]
    /\ buffer = [s \in Streams |-> <<>>]
    /\ got = [s \in Streams |-> <<>>]
    /\ lost = [s \in Streams |-> 0]
    /\ told = [s \in Streams |-> 0]

Open(s, f) ==
    /\ wanted[s] = None
    /\ IsValid(f)
    /\ open' = open \cup {s}
    /\ wanted' = [wanted EXCEPT ![s] = f]
    /\ UNCHANGED <<buffer, got, lost, told>>

\* The message comes after all that its sender has sent to the stream.
IsNext(s, m) ==
    \A n \in Range(got[s]) \cup Range(buffer[s]) :
        n.by = m.by => n.num < m.num

Accept(s, m) ==
    /\ s \in open
    /\ Matches(wanted[s], m.event)
    /\ IsNext(s, m)
    /\ Len(buffer[s]) < Capacity
    /\ buffer' = [buffer EXCEPT ![s] = Append(@, m)]
    /\ UNCHANGED <<open, wanted, got, lost, told>>

Miss(s) ==
    /\ s \in open
    /\ Len(buffer[s]) = Capacity
    /\ lost' = [lost EXCEPT ![s] = @ + 1]
    /\ UNCHANGED <<open, wanted, buffer, got, told>>

Deliver(s) ==
    /\ buffer[s] # <<>>
    /\ got' = [got EXCEPT ![s] = Append(@, Head(buffer[s]))]
    /\ buffer' = [buffer EXCEPT ![s] = Tail(@)]
    /\ UNCHANGED <<open, wanted, lost, told>>

Tell(s, n) ==
    /\ n \in 1..(lost[s] - told[s])
    /\ told' = [told EXCEPT ![s] = @ + n]
    /\ UNCHANGED <<open, wanted, buffer, got, lost>>

Shut(s) ==
    /\ s \in open
    /\ open' = open \ {s}
    /\ UNCHANGED <<wanted, buffer, got, lost, told>>

Discard(s) ==
    /\ wanted[s] # None
    /\ s \notin open
    /\ buffer' = [buffer EXCEPT ![s] = <<>>]
    /\ UNCHANGED <<open, wanted, got, lost, told>>

StreamNext ==
    \E s \in Streams :
        \/ \E f \in Filters : Open(s, f)
        \/ \E m \in Messages : Accept(s, m)
        \/ Miss(s)
        \/ Deliver(s)
        \/ \E n \in 1..(lost[s] - told[s]) : Tell(s, n)
        \/ Shut(s)
        \/ Discard(s)

StreamSpec == StreamInit /\ [][StreamNext]_streamVars

=============================================================================
