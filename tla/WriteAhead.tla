----------------------------- MODULE WriteAhead -----------------------------
(***************************************************************************)
(* What dispatching promises whoever reads the store and whoever listens   *)
(* to the bus, however many batches are dispatched at once and wherever    *)
(* each of them ends: both are append-only, a batch is recorded from its   *)
(* first event on and announced from its first event on, no event appears  *)
(* twice in either, and none of a batch is announced before all of it is   *)
(* recorded.  ActionRuntime implements it.                                 *)
(***************************************************************************)
EXTENDS Integers, Sequences, Functions

CONSTANT Events    \* records with the batch they belong to, their index in
                   \* it, which counts from one, and its size

VARIABLES
    stored,      \* the events of the store, in append order
    published    \* the events announced on the bus, in their order

vars == <<stored, published>>

\* The event of the same batch at another index.
Sibling(e, i) == [e EXCEPT !.index = i]

Init == stored = <<>> /\ published = <<>>

Record(e) ==
    /\ e \notin Range(stored)
    /\ \A i \in 1..(e.index - 1) : Sibling(e, i) \in Range(stored)
    /\ stored' = Append(stored, e)
    /\ UNCHANGED published

Announce(e) ==
    /\ e \notin Range(published)
    /\ \A i \in 1..(e.index - 1) : Sibling(e, i) \in Range(published)
    /\ \A i \in 1..e.size : Sibling(e, i) \in Range(stored)
    /\ published' = Append(published, e)
    /\ UNCHANGED stored

Next == \E e \in Events : Record(e) \/ Announce(e)

Spec == Init /\ [][Next]_vars

=============================================================================
