------------------------------ MODULE Selection ------------------------------
(***************************************************************************)
(* What the program's iterators answer: the elements a filter keeps of a   *)
(* vector (Iterator::filter), and the keys of an ordered map (BTreeMap).   *)
(***************************************************************************)
EXTENDS Integers, Sequences, FiniteSets

\* The elements of s at the positions in I, as far as the n-th.
Kept(s, I, n) ==
    LET F[i \in 0..n] == IF i = 0 THEN <<>>
                         ELSE IF i \in I THEN Append(F[i - 1], s[i])
                         ELSE F[i - 1]
    IN  F[n]

\* The numbers of a finite set, the smallest first.
InOrder(S) ==
    CHOOSE s \in [1..Cardinality(S) -> S] :
        \A i, j \in DOMAIN s : i < j => s[i] < s[j]

=============================================================================
