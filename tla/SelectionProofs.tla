--------------------------- MODULE SelectionProofs ---------------------------
(***************************************************************************)
(* Facts about filtered sequences and ordered enumerations, for sequences  *)
(* and sets of any size.  The induction they need is on a set: a set of    *)
(* natural numbers that has zero and, with a number, the next, has all.    *)
(***************************************************************************)
EXTENDS Selection, FiniteSetTheorems, SequenceTheorems, WellFoundedInduction,
        TLAPS

-----------------------------------------------------------------------------
NatLess == {p \in Nat \X Nat : p[1] < p[2]}

LEMMA NatLessWellFounded == IsWellFoundedOn(NatLess, Nat)
BY NatLessThanWellFounded DEF OpToRel, NatLess

\* Some numbers have a smallest one among them.
LEMMA Least ==
  ASSUME NEW T \in SUBSET Nat, T # {}
  PROVE  \E x \in T : \A y \in T : x <= y
<1>1. PICK x \in T : \A y \in T : ~(<<y, x>> \in NatLess)
  BY NatLessWellFounded, WFMin
<1>2. \A y \in T : ~(y < x)
  <2>1. ASSUME NEW y \in T, y < x PROVE <<y, x>> \in NatLess
    BY <2>1 DEF NatLess
  <2> QED
    BY <1>1, <2>1
<1> QED
  BY <1>2

LEMMA SetInduction ==
  ASSUME NEW T \in SUBSET Nat, 0 \in T, \A n \in T : n + 1 \in T
  PROVE  T = Nat
<1> SUFFICES ASSUME T # Nat PROVE FALSE
  OBVIOUS
<1>1. PICK x \in Nat \ T : \A y \in Nat \ T : x <= y
  BY Least
<1>2. x # 0 /\ x - 1 \in Nat /\ x - 1 \in T
  BY <1>1
<1> QED
  BY <1>1, <1>2

-----------------------------------------------------------------------------
\* The function that Kept computes is there, as far as one likes.
IsKeeper(f, s, I, n) ==
    f = [i \in 0..n |-> IF i = 0 THEN <<>>
                        ELSE IF i \in I THEN Append(f[i - 1], s[i])
                        ELSE f[i - 1]]

LEMMA KeeperExists ==
  ASSUME NEW s, NEW I, NEW n \in Nat
  PROVE  \E f : IsKeeper(f, s, I, n)
<1> DEFINE T == {m \in Nat : \E f : IsKeeper(f, s, I, m)}
<1>1. 0 \in T
  <2> DEFINE f == [i \in 0..0 |-> <<>>]
  <2>1. IsKeeper(f, s, I, 0)
    BY DEF IsKeeper
  <2> QED
    BY <2>1
<1>2. ASSUME NEW m \in T PROVE m + 1 \in T
  <2>1. PICK f : IsKeeper(f, s, I, m)
    OBVIOUS
  <2> DEFINE g == [i \in 0..(m + 1) |->
                      IF i <= m THEN f[i]
                      ELSE IF i \in I THEN Append(f[i - 1], s[i])
                      ELSE f[i - 1]]
  <2>2. \A i \in 0..m : f[i] = IF i = 0 THEN <<>>
                        ELSE IF i \in I THEN Append(f[i - 1], s[i])
                        ELSE f[i - 1]
    BY <2>1 DEF IsKeeper
  <2>3. \A i \in 0..m : g[i] = f[i]
    OBVIOUS
  <2>4. \A i \in 0..(m + 1) : i # 0 => i - 1 \in 0..m
    OBVIOUS
  <2>5. \A i \in 0..(m + 1) : g[i] = IF i = 0 THEN <<>>
                        ELSE IF i \in I THEN Append(g[i - 1], s[i])
                        ELSE g[i - 1]
    BY <2>2, <2>3, <2>4
  <2>6. IsKeeper(g, s, I, m + 1)
    <3> HIDE <2>2, <2>3, <2>4
    <3>1. g = [i \in 0..(m + 1) |-> g[i]]
      OBVIOUS
    <3> HIDE DEF g
    <3> QED
      BY <2>5, <3>1 DEF IsKeeper
  <2> QED
    BY <2>6
<1> HIDE DEF T
<1>3. T = Nat
  BY <1>1, <1>2, SetInduction DEF T
<1> QED
  BY <1>3 DEF T


-----------------------------------------------------------------------------
\* Kept, one element at a time: it depends on the elements before alone.
LEMMA KeptOf ==
  ASSUME NEW s, NEW I, NEW n \in Nat
  PROVE  \E f : IsKeeper(f, s, I, n) /\ Kept(s, I, n) = f[n]
<1> DEFINE Def(f) == [i \in 0..n |-> IF i = 0 THEN <<>>
                                     ELSE IF i \in I THEN Append(f[i - 1], s[i])
                                     ELSE f[i - 1]]
           F == CHOOSE f : f = Def(f)
<1>1. \E f : f = Def(f)
  <2>1. PICK f : IsKeeper(f, s, I, n)
    BY KeeperExists
  <2>2. f = Def(f)
    BY <2>1 DEF IsKeeper
  <2> HIDE DEF Def
  <2> QED
    BY <2>2
<1>2. F = Def(F)
  <2> HIDE DEF Def
  <2> QED
    BY <1>1
<1>3. Kept(s, I, n) = F[n]
  BY DEF Kept
<1> QED
  BY <1>2, <1>3 DEF IsKeeper

LEMMA KeepersAgree ==
  ASSUME NEW s, NEW t, NEW I, NEW J, NEW m \in Nat, NEW n \in Nat, NEW f, NEW g,
         IsKeeper(f, s, I, m), IsKeeper(g, t, J, n), m <= n,
         \A i \in 1..m : (i \in I <=> i \in J) /\ (i \in I => s[i] = t[i])
  PROVE  f[m] = g[m]
<1> DEFINE T == {k \in Nat : k <= m => f[k] = g[k]}
<1>1. \A i \in 0..m : f[i] = IF i = 0 THEN <<>>
                      ELSE IF i \in I THEN Append(f[i - 1], s[i])
                      ELSE f[i - 1]
  BY DEF IsKeeper
<1>2. \A i \in 0..n : g[i] = IF i = 0 THEN <<>>
                      ELSE IF i \in J THEN Append(g[i - 1], t[i])
                      ELSE g[i - 1]
  BY DEF IsKeeper
<1>3. 0 \in T
  BY <1>1, <1>2
<1>4. ASSUME NEW k \in T PROVE k + 1 \in T
  <2> SUFFICES ASSUME k + 1 <= m PROVE f[k + 1] = g[k + 1]
    OBVIOUS
  <2>1. /\ k + 1 \in 1..m /\ k + 1 \in 0..m /\ k + 1 \in 0..n
        /\ k + 1 # 0 /\ (k + 1) - 1 = k /\ k <= m
    OBVIOUS
  <2>2. f[k] = g[k]
    BY <2>1
  <2>3. f[k + 1] = IF k + 1 \in I THEN Append(f[k], s[k + 1]) ELSE f[k]
    BY <1>1, <2>1
  <2>4. g[k + 1] = IF k + 1 \in J THEN Append(g[k], t[k + 1]) ELSE g[k]
    BY <1>2, <2>1
  <2> QED
    BY <2>1, <2>2, <2>3, <2>4
<1> HIDE DEF T
<1>5. T = Nat
  BY <1>3, <1>4, SetInduction DEF T
<1> QED
  BY <1>5 DEF T

\* What is kept depends on the elements at the positions alone.
LEMMA KeptSame ==
  ASSUME NEW s, NEW t, NEW I, NEW J, NEW n \in Nat,
         \A i \in 1..n : (i \in I <=> i \in J) /\ (i \in I => s[i] = t[i])
  PROVE  Kept(s, I, n) = Kept(t, J, n)
<1>1. PICK f : IsKeeper(f, s, I, n) /\ Kept(s, I, n) = f[n]
  BY KeptOf
<1>2. PICK g : IsKeeper(g, t, J, n) /\ Kept(t, J, n) = g[n]
  BY KeptOf
<1>3. f[n] = g[n]
  BY <1>1, <1>2, KeepersAgree
<1> QED
  BY <1>1, <1>2, <1>3

\* Nothing is kept of no elements.
LEMMA KeptZero ==
  ASSUME NEW s, NEW I
  PROVE  Kept(s, I, 0) = <<>>
<1>1. PICK f : IsKeeper(f, s, I, 0) /\ Kept(s, I, 0) = f[0]
  BY KeptOf
<1> QED
  BY <1>1 DEF IsKeeper

\* One more element.
LEMMA KeptNext ==
  ASSUME NEW s, NEW I, NEW n \in Nat
  PROVE  Kept(s, I, n + 1) = IF n + 1 \in I
                             THEN Append(Kept(s, I, n), s[n + 1])
                             ELSE Kept(s, I, n)
<1>2. PICK f : IsKeeper(f, s, I, n) /\ Kept(s, I, n) = f[n]
  BY KeptOf
<1>3. PICK g : IsKeeper(g, s, I, n + 1) /\ Kept(s, I, n + 1) = g[n + 1]
  BY KeptOf
<1>4. f[n] = g[n]
  BY <1>2, <1>3, KeepersAgree
<1>5. g[n + 1] = IF n + 1 \in I THEN Append(g[n], s[n + 1]) ELSE g[n]
  <2>1. n + 1 \in 0..(n + 1) /\ n + 1 # 0 /\ (n + 1) - 1 = n
    OBVIOUS
  <2> QED
    BY <1>3, <2>1 DEF IsKeeper
<1> QED
  BY <1>2, <1>3, <1>4, <1>5

\* The elements are those at the positions.
LEMMA KeptType ==
  ASSUME NEW V, NEW s \in Seq(V), NEW I, NEW n \in 0..Len(s)
  PROVE  Kept(s, I, n) \in Seq(V)
<1> DEFINE T == {k \in Nat : k <= n => Kept(s, I, k) \in Seq(V)}
<1>1. 0 \in T
  <2>1. Kept(s, I, 0) \in Seq(V)
    BY KeptZero, EmptySeq
  <2> QED
    BY <2>1
<1>2. ASSUME NEW k \in T PROVE k + 1 \in T
  <2> SUFFICES ASSUME k + 1 <= n PROVE Kept(s, I, k + 1) \in Seq(V)
    OBVIOUS
  <2>1. Kept(s, I, k) \in Seq(V) /\ k + 1 \in 1..n
    OBVIOUS
  <2>2. k + 1 \in I => Append(Kept(s, I, k), s[k + 1]) \in Seq(V)
    BY <2>1
  <2>3. Kept(s, I, k + 1) = IF k + 1 \in I
                            THEN Append(Kept(s, I, k), s[k + 1])
                            ELSE Kept(s, I, k)
    BY KeptNext
  <2> QED
    BY <2>1, <2>2, <2>3
<1>3. T \in SUBSET Nat
  OBVIOUS
<1>4. T = Nat
  <2> HIDE DEF T
  <2> QED
    BY <1>1, <1>2, <1>3, SetInduction
<1>5. n \in T
  BY <1>4
<1> QED
  BY <1>5

\* Where there are no positions, nothing is kept.
LEMMA KeptNone ==
  ASSUME NEW s, NEW I, NEW n \in Nat, \A i \in 1..n : i \notin I
  PROVE  Kept(s, I, n) = <<>>
<1> DEFINE T == {k \in Nat : k <= n => Kept(s, I, k) = <<>>}
<1>1. 0 \in T
  BY KeptZero
<1>2. ASSUME NEW k \in T PROVE k + 1 \in T
  <2> SUFFICES ASSUME k + 1 <= n PROVE Kept(s, I, k + 1) = <<>>
    OBVIOUS
  <2>1. Kept(s, I, k) = <<>> /\ k + 1 \notin I
    OBVIOUS
  <2> QED
    BY <2>1, KeptNext
<1>3. T \in SUBSET Nat
  OBVIOUS
<1>4. T = Nat
  <2> HIDE DEF T
  <2> QED
    BY <1>1, <1>2, <1>3, SetInduction
<1>5. n \in T
  BY <1>4
<1> QED
  BY <1>5

LEMMA AppendConcat ==
  ASSUME NEW V, NEW x \in Seq(V), NEW y \in Seq(V), NEW v \in V,
         NEW z, z = x \o y, NEW w, w = Append(y, v), NEW u, u = Append(z, v)
  PROVE  u = x \o w
<1>1. z \in Seq(V) /\ <<v>> \in Seq(V)
  OBVIOUS
<1>2. u = z \o <<v>>
  BY <1>1, AppendIsConcat
<1>3. w = y \o <<v>>
  BY AppendIsConcat
<1>4. z \o <<v>> = x \o w
  BY <1>1, <1>3, ConcatAssociative
<1> QED
  BY <1>2, <1>4

\* What is kept to a position, and then what is kept after it.
LEMMA KeptSplit ==
  ASSUME NEW V, NEW s \in Seq(V), NEW I, NEW J, NEW n \in 0..Len(s),
         NEW a \in 0..n,
         \A i \in 1..n : i \in J <=> i \in I /\ a < i
  PROVE  /\ Kept(s, I, a) \in Seq(V) /\ Kept(s, J, n) \in Seq(V)
         /\ Kept(s, I, n) = Kept(s, I, a) \o Kept(s, J, n)
<1>1. Kept(s, I, a) \in Seq(V) /\ Kept(s, J, n) \in Seq(V)
  BY KeptType
<1>2. PICK x \in Seq(V) : x = Kept(s, I, a)
  BY <1>1
<1> DEFINE T == {k \in Nat : a <= k /\ k <= n =>
                                Kept(s, I, k) = x \o Kept(s, J, k)}
<1>3. Kept(s, I, a) = x \o Kept(s, J, a)
  <2>1. Kept(s, J, a) = <<>>
    BY KeptNone
  <2> QED
    BY <1>2, <2>1, ConcatEmptySeq
<1>4. 0 \in T
  <2>1. ASSUME a <= 0 PROVE Kept(s, I, 0) = x \o Kept(s, J, 0)
    <3>1. a = 0
      BY <2>1
    <3> QED
      BY <1>3, <3>1
  <2> QED
    BY <2>1
<1>5. ASSUME NEW k \in T PROVE k + 1 \in T
  <2> SUFFICES ASSUME a <= k + 1, k + 1 <= n
               PROVE  Kept(s, I, k + 1) = x \o Kept(s, J, k + 1)
    OBVIOUS
  <2>1. CASE a = k + 1
    BY <1>3, <2>1
  <2>2. CASE a <= k
    <3> DEFINE y == Kept(s, J, k)
    <3>1. /\ k + 1 \in 1..n
          /\ k + 1 \in J <=> k + 1 \in I
          /\ Kept(s, I, k) = x \o y
      BY <2>2
    <3>2. y \in Seq(V)
      BY <3>1, KeptType
    <3>3. /\ Kept(s, I, k + 1) = IF k + 1 \in I
                                 THEN Append(Kept(s, I, k), s[k + 1])
                                 ELSE Kept(s, I, k)
          /\ Kept(s, J, k + 1) = IF k + 1 \in J THEN Append(y, s[k + 1]) ELSE y
      BY KeptNext
    <3> HIDE DEF y, T
    <3>4. CASE k + 1 \in I
      <4>1. s[k + 1] \in V
        BY <3>1, <3>4
      <4>2. PICK u, w, z : /\ u = Kept(s, I, k + 1)
                           /\ w = Kept(s, J, k + 1)
                           /\ z = Kept(s, I, k)
        OBVIOUS
      <4>3. z = x \o y /\ w = Append(y, s[k + 1]) /\ u = Append(z, s[k + 1])
        BY <3>1, <3>3, <3>4, <4>2
      <4>4. u = x \o w
        BY <3>2, <4>1, <4>3, AppendConcat
      <4> QED
        BY <4>2, <4>4
    <3>5. CASE k + 1 \notin I
      BY <3>1, <3>3, <3>5
    <3> QED
      BY <3>4, <3>5
  <2> QED
    BY <2>1, <2>2
<1>6. T \in SUBSET Nat
  OBVIOUS
<1>7. T = Nat
  <2> HIDE DEF T
  <2> QED
    BY <1>4, <1>5, <1>6, SetInduction
<1>8. n \in T /\ a <= n
  BY <1>7
<1> QED
  BY <1>1, <1>2, <1>8

LEMMA TakeOfAppend ==
  ASSUME NEW V, NEW y \in Seq(V), NEW v \in V, NEW z, z = Append(y, v),
         NEW j \in 1..Len(y), NEW w, w = SubSeq(z, 1, j)
  PROVE  w = SubSeq(y, 1, j)
<1>1. z \in Seq(V) /\ Len(z) = Len(y) + 1 /\ \A i \in 1..Len(y) : z[i] = y[i]
  BY AppendProperties
<1>2. Len(y) \in Nat
  OBVIOUS
<1>3. PICK u : u = SubSeq(y, 1, j)
  OBVIOUS
<1>4. /\ w \in Seq(V) /\ u \in Seq(V)
      /\ Len(w) = j /\ Len(u) = j
      /\ \A i \in 1..j : w[i] = z[i] /\ u[i] = y[i]
  <2>1. \A i \in 1..j : z[i] \in V /\ y[i] \in V
    BY <1>1, <1>2
  <2> QED
    BY <1>2, <1>3, <2>1, SubSeqProperties
<1>5. \A i \in 1..Len(w) : w[i] = u[i]
  BY <1>1, <1>2, <1>4
<1>6. w = u
  BY <1>4, <1>5, SeqEqual
<1> QED
  BY <1>3, <1>6

\* Whatever number of elements of x one takes, they are what is kept as far as
\* the position of the last of them.
Taken(s, I, n, x, j) ==
    \E p \in 1..n : p \in I /\ x[j] = s[p] /\ Kept(s, I, p) = SubSeq(x, 1, j)

LEMMA KeptTaken ==
  ASSUME NEW V, NEW s \in Seq(V), NEW I, NEW n \in 0..Len(s),
         NEW x, x = Kept(s, I, n), NEW j \in DOMAIN x
  PROVE  Taken(s, I, n, x, j)
<1> DEFINE At(k, i, p) == /\ p \in I
                          /\ Kept(s, I, k)[i] = s[p]
                          /\ Kept(s, I, p) = SubSeq(Kept(s, I, k), 1, i)
           T == {k \in Nat : k <= n =>
                    \A i \in 1..Len(Kept(s, I, k)) : \E p \in 1..k : At(k, i, p)}
<1>1. 0 \in T
  <2>1. Len(Kept(s, I, 0)) = 0
    BY KeptZero
  <2> HIDE DEF At
  <2> QED
    BY <2>1
<1>2. ASSUME NEW k \in T PROVE k + 1 \in T
  <2> SUFFICES ASSUME k + 1 <= n, NEW i \in 1..Len(Kept(s, I, k + 1))
               PROVE  \E p \in 1..(k + 1) : At(k + 1, i, p)
    <3> HIDE DEF At
    <3> QED
      OBVIOUS
  <2> DEFINE y == Kept(s, I, k)
             z == Kept(s, I, k + 1)
  <2>1. /\ k \in Nat /\ k + 1 \in 1..n
        /\ \A h \in 1..Len(y) : \E p \in 1..k : At(k, h, p)
    <3> HIDE DEF At, y
    <3> QED
      BY DEF y
  <2>2. y \in Seq(V) /\ z \in Seq(V)
    BY <2>1, KeptType
  <2>3. z = IF k + 1 \in I THEN Append(y, s[k + 1]) ELSE y
    BY <2>1, KeptNext
  <2>4. CASE k + 1 \notin I
    <3>1. z = y
      BY <2>3, <2>4
    <3>2. PICK p \in 1..k : At(k, i, p)
      <4> HIDE DEF At, y
      <4> QED
        BY <2>1, <3>1
    <3>3. At(k + 1, i, p)
      BY <3>1, <3>2
    <3> HIDE DEF At
    <3> QED
      BY <2>1, <3>3
  <2>5. CASE k + 1 \in I /\ i \in 1..Len(y)
    <3>1. s[k + 1] \in V /\ z = Append(y, s[k + 1])
      BY <2>1, <2>3, <2>5
    <3>2. PICK p \in 1..k : At(k, i, p)
      <4> HIDE DEF At, y
      <4> QED
        BY <2>1, <2>5
    <3>3. z[i] = y[i]
      <4> HIDE DEF y, z
      <4> QED
        BY <2>2, <2>5, <3>1, AppendProperties
    <3>4. SubSeq(z, 1, i) = SubSeq(y, 1, i)
      <4>1. PICK u, w : u = SubSeq(y, 1, i) /\ w = SubSeq(z, 1, i)
        OBVIOUS
      <4> HIDE DEF y, z, At
      <4>2. w = SubSeq(y, 1, i)
        BY <2>2, <2>5, <3>1, <4>1, TakeOfAppend
      <4> QED
        BY <4>1, <4>2
    <3>5. At(k + 1, i, p)
      BY <3>2, <3>3, <3>4
    <3> HIDE DEF At
    <3> QED
      BY <2>1, <3>5
  <2>6. CASE k + 1 \in I /\ i \notin 1..Len(y)
    <3>1. s[k + 1] \in V /\ z = Append(y, s[k + 1])
      BY <2>1, <2>3, <2>6
    <3>2. i \in 1..Len(z)
      OBVIOUS
    <3>3. i = Len(z) /\ z[i] = s[k + 1]
      <4> HIDE DEF y, z, At
      <4> QED
        BY <2>2, <2>6, <3>1, <3>2, AppendProperties
    <3>4. SubSeq(z, 1, i) = z
      <4> HIDE DEF y, z, At
      <4> QED
        BY <2>2, <3>3, SubSeqFull
    <3>5. At(k + 1, i, k + 1)
      BY <2>6, <3>3, <3>4
    <3> HIDE DEF At
    <3> QED
      BY <2>1, <3>5
  <2> HIDE DEF At
  <2> QED
    BY <2>4, <2>5, <2>6
<1>3. T \in SUBSET Nat
  OBVIOUS
<1>4. T = Nat
  <2> HIDE DEF T
  <2> QED
    BY <1>1, <1>2, <1>3, SetInduction
<1>5. n \in T
  BY <1>4
<1> HIDE DEF At
<1>6. j \in 1..Len(Kept(s, I, n))
  BY KeptType, LenProperties
<1>7. PICK p \in 1..n : At(n, j, p)
  BY <1>5, <1>6
<1> QED
  BY <1>7 DEF At, Taken

\* Every element at one of the positions is kept.
LEMMA KeptHas ==
  ASSUME NEW V, NEW s \in Seq(V), NEW I, NEW n \in 0..Len(s),
         NEW p \in 1..n, p \in I
  PROVE  /\ Kept(s, I, n) \in Seq(V)
         /\ \E j \in 1..Len(Kept(s, I, n)) : Kept(s, I, n)[j] = s[p]
<1>1. p - 1 \in Nat /\ p \in Nat /\ (p - 1) + 1 = p
  OBVIOUS
<1>0. PICK J : \A i \in 1..n : i \in J <=> i \in I /\ p < i
  <2> WITNESS {i \in 1..n : i \in I /\ p < i}
  <2> QED
    OBVIOUS
<1>2. PICK x, y, z : /\ x = Kept(s, I, p)
                     /\ y = Kept(s, J, n)
                     /\ z = Kept(s, I, n)
  OBVIOUS
<1>3. x \in Seq(V) /\ y \in Seq(V) /\ z = x \o y
  <2>1. p \in 0..n
    OBVIOUS
  <2>2. x \in Seq(V) /\ y \in Seq(V) /\ z \in Seq(V)
    BY <1>0, <1>1, <1>2, KeptType
  <2>3. Kept(s, I, n) = Kept(s, I, p) \o Kept(s, J, n)
    BY <1>0, <2>1, KeptSplit
  <2>4. z = x \o y
    BY <1>2, <2>3
  <2> QED
    BY <2>2, <2>4
<1>4. PICK w : w = Kept(s, I, p - 1)
  OBVIOUS
<1>5. w \in Seq(V) /\ x = Append(w, s[p])
  <2>1. w \in Seq(V)
    BY <1>1, <1>4, KeptType
  <2>2. Kept(s, I, (p - 1) + 1) = IF (p - 1) + 1 \in I
                                  THEN Append(w, s[(p - 1) + 1]) ELSE w
    BY <1>1, <1>4, KeptNext
  <2>3. x = Append(w, s[p])
    BY <1>1, <1>2, <2>2
  <2> QED
    BY <2>1, <2>3
<1>6. s[p] \in V
  OBVIOUS
<1>7. Len(x) = Len(w) + 1 /\ x[Len(w) + 1] = s[p] /\ Len(w) \in Nat
  BY <1>5, <1>6, AppendProperties
<1>8. Len(w) + 1 \in 1..Len(z) /\ z[Len(w) + 1] = s[p]
  BY <1>3, <1>7, ConcatProperties
<1> QED
  BY <1>2, <1>3, <1>8

\* The functions from V to W, by a name the provers look for.
Maps(V, W) == [V -> W]

\* What a function makes of the elements of a sequence.
Mapped(g, x) == [j \in 1..Len(x) |-> g[x[j]]]

LEMMA MappedType ==
  ASSUME NEW V, NEW W, NEW g \in Maps(V, W), NEW x \in Seq(V)
  PROVE  /\ Mapped(g, x) \in Seq(W)
         /\ Len(Mapped(g, x)) = Len(x)
         /\ \A j \in 1..Len(x) : Mapped(g, x)[j] = g[x[j]]
<1> USE DEF Maps
<1>1. Len(x) \in Nat /\ \A j \in 1..Len(x) : x[j] \in V
  BY LenProperties
<1>2. PICK n, m : n = Len(x) /\ m = Mapped(g, x)
  OBVIOUS
<1>3. m \in [1..n -> W]
  BY <1>1, <1>2 DEF Mapped
<1>4. m \in Seq(W) /\ Len(m) = n
  BY <1>1, <1>2, <1>3
<1>5. \A j \in 1..n : m[j] = g[x[j]]
  BY <1>2 DEF Mapped
<1> QED
  BY <1>2, <1>4, <1>5

LEMMA MappedAppend ==
  ASSUME NEW V, NEW W, NEW g \in Maps(V, W), NEW x \in Seq(V), NEW v \in V
  PROVE  Mapped(g, Append(x, v)) = Append(Mapped(g, x), g[v])
<1>1. PICK y : y = Append(x, v)
  OBVIOUS
<1>2. PICK m : m = Mapped(g, x)
  OBVIOUS
<1>3. PICK k : k = Mapped(g, y)
  OBVIOUS
<1>4. PICK h : h = Append(m, g[v])
  OBVIOUS
<1>5. /\ y \in Seq(V) /\ Len(y) = Len(x) + 1 /\ Len(x) \in Nat
      /\ \A j \in 1..Len(x) : y[j] = x[j]
      /\ y[Len(x) + 1] = v
  BY <1>1, AppendProperties, LenProperties
<1>6. /\ m \in Seq(W) /\ Len(m) = Len(x)
      /\ \A j \in 1..Len(x) : m[j] = g[x[j]]
  BY <1>2, MappedType
<1>7. /\ k \in Seq(W) /\ Len(k) = Len(x) + 1
      /\ \A j \in 1..(Len(x) + 1) : k[j] = g[y[j]]
  BY <1>3, <1>5, MappedType
<1>8. g[v] \in W
  BY DEF Maps
<1>9. /\ h \in Seq(W) /\ Len(h) = Len(m) + 1
      /\ \A j \in 1..Len(m) : h[j] = m[j]
      /\ h[Len(m) + 1] = g[v]
  BY <1>4, <1>6, <1>8, AppendProperties
<1>10. Len(k) = Len(h) /\ \A j \in 1..Len(k) : k[j] = h[j]
  BY <1>5, <1>6, <1>7, <1>9
<1>11. k = h
  BY <1>7, <1>9, <1>10, SeqEqual
<1> QED
  BY <1>1, <1>2, <1>3, <1>4, <1>11

LEMMA MappedConcat ==
  ASSUME NEW V, NEW W, NEW g \in Maps(V, W), NEW x \in Seq(V), NEW z \in Seq(V)
  PROVE  Mapped(g, x \o z) = Mapped(g, x) \o Mapped(g, z)
<1>1. PICK y : y = x \o z
  OBVIOUS
<1>2. PICK m : m = Mapped(g, x)
  OBVIOUS
<1>3. PICK w : w = Mapped(g, z)
  OBVIOUS
<1>4. PICK k : k = Mapped(g, y)
  OBVIOUS
<1>5. PICK h : h = m \o w
  OBVIOUS
<1>6. /\ y \in Seq(V) /\ Len(y) = Len(x) + Len(z)
      /\ Len(x) \in Nat /\ Len(z) \in Nat
      /\ \A j \in 1..(Len(x) + Len(z)) :
            y[j] = IF j <= Len(x) THEN x[j] ELSE z[j - Len(x)]
  BY <1>1, ConcatProperties, LenProperties
<1>7. /\ m \in Seq(W) /\ Len(m) = Len(x)
      /\ \A j \in 1..Len(x) : m[j] = g[x[j]]
  BY <1>2, MappedType
<1>8. /\ w \in Seq(W) /\ Len(w) = Len(z)
      /\ \A j \in 1..Len(z) : w[j] = g[z[j]]
  BY <1>3, MappedType
<1>9. /\ k \in Seq(W) /\ Len(k) = Len(x) + Len(z)
      /\ \A j \in 1..(Len(x) + Len(z)) : k[j] = g[y[j]]
  BY <1>4, <1>6, MappedType
<1>10. /\ h \in Seq(W) /\ Len(h) = Len(m) + Len(w)
       /\ \A j \in 1..(Len(m) + Len(w)) :
             h[j] = IF j <= Len(m) THEN m[j] ELSE w[j - Len(m)]
  <2>1. m \in Seq(W) /\ w \in Seq(W)
    BY <1>7, <1>8
  <2> QED
    BY <1>5, <2>1, ConcatProperties
<1>11. Len(k) = Len(h)
  BY <1>7, <1>8, <1>9, <1>10
<1>12. ASSUME NEW j \in 1..Len(k) PROVE k[j] = h[j]
  <2>1. CASE j <= Len(x)
    <3>1. j \in 1..Len(x) /\ j \in 1..(Len(x) + Len(z)) /\ j \in 1..(Len(m) + Len(w))
      BY <1>6, <1>7, <1>8, <1>9, <2>1
    <3>2. k[j] = g[x[j]]
      BY <1>6, <1>9, <2>1, <3>1
    <3>3. h[j] = m[j]
      BY <1>7, <1>10, <2>1, <3>1
    <3> QED
      BY <1>7, <3>1, <3>2, <3>3
  <2>2. CASE j > Len(x)
    <3>1. /\ j - Len(x) \in 1..Len(z) /\ j \in 1..(Len(x) + Len(z))
          /\ j \in 1..(Len(m) + Len(w)) /\ ~(j <= Len(x))
      BY <1>6, <1>7, <1>8, <1>9, <2>2
    <3>2. k[j] = g[z[j - Len(x)]]
      BY <1>6, <1>9, <3>1
    <3>3. h[j] = w[j - Len(x)]
      BY <1>7, <1>10, <3>1
    <3> QED
      BY <1>8, <3>1, <3>2, <3>3
  <2> QED
    BY <1>6, <1>9, <2>1, <2>2
<1>13. k = h
  BY <1>9, <1>10, <1>11, <1>12, SeqEqual
<1> QED
  BY <1>1, <1>2, <1>3, <1>4, <1>5, <1>13

\* To keep of the mapped is to map what is kept.
LEMMA KeptMap ==
  ASSUME NEW V, NEW W, NEW g \in Maps(V, W), NEW s \in Seq(V), NEW I,
         NEW n \in 0..Len(s)
  PROVE  Kept(Mapped(g, s), I, n) = Mapped(g, Kept(s, I, n))
<1> DEFINE t == Mapped(g, s)
           T == {k \in Nat : k <= n => Kept(t, I, k) = Mapped(g, Kept(s, I, k))}
<1>1. 0 \in T
  <2>1. Kept(t, I, 0) = <<>> /\ Kept(s, I, 0) = <<>>
    BY KeptZero
  <2>2. Mapped(g, <<>>) = <<>>
    BY DEF Mapped
  <2> HIDE DEF t
  <2> QED
    BY <2>1, <2>2
<1>2. ASSUME NEW k \in T PROVE k + 1 \in T
  <2> SUFFICES ASSUME k + 1 <= n
               PROVE  Kept(t, I, k + 1) = Mapped(g, Kept(s, I, k + 1))
    <3> HIDE DEF t
    <3> QED
      OBVIOUS
  <2> PICK x, y : x = Kept(s, I, k) /\ y = Kept(t, I, k)
    OBVIOUS
  <2>1. k \in Nat /\ k \in 0..Len(s) /\ k + 1 \in 1..Len(s) /\ y = Mapped(g, x)
    <3> HIDE DEF t
    <3> QED
      OBVIOUS
  <2>2. x \in Seq(V) /\ s[k + 1] \in V /\ t[k + 1] = g[s[k + 1]]
    <3>1. x \in Seq(V)
      BY <2>1, KeptType
    <3>2. t[k + 1] = g[s[k + 1]]
      BY <2>1, MappedType
    <3> QED
      BY <2>1, <3>1, <3>2
  <2> HIDE DEF t
  <2>3. /\ Kept(s, I, k + 1) = IF k + 1 \in I THEN Append(x, s[k + 1]) ELSE x
        /\ Kept(t, I, k + 1) = IF k + 1 \in I THEN Append(y, t[k + 1]) ELSE y
    BY <2>1, KeptNext
  <2>4. CASE k + 1 \in I
    <3>1. Mapped(g, Append(x, s[k + 1])) = Append(Mapped(g, x), g[s[k + 1]])
      BY <2>2, MappedAppend
    <3> QED
      BY <2>1, <2>2, <2>3, <2>4, <3>1
  <2>5. CASE k + 1 \notin I
    BY <2>1, <2>3, <2>5
  <2> QED
    BY <2>4, <2>5
<1>3. T \in SUBSET Nat
  OBVIOUS
<1>4. T = Nat
  <2> HIDE DEF T
  <2> QED
    BY <1>1, <1>2, <1>3, SetInduction
<1>5. n \in T
  BY <1>4
<1> QED
  BY <1>5

-----------------------------------------------------------------------------
\* The numbers of a finite set can be put in order.
LEMMA OrderExists ==
  ASSUME NEW S \in SUBSET Nat, IsFiniteSet(S)
  PROVE  \E s \in [1..Cardinality(S) -> S] :
            \A i, j \in DOMAIN s : i < j => s[i] < s[j]
<1> DEFINE Ordered(s, n, U) ==
              s \in [1..n -> U] /\ \A i, j \in 1..n : i < j => s[i] < s[j]
           T == {n \in Nat : \A U \in SUBSET Nat :
                    IsFiniteSet(U) /\ Cardinality(U) = n =>
                       \E s : Ordered(s, n, U)}
<1>1. 0 \in T
  <2> SUFFICES ASSUME NEW U \in SUBSET Nat PROVE \E s : Ordered(s, 0, U)
    OBVIOUS
  <2>1. Ordered([i \in 1..0 |-> 0], 0, U)
    OBVIOUS
  <2> HIDE DEF Ordered
  <2> QED
    BY <2>1
<1>2. ASSUME NEW n \in T PROVE n + 1 \in T
  <2> SUFFICES ASSUME NEW U \in SUBSET Nat, IsFiniteSet(U),
                      Cardinality(U) = n + 1
               PROVE  \E s : Ordered(s, n + 1, U)
    <3> HIDE DEF Ordered
    <3> QED
      OBVIOUS
  <2>1. n \in Nat
    OBVIOUS
  <2>2. U # {}
    BY <2>1, FS_EmptySet
  <2>3. PICK m \in U : \A y \in U : m <= y
    BY <2>2, Least
  <2>4. PICK W : W = U \ {m}
    OBVIOUS
  <2>5. W \in SUBSET Nat /\ IsFiniteSet(W) /\ Cardinality(W) = n
    <3>1. IsFiniteSet(U \ {m}) /\ Cardinality(U \ {m}) = Cardinality(U) - 1
      BY FS_RemoveElement
    <3> QED
      BY <2>1, <2>4, <3>1
  <2>6. PICK s : Ordered(s, n, W)
    <3> HIDE DEF Ordered
    <3> QED
      BY <2>5
  <2>7. \A y \in W : y \in U /\ y \in Nat /\ m < y
    BY <2>3, <2>4
  <2>8. PICK t : t = [i \in 1..(n + 1) |-> IF i = 1 THEN m ELSE s[i - 1]]
    OBVIOUS
  <2>9. \A i \in 1..n : s[i] \in W
    BY <2>6
  <2>10. t[1] = m /\ \A i \in 1..(n + 1) : i # 1 => t[i] = s[i - 1] /\ i - 1 \in 1..n
    BY <2>1, <2>8
  <2>11. t \in [1..(n + 1) -> U]
    <3>1. \A i \in 1..(n + 1) : t[i] \in U
      BY <2>7, <2>9, <2>10
    <3> QED
      BY <2>8, <3>1
  <2>12. ASSUME NEW i \in 1..(n + 1), NEW j \in 1..(n + 1), i < j
         PROVE  t[i] < t[j]
    <3>1. j # 1 /\ t[j] = s[j - 1] /\ j - 1 \in 1..n
      BY <2>1, <2>10, <2>12
    <3>2. CASE i = 1
      BY <2>7, <2>9, <2>10, <3>1, <3>2
    <3>3. CASE i # 1
      <4>1. t[i] = s[i - 1] /\ i - 1 \in 1..n /\ i - 1 < j - 1
        BY <2>1, <2>10, <2>12, <3>3
      <4> QED
        BY <2>6, <3>1, <4>1
    <3> QED
      BY <3>2, <3>3
  <2>13. Ordered(t, n + 1, U)
    BY <2>11, <2>12
  <2> HIDE DEF Ordered
  <2> QED
    BY <2>13
<1>3. T \in SUBSET Nat
  OBVIOUS
<1>4. T = Nat
  <2> HIDE DEF T
  <2> QED
    BY <1>1, <1>2, <1>3, SetInduction
<1>5. Cardinality(S) \in T
  BY <1>4, FS_CardinalityType
<1>6. PICK s : Ordered(s, Cardinality(S), S)
  <2> HIDE DEF Ordered
  <2> QED
    BY <1>5
<1> QED
  BY <1>6

LEMMA InOrderIs ==
  ASSUME NEW S \in SUBSET Nat, IsFiniteSet(S)
  PROVE  /\ InOrder(S) \in [1..Cardinality(S) -> S]
         /\ \A i, j \in DOMAIN InOrder(S) :
               i < j => InOrder(S)[i] < InOrder(S)[j]
BY OrderExists DEF InOrder

=============================================================================
