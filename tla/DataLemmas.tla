----------------------------- MODULE DataLemmas -----------------------------
(***************************************************************************)
(* What the proofs about recursive functions need: induction over the      *)
(* natural numbers for sets instead of predicates, and the functions it    *)
(* defines; and two facts about sequences.                                 *)
(***************************************************************************)
EXTENDS Integers, Sequences, SequenceTheorems, WellFoundedInduction, TLAPS

(* There is a least number in every set of natural numbers.                *)
LEMMA NatWellOrdered ==
  ASSUME NEW T, T \subseteq Nat, T # {}
  PROVE  \E x \in T : \A y \in T : ~(y < x)
<1>1. PICK x \in T : \A y \in T : <<y, x>> \notin OpToRel(<, Nat)
  BY NatLessThanWellFounded, WFMin
<1>2. \A y \in T : ~(y < x)
  BY <1>1 DEF OpToRel
<1> QED BY <1>2

(* Induction.                                                              *)
LEMMA Upwards ==
  ASSUME NEW T, 0 \in T, \A n \in Nat : n \in T => n + 1 \in T
  PROVE  Nat \subseteq T
<1> SUFFICES ASSUME Nat \ T # {}
             PROVE  FALSE
  OBVIOUS
<1>1. PICK x \in Nat \ T : \A y \in Nat \ T : ~(y < x)
  BY NatWellOrdered
<1>2. x # 0 /\ x - 1 \in Nat /\ x - 1 < x
  BY <1>1
<1>3. x - 1 \in T
  BY <1>1, <1>2
<1> QED BY <1>1, <1>2, <1>3

(* Induction up to a number.                                               *)
LEMMA UpTo ==
  ASSUME NEW n \in Nat, NEW T, 0 \in T, \A k \in 1..n : k - 1 \in T => k \in T
  PROVE  0..n \subseteq T
<1> DEFINE S == { k \in Nat : k <= n => k \in T }
<1>1. 0 \in S
  OBVIOUS
<1>2. ASSUME NEW k \in Nat, k \in S
      PROVE  k + 1 \in S
  <2> SUFFICES ASSUME k + 1 <= n
               PROVE  k + 1 \in T
    OBVIOUS
  <2>1. k + 1 \in 1..n /\ k + 1 - 1 = k /\ k <= n
    OBVIOUS
  <2>2. k \in T
    BY <1>2, <2>1
  <2> QED BY <2>1, <2>2
<1> HIDE DEF S
<1>3. Nat \subseteq S
  BY <1>1, <1>2, Upwards
<1> QED BY <1>3 DEF S

(* What follows from what was before can be iterated.                      *)
LEMMA Iterated ==
  ASSUME NEW A, NEW c \in A, NEW n \in Nat, NEW step \in [1..n -> [A -> A]]
  PROVE  \E f \in [0..n -> A] : f[0] = c /\ \A k \in 1..n : f[k] = step[k][f[k - 1]]
<1> DEFINE Up(f, m) == f[0] = c /\ \A k \in 1..m : f[k] = step[k][f[k - 1]]
           T == { m \in Nat : m <= n => \E f \in [0..m -> A] : Up(f, m) }
<1>1. 0 \in T
  <2> DEFINE f == [i \in 0..0 |-> c]
  <2>1. f \in [0..0 -> A] /\ f[0] = c /\ \A k \in 1..0 : FALSE
    OBVIOUS
  <2>2. Up(f, 0)
    BY <2>1
  <2> QED BY <2>1, <2>2
<1>2. ASSUME NEW m \in Nat, m \in T
      PROVE  m + 1 \in T
  <2> SUFFICES ASSUME m + 1 <= n
               PROVE  \E f \in [0..(m + 1) -> A] : Up(f, m + 1)
    OBVIOUS
  <2>1. PICK f \in [0..m -> A] : Up(f, m)
    BY <1>2
  <2> DEFINE last == step[m + 1][f[m]]
             g == [i \in 0..(m + 1) |-> IF i = m + 1 THEN last ELSE f[i]]
  <2>2. last \in A
    BY <2>1
  <2>3. g \in [0..(m + 1) -> A]
    BY <2>1, <2>2
  <2>4. g[m + 1] = step[m + 1][f[m]] /\ \A i \in 0..m : g[i] = f[i]
    OBVIOUS
  <2> HIDE DEF g, last
  <2>5. g[0] = c
    BY <2>1, <2>4
  <2>6. ASSUME NEW k \in 1..(m + 1)
        PROVE  g[k] = step[k][g[k - 1]]
    <3>1. CASE k = m + 1
      <4>1. k - 1 = m /\ m \in 0..m
        BY <3>1
      <4> QED BY <2>4, <3>1, <4>1
    <3>2. CASE k # m + 1
      <4>1. k \in 1..m /\ k \in 0..m /\ k - 1 \in 0..m
        BY <3>2
      <4> QED BY <2>1, <2>4, <4>1
    <3> QED BY <3>1, <3>2
  <2> QED BY <2>3, <2>5, <2>6
<1>3. n \in T
  <2> HIDE DEF T
  <2>1. Nat \subseteq T
    BY <1>1, <1>2, Upwards
  <2> QED BY <2>1
<1> QED BY <1>3

-----------------------------------------------------------------------------
(* Two sequences of the same values are the same.                          *)
LEMMA SameSeq ==
  ASSUME NEW S, NEW s \in Seq(S), NEW t \in Seq(S), NEW n \in Nat, Len(s) = n, Len(t) = n,
         \A i \in 1..n : s[i] = t[i]
  PROVE  s = t
BY SeqEqual

(* The elements of a concatenation.                                        *)
LEMMA Concatenated ==
  ASSUME NEW S, NEW s \in Seq(S), NEW t \in Seq(S), NEW st, st = s \o t
  PROVE  /\ st \in Seq(S) /\ Len(st) = Len(s) + Len(t) /\ Len(s) \in Nat /\ Len(t) \in Nat
         /\ \A i \in 1..Len(s) : st[i] = s[i]
         /\ \A i \in 1..Len(t) : st[Len(s) + i] = t[i]
<1> DEFINE n == Len(s)
           m == Len(t)
<1>1. /\ n \in Nat /\ m \in Nat
      /\ st \in Seq(S) /\ Len(st) = n + m
      /\ \A i \in 1..(n + m) : st[i] = IF i <= n THEN s[i] ELSE t[i - n]
  BY ConcatProperties, LenProperties
<1> HIDE DEF n, m
<1>2. \A i \in 1..n : i \in 1..(n + m) /\ i <= n
  BY <1>1
<1>3. \A i \in 1..m : n + i \in 1..(n + m) /\ ~(n + i <= n) /\ n + i - n = i
  BY <1>1
<1>4. (\A i \in 1..n : st[i] = s[i]) /\ (\A i \in 1..m : st[n + i] = t[i])
  BY <1>1, <1>2, <1>3
<1> QED BY <1>1, <1>4 DEF n, m

(* The same, for lists that are known only by name.                        *)
IsJoin(st, s, t) == st = s \o t

LEMMA Joins ==
  ASSUME NEW S, NEW s \in Seq(S), NEW t \in Seq(S), NEW st, IsJoin(st, s, t)
  PROVE  /\ \A i \in 1..Len(s) : st[i] = s[i]
         /\ \A i \in 1..Len(t) : st[Len(s) + i] = t[i]
BY Concatenated DEF IsJoin

(* A list over a set is a list over a larger one.                          *)
LEMMA Widened ==
  ASSUME NEW S, NEW T, S \subseteq T, NEW s \in Seq(S)
  PROVE  s \in Seq(T)
<1>1. Len(s) \in Nat /\ s \in [1..Len(s) -> S]
  BY LenProperties
<1>2. s \in [1..Len(s) -> T]
  BY <1>1
<1> QED BY <1>1, <1>2
-----------------------------------------------------------------------------
(***************************************************************************)
(* Counting from i as long as there is an element of Q, and what the count *)
(* gives where it ends.                                                    *)
(***************************************************************************)
Counts(f, n, Q, g) == f = [i \in 0..n |-> IF i \in Q THEN f[i + 1] ELSE g[i]]
EndsAt(i, j, n, Q) == j \in i..n /\ j \notin Q /\ \A k \in i..(j - 1) : k \in Q

\* It ends somewhere.
LEMMA CountEnds ==
  ASSUME NEW n \in Nat, NEW Q, Q \subseteq 0..(n - 1), NEW i \in 0..n
  PROVE  \E j \in i..n : EndsAt(i, j, n, Q)
<1> DEFINE T == { j \in i..n : j \notin Q }
<1>1. n \in T /\ T \subseteq Nat
  OBVIOUS
<1>2. PICK j \in T : \A k \in T : ~(k < j)
  <2> HIDE DEF T
  <2> QED BY <1>1, NatWellOrdered
<1>3. ASSUME NEW k \in i..(j - 1)
      PROVE  k \in Q
  <2>1. k \in i..n /\ k < j
    BY <1>1, <1>2
  <2> QED BY <1>2, <2>1
<1> QED BY <1>2, <1>3 DEF EndsAt

\* There is such a count.
LEMMA CountExists ==
  ASSUME NEW n \in Nat, NEW Q, Q \subseteq 0..(n - 1), NEW g
  PROVE  \E f : Counts(f, n, Q, g)
<1> DEFINE end(i) == CHOOSE j \in i..n : EndsAt(i, j, n, Q)
           f == [i \in 0..n |-> g[end(i)]]
<1>1. ASSUME NEW i \in 0..n
      PROVE  end(i) \in i..n /\ EndsAt(i, end(i), n, Q)
  BY CountEnds
<1>2. ASSUME NEW i \in 0..n, NEW j, EndsAt(i, j, n, Q)
      PROVE  end(i) = j
  <2> DEFINE e == end(i)
  <2>1. /\ e \in i..n /\ e \notin Q /\ \A k \in i..(e - 1) : k \in Q
        /\ j \in i..n /\ j \notin Q /\ \A k \in i..(j - 1) : k \in Q
    BY <1>1, <1>2 DEF EndsAt
  <2> HIDE DEF e
  <2>2. ~(e < j) /\ ~(j < e)
    BY <2>1
  <2> QED BY <2>1, <2>2 DEF e
<1> HIDE DEF end
<1>3. ASSUME NEW i \in 0..n
      PROVE  f[i] = IF i \in Q THEN f[i + 1] ELSE g[i]
  <2>1. CASE i \in Q
    <3>1. i + 1 \in 0..n
      BY <2>1
    <3> DEFINE e == end(i + 1)
    <3>2. e \in (i + 1)..n /\ e \notin Q /\ \A k \in (i + 1)..(e - 1) : k \in Q
      BY <1>1, <3>1 DEF EndsAt
    <3> HIDE DEF e
    <3>3. EndsAt(i, e, n, Q)
      BY <2>1, <3>2 DEF EndsAt
    <3>4. end(i) = e
      BY <1>2, <3>3
    <3> QED BY <2>1, <3>1, <3>4 DEF e
  <2>2. CASE i \notin Q
    <3>1. EndsAt(i, i, n, Q)
      BY <2>2 DEF EndsAt
    <3>2. end(i) = i
      BY <1>2, <3>1
    <3> QED BY <2>2, <3>2
  <2> QED BY <2>1, <2>2
<1>4. Counts(f, n, Q, g)
  BY <1>3 DEF Counts
<1> QED BY <1>4

\* It gives what is given where it ends.
LEMMA CountMeans ==
  ASSUME NEW n \in Nat, NEW Q, NEW g, NEW f, Counts(f, n, Q, g), NEW j, EndsAt(0, j, n, Q)
  PROVE  f[0] = g[j]
<1>1. j \in 0..n /\ j \notin Q /\ \A k \in 0..(j - 1) : k \in Q
  BY DEF EndsAt
<1>2. \A i \in 0..n : f[i] = IF i \in Q THEN f[i + 1] ELSE g[i]
  BY DEF Counts
<1> DEFINE T == { k \in 0..j : f[j - k] = g[j] }
<1>3. 0 \in T
  <2>1. j - 0 = j /\ f[j] = g[j]
    BY <1>1, <1>2
  <2> QED BY <1>1, <2>1
<1>4. ASSUME NEW k \in 1..j, k - 1 \in T
      PROVE  k \in T
  <2> DEFINE i == j - k
  <2>1. i \in 0..(j - 1) /\ i \in 0..n /\ i + 1 = j - (k - 1) /\ k \in 0..j
    BY <1>1
  <2> HIDE DEF i
  <2>2. f[i] = f[i + 1]
    BY <1>1, <1>2, <2>1
  <2>3. f[j - (k - 1)] = g[j]
    BY <1>4
  <2> QED BY <2>1, <2>2, <2>3 DEF i
<1>5. 0..j \subseteq T
  <2>1. j \in Nat
    BY <1>1
  <2> HIDE DEF T
  <2> QED BY <1>3, <1>4, <2>1, UpTo
<1>6. j \in T /\ j - j = 0
  BY <1>1, <1>5
<1> QED BY <1>6
=============================================================================
