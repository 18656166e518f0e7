---------------------------- MODULE PlacesProofs ----------------------------
(***************************************************************************)
(* The resolution of paths answers what the declarations of the program    *)
(* mean: PathsAgree of Places is an invariant.  References to aliases      *)
(* follow the declarations: FollowsDeclarations.  However many aliases     *)
(* there are, they keep what the reference stands for: FollowKeepsMeaning. *)
(***************************************************************************)
EXTENDS ModulesProofs, FiniteSetTheorems

(***************************************************************************)
(* The elements of a list at some of its indices.  The rank of an index    *)
(* is how many of them there are up to it.                                 *)
(***************************************************************************)
Rank(I, m) == Cardinality({ j \in I : j <= m })

LEMMA Ranks ==
  ASSUME NEW n \in Nat, NEW I, I \subseteq 1..n
  PROVE  /\ Rank(I, 0) = 0 /\ Rank(I, n) = Cardinality(I)
         /\ \A m \in 0..n : Rank(I, m) \in Nat
         /\ \A m \in 1..n : Rank(I, m) = IF m \in I THEN Rank(I, m - 1) + 1 ELSE Rank(I, m - 1)
<1>1. \A m : IsFiniteSet({ j \in I : j <= m })
  <2>1. IsFiniteSet(1..n)
    BY FS_Interval
  <2>2. \A m : { j \in I : j <= m } \subseteq 1..n
    OBVIOUS
  <2> QED BY <2>1, <2>2, FS_Subset
<1>2. Rank(I, 0) = 0
  <2>1. \A j \in I : ~(j <= 0)
    OBVIOUS
  <2>3. { j \in I : j <= 0 } = {}
    BY <2>1
  <2> QED BY <2>3, FS_EmptySet DEF Rank
<1>3. Rank(I, n) = Cardinality(I)
  <2>1. \A j \in I : j <= n
    OBVIOUS
  <2>2. { j \in I : j <= n } = I
    BY <2>1
  <2> QED BY <2>2 DEF Rank
<1>4. \A m : Rank(I, m) \in Nat
  BY <1>1, FS_CardinalityType DEF Rank
<1>5. ASSUME NEW m \in 1..n
      PROVE  Rank(I, m) = IF m \in I THEN Rank(I, m - 1) + 1 ELSE Rank(I, m - 1)
  <2> DEFINE S == { j \in I : j <= m - 1 }
  <2>1. CASE m \in I
    <3>4. \A j \in I : j <= m <=> j <= m - 1 \/ j = m
      OBVIOUS
    <3>5. ~(m <= m - 1) /\ m <= m
      OBVIOUS
    <3>1. { j \in I : j <= m } = S \cup {m} /\ m \notin S
      BY <2>1, <3>4, <3>5
    <3>2. IsFiniteSet(S)
      BY <1>1
    <3>3. Cardinality(S \cup {m}) = Cardinality(S) + 1
      <4> HIDE DEF S
      <4> QED BY <3>1, <3>2, FS_AddElement
    <3> QED BY <2>1, <3>1, <3>3 DEF Rank
  <2>2. CASE m \notin I
    <3>2. \A j \in I : j <= m <=> j <= m - 1
      BY <2>2
    <3>1. { j \in I : j <= m } = S
      BY <3>2
    <3> QED BY <2>2, <3>1 DEF Rank
  <2> QED BY <2>1, <2>2
<1> QED BY <1>2, <1>3, <1>4, <1>5

\* What has been counted grows with the index, and every number is that of an
\* index that is counted.
Counted(I, m) ==
  /\ \A i \in 0..m : Rank(I, i) <= Rank(I, m)
  /\ \A k \in 1..Rank(I, m) : \E i \in I : i <= m /\ Rank(I, i) = k

LEMMA RanksCount ==
  ASSUME NEW n \in Nat, NEW I, I \subseteq 1..n
  PROVE  \A m \in 0..n : Counted(I, m)
<1> DEFINE T == { m \in 0..n : Counted(I, m) }
<1>1. /\ Rank(I, 0) = 0
      /\ \A m \in 0..n : Rank(I, m) \in Nat
      /\ \A m \in 1..n : Rank(I, m) = IF m \in I THEN Rank(I, m - 1) + 1 ELSE Rank(I, m - 1)
  BY Ranks
<1>2. 0 \in T
  BY <1>1 DEF Counted
<1>3. ASSUME NEW m \in 1..n, m - 1 \in T
      PROVE  m \in T
  <2> DEFINE r == Rank(I, m - 1)
             s == Rank(I, m)
  <2>1. m \in 0..n /\ m - 1 \in 0..n
    OBVIOUS
  <2>2. /\ r \in Nat /\ s \in Nat /\ s = IF m \in I THEN r + 1 ELSE r
        /\ \A i \in 0..(m - 1) : Rank(I, i) \in Nat /\ Rank(I, i) <= r
        /\ \A k \in 1..r : \E i \in I : i <= m - 1 /\ Rank(I, i) = k
    BY <1>1, <1>3, <2>1 DEF Counted
  <2> HIDE DEF r
  <2>3. \A i \in 0..m : Rank(I, i) <= s
    <3> SUFFICES ASSUME NEW i \in 0..m PROVE Rank(I, i) <= s
      OBVIOUS
    <3>1. CASE i = m
      BY <2>2, <3>1
    <3>2. CASE i # m
      <4>1. i \in 0..(m - 1)
        BY <3>2
      <4> HIDE DEF s
      <4> QED BY <2>2, <4>1
    <3> QED BY <3>1, <3>2
  <2>4. ASSUME NEW k \in 1..s
        PROVE  \E i \in I : i <= m /\ Rank(I, i) = k
    <3>1. CASE k \in 1..r
      <4>1. PICK i \in I : i <= m - 1 /\ Rank(I, i) = k
        BY <2>2, <3>1
      <4> QED BY <4>1
    <3>2. CASE k \notin 1..r
      <4>1. m \in I /\ k = s
        <5> HIDE DEF s
        <5> QED BY <2>2, <3>2
      <4> QED BY <4>1
    <3> QED BY <3>1, <3>2
  <2> QED BY <2>1, <2>3, <2>4 DEF Counted
<1>4. 0..n \subseteq T
  <2> HIDE DEF T
  <2> QED BY <1>2, <1>3, UpTo
<1> QED BY <1>4

\* The index with a rank.
LEMMA RankOf ==
  ASSUME NEW n \in Nat, NEW I, I \subseteq 1..n, NEW i \in I
  PROVE  /\ Rank(I, i) \in 1..Cardinality(I)
         /\ \A j \in I : Rank(I, j) = Rank(I, i) => j = i
<1>1. /\ Rank(I, n) = Cardinality(I)
      /\ \A m \in 0..n : Rank(I, m) \in Nat
      /\ \A m \in 1..n : Rank(I, m) = IF m \in I THEN Rank(I, m - 1) + 1 ELSE Rank(I, m - 1)
      /\ \A m \in 0..n : Counted(I, m)
  BY Ranks, RanksCount
<1>2. \A m \in I : m \in 1..n /\ m \in 0..n /\ m - 1 \in 0..n
  OBVIOUS
<1>3. \A j \in I : Rank(I, j) = Rank(I, j - 1) + 1
  BY <1>1, <1>2
<1>4. \A m \in 0..n : \A j \in 0..m : Rank(I, j) <= Rank(I, m)
  BY <1>1 DEF Counted
<1>5. ASSUME NEW j \in I, NEW k \in I, j < k
      PROVE  Rank(I, j) < Rank(I, k)
  <2>1. j \in 0..(k - 1) /\ k - 1 \in 0..n /\ j \in 0..n
    BY <1>2, <1>5
  <2> DEFINE a == Rank(I, j)
             b == Rank(I, k - 1)
             c == Rank(I, k)
  <2>2. a <= b /\ c = b + 1 /\ a \in Nat /\ b \in Nat
    BY <1>1, <1>3, <1>4, <2>1
  <2> HIDE DEF a, b, c
  <2>3. a < c
    BY <2>2
  <2> QED BY <2>3 DEF a, c
<1>6. \A j \in I : j < i \/ i < j \/ i = j
  BY <1>2
<1>7. \A j \in I : Rank(I, j) \in Nat
  BY <1>1, <1>2
<1>8. \A j \in I : Rank(I, j) = Rank(I, i) => j = i
  <2> SUFFICES ASSUME NEW j \in I, Rank(I, j) = Rank(I, i), j # i PROVE FALSE
    OBVIOUS
  <2>1. Rank(I, j) < Rank(I, i) \/ Rank(I, i) < Rank(I, j)
    BY <1>5, <1>6
  <2> QED BY <1>7, <2>1
<1>9. Rank(I, i) \in 1..Cardinality(I)
  <2> DEFINE a == Rank(I, i)
             b == Rank(I, i - 1)
             c == Cardinality(I)
  <2>1. n \in 0..n /\ i \in 0..n
    BY <1>2
  <2>2. a = b + 1 /\ b \in Nat /\ a <= c /\ c \in Nat
    BY <1>1, <1>2, <1>3, <1>4, <2>1
  <2> HIDE DEF a, b, c
  <2>3. a \in 1..c
    BY <2>2
  <2> QED BY <2>3 DEF a, c
<1> QED BY <1>8, <1>9

LEMMA Selected ==
  ASSUME NEW S, NEW list \in Seq(S), NEW I, I \subseteq DOMAIN list
  PROVE  /\ At(list, I) \in Seq(S)
         /\ Range(At(list, I)) = { list[i] : i \in I }
<1> DEFINE n == Len(list)
           c == Cardinality(I)
           of(k) == CHOOSE i \in I : Rank(I, i) = k
           picked == At(list, I)
<1>1. n \in Nat /\ DOMAIN list = 1..n /\ I \subseteq 1..n
  BY LenProperties
<1>2. c \in Nat
  <2>1. c = Rank(I, n) /\ n \in 0..n /\ \A m \in 0..n : Rank(I, m) \in Nat
    <3> HIDE DEF n, c
    <3>1. Rank(I, n) = Cardinality(I) /\ \A m \in 0..n : Rank(I, m) \in Nat
      BY <1>1, Ranks
    <3> QED BY <1>1, <3>1 DEF c
  <2> QED BY <2>1
<1>3. \A k \in 1..c : of(k) \in I /\ Rank(I, of(k)) = k
  <2> HIDE DEF n
  <2>1. Counted(I, n) /\ Rank(I, n) = c
    <3>1. n \in 0..n
      BY <1>1
    <3> QED BY <1>1, <3>1, Ranks, RanksCount
  <2>2. \A k \in 1..c : \E i \in I : Rank(I, i) = k
    BY <2>1 DEF Counted
  <2> QED BY <2>2
<1>4. \A i \in I : Rank(I, i) \in 1..c /\ of(Rank(I, i)) = i
  <2> HIDE DEF n, of
  <2>1. \A i \in I : Rank(I, i) \in 1..c /\ \A j \in I : Rank(I, j) = Rank(I, i) => j = i
    BY <1>1, RankOf
  <2> QED BY <1>3, <2>1
<1>5. picked = [k \in 1..c |-> list[of(k)]]
  BY DEF At, Rank
<1> HIDE DEF picked, of, n, c
<1>6. \A i \in I : list[i] \in S
  BY <1>1, ElementOfSeq DEF n
<1>7. picked \in Seq(S)
  <2>1. \A k \in 1..c : list[of(k)] \in S
    BY <1>3, <1>6
  <2> QED BY <1>2, <1>5, <2>1, IsASeq
<1>8. DOMAIN picked = 1..c /\ \A k \in 1..c : picked[k] = list[of(k)]
  BY <1>5
<1>9. Range(picked) = { list[i] : i \in I }
  <2>1. \A x \in Range(picked) : \E i \in I : x = list[i]
    BY <1>3, <1>8 DEF Range
  <2>2. ASSUME NEW i \in I
        PROVE  list[i] \in Range(picked)
    <3>1. Rank(I, i) \in DOMAIN picked /\ picked[Rank(I, i)] = list[i]
      BY <1>4, <1>8
    <3> QED BY <3>1 DEF Range
  <2> QED BY <2>1, <2>2
<1> QED BY <1>7, <1>9 DEF picked

LEMMA AllSelected ==
  ASSUME NEW S, NEW list \in Seq(S)
  PROVE  At(list, DOMAIN list) = list
<1> DEFINE n == Len(list)
           I == 1..n
           of(k) == CHOOSE i \in I : Rank(I, i) = k
<1>1. n \in Nat /\ DOMAIN list = I /\ list = [k \in 1..n |-> list[k]]
  BY LenProperties
<1>2. Cardinality(I) = n
  <2> HIDE DEF n
  <2>1. Cardinality(1..n) = IF 1 > n THEN 0 ELSE n - 1 + 1
    BY <1>1, FS_Interval
  <2> QED BY <1>1, <2>1
<1>3. \A i \in I : Rank(I, i) = i
  <2> SUFFICES ASSUME NEW i \in I PROVE Rank(I, i) = i
    OBVIOUS
  <2>1. i \in Nat /\ i >= 1 /\ i <= n
    BY <1>1
  <2>2. \A j : j \in I /\ j <= i <=> j \in 1..i
    BY <1>1, <2>1
  <2>3. { j \in I : j <= i } = 1..i
    BY <2>2
  <2>4. Cardinality(1..i) = IF 1 > i THEN 0 ELSE i - 1 + 1
    BY <2>1, FS_Interval
  <2>5. Cardinality(1..i) = i
    BY <2>1, <2>4
  <2> QED BY <2>3, <2>5 DEF Rank
<1>4. \A k \in 1..n : of(k) = k
  <2> HIDE DEF n
  <2> QED BY <1>3
<1>5. At(list, DOMAIN list) = [k \in 1..n |-> list[of(k)]]
  BY <1>1, <1>2 DEF At, Rank
<1> HIDE DEF of
<1>6. [k \in 1..n |-> list[of(k)]] = [k \in 1..n |-> list[k]]
  BY <1>4
<1> QED BY <1>1, <1>5, <1>6

-----------------------------------------------------------------------------
(***************************************************************************)
(* What reduction makes of a node is what the node declares.               *)
(***************************************************************************)
LEMMA BackwardsRange ==
  ASSUME NEW S, NEW s \in Seq(S)
  PROVE  Backwards(s) \in Seq(S) /\ Range(Backwards(s)) = Range(s)
<1> DEFINE n == Len(s)
           b == Backwards(s)
<1>1. n \in Nat /\ DOMAIN s = 1..n /\ \A i \in 1..n : s[i] \in S
  BY LenProperties, ElementOfSeq
<1>2. b = [i \in 1..n |-> s[n + 1 - i]]
  BY <1>1 DEF Backwards
<1> HIDE DEF b, n
<1>3. \A i \in 1..n : n + 1 - i \in 1..n /\ n + 1 - (n + 1 - i) = i
  BY <1>1
<1>4. b \in Seq(S)
  <2>1. \A i \in 1..n : s[n + 1 - i] \in S
    BY <1>1, <1>3
  <2> QED BY <1>1, <1>2, <2>1, IsASeq
<1>5. DOMAIN b = 1..n /\ \A i \in 1..n : b[i] = s[n + 1 - i]
  BY <1>2
<1>6. \A x \in Range(b) : x \in Range(s)
  BY <1>1, <1>3, <1>5 DEF Range
<1>7. ASSUME NEW i \in 1..n
      PROVE  s[i] \in Range(b)
  <2>1. n + 1 - i \in DOMAIN b /\ b[n + 1 - i] = s[i]
    BY <1>3, <1>5
  <2> QED BY <2>1 DEF Range
<1> QED BY <1>1, <1>4, <1>6, <1>7 DEF Range, b

\* The records of a node are those of its type.
LEMMA NodeTyped ==
  ASSUME NEW node \in Nodes
  PROVE  /\ node.declarations \in Seq(Decls) /\ node.uses \in Seq(Uses) /\ node.submodules \in Seq(Nodes)
         /\ node.kind \in {"top", "self", "body", "alias", "file"}
BY NodesAssumption

\* Items of use declarations in front of what the node has.
LEMMA PutInFront ==
  ASSUME NEW X, NEW f \in Seq(X), NEW Y, NEW s \in Seq(Y)
  PROVE  Range(Backwards(f) \o s) = Range(f) \cup Range(s)
<1> DEFINE b == Backwards(f)
           Z == X \cup Y
<1>1. b \in Seq(X) /\ Range(b) = Range(f)
  BY BackwardsRange
<1> HIDE DEF b
<1>2. X \subseteq Z /\ Y \subseteq Z
  OBVIOUS
<1> HIDE DEF Z
<1>3. b \in Seq(Z) /\ s \in Seq(Z)
  BY <1>1, <1>2, SeqMonotonic
<1>4. Range(b \o s) = Range(b) \cup Range(s)
  BY <1>3, RangeConcatenation
<1> QED BY <1>1, <1>4 DEF b

\* The declarations of a node after its reduction.
LEMMA ReducedDeclares ==
  ASSUME NEW node \in Nodes
  PROVE  Range(reduced_declarations(node)) = DeclaredGlobals(node)
<1> DEFINE I == { i \in DOMAIN node.uses : IsFunction(node.uses[i]) }
           uses == At(node.uses, I)
           made == [i \in DOMAIN uses |-> Imported(uses[i])]
           X == { Imported(use) : use \in Uses }
<1>1. node.declarations \in Seq(Decls) /\ node.uses \in Seq(Uses) /\ I \subseteq DOMAIN node.uses
  BY NodeTyped
<1>2. uses \in Seq(Uses) /\ Range(uses) = { node.uses[i] : i \in I }
  <2> HIDE DEF I
  <2> QED BY <1>1, Selected
<1>3. reduced_declarations(node) = Backwards(made) \o node.declarations
  BY DEF reduced_declarations
<1> HIDE DEF uses
<1>4. DOMAIN uses = 1..Len(uses) /\ Len(uses) \in Nat /\ \A i \in DOMAIN uses : uses[i] \in Uses
  BY <1>2, LenProperties, ElementOfSeq
<1>5. made \in Seq(X) /\ DOMAIN made = DOMAIN uses
  <2>1. \A i \in 1..Len(uses) : Imported(uses[i]) \in X
    BY <1>4
  <2> HIDE DEF X
  <2>2. [i \in 1..Len(uses) |-> Imported(uses[i])] \in Seq(X)
    BY <1>4, <2>1, IsASeq
  <2> QED BY <1>4, <2>2
<1>6. Range(made) = { Imported(use) : use \in Range(uses) }
  BY DEF Range
<1> HIDE DEF made, X
<1>7. Range(Backwards(made) \o node.declarations) = Range(made) \cup Range(node.declarations)
  BY <1>1, <1>5, PutInFront
<1>8. Range(uses) = { use \in ToSet(node.uses) : use.kind # "mod" }
  BY <1>2 DEF ToSet, IsFunction
<1>9. { [name |-> d.name, path |-> d.path, kind |-> d.kind] : d \in ToSet(node.declarations) }
        = Range(node.declarations)
  <2>1. ToSet(node.declarations) = Range(node.declarations)
    BY DEF ToSet, Range
  <2>2. \A d \in Range(node.declarations) : d \in Decls
    BY <1>1, RangeOfSeq
  <2> DEFINE K == {"value", "path", "constructor", "constructor alias"}
  <2>3. \A d \in Decls : [name |-> d.name, path |-> d.path, kind |-> d.kind] = d
    <3>1. Decls = [name : Names, path : Seq(Names), kind : K]
      BY DEF Decls
    <3> HIDE DEF K
    <3> QED BY <3>1
  <2> DEFINE R == Range(node.declarations)
  <2> HIDE DEF R
  <2>4. { [name |-> d.name, path |-> d.path, kind |-> d.kind] : d \in R } = R
    BY <2>2, <2>3 DEF R
  <2> QED BY <2>1, <2>4 DEF R
<1>10. { [name |-> u.name, path |-> Append(u.path, u.name),
          kind |-> IF u.kind = "with" THEN "constructor alias" ELSE "path"] : u \in Range(uses) }
         = Range(made)
  BY <1>6 DEF Imported
<1> QED BY <1>3, <1>7, <1>8, <1>9, <1>10 DEF DeclaredGlobals

\* Its modules: those it declares, and those made for use declarations.
ImportedNodes(node) == { AliasNode(use) : use \in { u \in ToSet(node.uses) : u.kind = "mod" } }

LEMMA ReducedContains ==
  ASSUME NEW node \in Nodes
  PROVE  /\ Range(reduced_submodules(node)) = Range(node.submodules) \cup ImportedNodes(node)
         /\ \A sub \in Range(reduced_submodules(node)) : sub \in Nodes /\ sub.kind # "top"
         /\ \A sub \in ImportedNodes(node) : sub.kind = "alias"
<1> DEFINE I == { i \in DOMAIN node.uses : IsMod(node.uses[i]) }
           uses == At(node.uses, I)
           made == [i \in DOMAIN uses |-> ImportedModule(uses[i])]
           X == { ImportedModule(use) : use \in Uses }
<1>1. node.submodules \in Seq(Nodes) /\ node.uses \in Seq(Uses) /\ I \subseteq DOMAIN node.uses
  BY NodeTyped
<1>2. uses \in Seq(Uses) /\ Range(uses) = { node.uses[i] : i \in I }
  <2> HIDE DEF I
  <2> QED BY <1>1, Selected
<1>3. reduced_submodules(node) = Backwards(made) \o node.submodules
  BY DEF reduced_submodules
<1> HIDE DEF uses
<1>4. DOMAIN uses = 1..Len(uses) /\ Len(uses) \in Nat /\ \A i \in DOMAIN uses : uses[i] \in Uses
  BY <1>2, LenProperties, ElementOfSeq
<1>5. made \in Seq(X) /\ DOMAIN made = DOMAIN uses
  <2>1. \A i \in 1..Len(uses) : ImportedModule(uses[i]) \in X
    BY <1>4
  <2> HIDE DEF X
  <2>2. [i \in 1..Len(uses) |-> ImportedModule(uses[i])] \in Seq(X)
    BY <1>4, <2>1, IsASeq
  <2> QED BY <1>4, <2>2
<1>6. Range(made) = { ImportedModule(use) : use \in Range(uses) }
  BY DEF Range
<1> HIDE DEF made, X
<1>7. Range(Backwards(made) \o node.submodules) = Range(made) \cup Range(node.submodules)
  BY <1>1, <1>5, PutInFront
<1>8. Range(uses) = { use \in ToSet(node.uses) : use.kind = "mod" }
  BY <1>2 DEF ToSet, IsMod
<1>9. ImportedNodes(node) = Range(made)
  BY <1>6, <1>8 DEF ImportedNodes, ImportedModule, AliasNode
<1>10. \A sub \in ImportedNodes(node) : sub.kind = "alias"
  BY DEF ImportedNodes, AliasNode
<1>11. \A sub \in Range(reduced_submodules(node)) : sub \in Nodes /\ sub.kind # "top"
  BY NodesAssumption, RangeOfSeq DEF Range
<1> QED BY <1>3, <1>7, <1>9, <1>10, <1>11

-----------------------------------------------------------------------------
(***************************************************************************)
(* What is in a list of declarations the walk has to meet: the modules,    *)
(* those of a self module at the top level instead of the self module, and *)
(* the public declarations such a self module brings.                      *)
(***************************************************************************)
Shown(nodes) == { [node |-> sub, public |-> TRUE] : sub \in nodes }
Hidden(nodes) == { [node |-> sub, public |-> FALSE] : sub \in nodes }
IsSelf(entry) == ~entry.inline /\ entry.node.kind = "self"
Spread(entry) ==
  IF IsSelf(entry) THEN Shown(Range(reduced_submodules(entry.node)))
  ELSE IF entry.inline THEN Shown({entry.node}) ELSE Hidden({entry.node})
Brought(entry) == IF IsSelf(entry) THEN Range(reduced_declarations(entry.node)) ELSE {}
Unfolded(list) == UNION { Spread(entry) : entry \in Range(list) }
Promised(list) == UNION { Brought(entry) : entry \in Range(list) }

\* Only a file has a self module; the other nodes are what they declare.
LEMMA SelvesAre ==
  ASSUME NEW node \in Nodes
  PROVE  /\ Selves(node) = { sub \in Range(reduced_submodules(node)) : node.kind = "top" /\ sub.kind = "self" }
         /\ DeclaredNodes(node) = { sub \in Range(reduced_submodules(node)) :
                                      ~(node.kind = "top" /\ sub.kind = "self") }
<1>1. /\ Range(reduced_submodules(node)) = Range(node.submodules) \cup ImportedNodes(node)
      /\ \A sub \in ImportedNodes(node) : sub.kind = "alias"
  BY ReducedContains
<1>2. ToSet(node.submodules) = Range(node.submodules)
  BY DEF ToSet, Range
<1>3. DeclaredNodes(node) = (ToSet(node.submodules) \ Selves(node)) \cup ImportedNodes(node)
  BY DEF DeclaredNodes, ImportedNodes
<1>4. Selves(node) = { sub \in Range(node.submodules) : node.kind = "top" /\ sub.kind = "self" }
  BY <1>2 DEF Selves
<1> QED BY <1>1, <1>2, <1>3, <1>4

LEMMA ListedRange ==
  ASSUME NEW nodes \in Seq(Nodes)
  PROVE  /\ Range(Inline(nodes)) = { [node |-> n, inline |-> TRUE] : n \in Range(nodes) }
         /\ Range(TopLevel(nodes)) = { [node |-> n, inline |-> FALSE] : n \in Range(nodes) }
BY DEF Range, Inline, TopLevel

\* A module with a body, or the self module of a file: all is public.
LEMMA InlineListed ==
  ASSUME NEW nodes \in Seq(Nodes)
  PROVE  /\ Unfolded(Inline(nodes)) = Shown(Range(nodes))
         /\ Promised(Inline(nodes)) = {}
<1> DEFINE E(n) == [node |-> n, inline |-> TRUE]
           D(n) == [node |-> n, public |-> TRUE]
           list == Inline(nodes)
<1>1. Range(list) = { E(n) : n \in Range(nodes) }
  BY ListedRange
<1>2. \A n : Spread(E(n)) = Shown({n}) /\ Brought(E(n)) = {}
  BY DEF Spread, Brought, IsSelf
<1>3. \A S, d : d \in Shown(S) <=> \E n \in S : d = D(n)
  BY DEF Shown
<1> HIDE DEF E, D, list
<1>4. \A d : d \in Unfolded(list) <=> \E n \in Range(nodes) : d \in Spread(E(n))
  BY <1>1 DEF Unfolded
<1>8. \A n, d : d \in Spread(E(n)) <=> d = D(n)
  <2>1. \A n, d : d \in Shown({n}) <=> d = D(n)
    BY <1>3
  <2> QED BY <1>2, <2>1
<1>5. \A d : d \in Unfolded(list) <=> d \in Shown(Range(nodes))
  BY <1>3, <1>4, <1>8
<1>6. Unfolded(list) = Shown(Range(nodes))
  BY <1>5
<1>7. Promised(list) = {}
  BY <1>1, <1>2 DEF Promised
<1> QED BY <1>6, <1>7 DEF list

LEMMA BodyListed ==
  ASSUME NEW node \in Nodes, node.kind # "top"
  PROVE  /\ ModulesOf(node) = Unfolded(Inline(reduced_submodules(node)))
         /\ PublicDecls(node) = Range(reduced_declarations(node)) /\ PrivateDecls(node) = {}
<1>1. reduced_submodules(node) \in Seq(Nodes)
  BY ReducedTyped
<1>2. DeclaredNodes(node) = Range(reduced_submodules(node))
  BY SelvesAre
<1>3. PublicNodes(node) = Range(reduced_submodules(node)) /\ PrivateNodes(node) = {}
  BY <1>2 DEF PublicNodes, PrivateNodes
<1>4. ModulesOf(node) = Shown(PublicNodes(node)) \cup Hidden(PrivateNodes(node))
  BY DEF ModulesOf, Shown, Hidden
<1>5. Hidden({}) = {}
  BY DEF Hidden
<1>6. ModulesOf(node) = Unfolded(Inline(reduced_submodules(node)))
  BY <1>1, <1>3, <1>4, <1>5, InlineListed
<1> QED BY <1>6, ReducedDeclares DEF PublicDecls, PrivateDecls

\* A file: what its self modules declare is public.
LEMMA FileListed ==
  ASSUME NEW node \in Nodes, node.kind = "top"
  PROVE  /\ ModulesOf(node) = Unfolded(TopLevel(reduced_submodules(node)))
         /\ PublicDecls(node) = Promised(TopLevel(reduced_submodules(node)))
         /\ PrivateDecls(node) = Range(reduced_declarations(node))
<1> DEFINE nodes == reduced_submodules(node)
           own == { n \in Range(nodes) : n.kind = "self" }
           other == { n \in Range(nodes) : n.kind # "self" }
           E(n) == [node |-> n, inline |-> FALSE]
           T(n) == [node |-> n, public |-> TRUE]
           F(n) == [node |-> n, public |-> FALSE]
           list == TopLevel(nodes)
<1>1. nodes \in Seq(Nodes) /\ \A n \in Range(nodes) : n \in Nodes /\ n.kind # "top"
  BY ReducedTyped, ReducedContains
<1>2. Selves(node) = own /\ DeclaredNodes(node) = other
  BY SelvesAre
<1>3. \A n \in own : /\ DeclaredNodes(n) = Range(reduced_submodules(n))
                     /\ DeclaredGlobals(n) = Range(reduced_declarations(n))
  BY <1>1, SelvesAre, ReducedDeclares
<1> HIDE DEF nodes
<1>4. Range(list) = { E(n) : n \in Range(nodes) }
  BY <1>1, ListedRange
<1>5. /\ \A n \in own : /\ Spread(E(n)) = Shown(Range(reduced_submodules(n)))
                        /\ Brought(E(n)) = Range(reduced_declarations(n))
      /\ \A n \in other : Spread(E(n)) = Hidden({n}) /\ Brought(E(n)) = {}
  BY DEF Spread, Brought, IsSelf
<1>6. Range(nodes) = own \cup other
  OBVIOUS
<1>7. /\ \A S, d : d \in Shown(S) <=> \E n \in S : d = T(n)
      /\ \A S, d : d \in Hidden(S) <=> \E n \in S : d = F(n)
  BY DEF Shown, Hidden
<1>8. /\ ModulesOf(node) = Shown(UNION { DeclaredNodes(n) : n \in own }) \cup Hidden(other)
      /\ PublicDecls(node) = UNION { DeclaredGlobals(n) : n \in own }
      /\ PrivateDecls(node) = Range(reduced_declarations(node))
  <2> HIDE DEF own, other
  <2>1. ModulesOf(node) = Shown(PublicNodes(node)) \cup Hidden(PrivateNodes(node))
    BY DEF ModulesOf, Shown, Hidden
  <2> QED BY <1>2, <2>1, ReducedDeclares DEF PublicNodes, PrivateNodes, PublicDecls, PrivateDecls
<1> HIDE DEF E, T, F, list, own, other
<1>9. /\ \A d : d \in Unfolded(list) <=> \E n \in own \cup other : d \in Spread(E(n))
      /\ \A g : g \in Promised(list) <=> \E n \in own \cup other : g \in Brought(E(n))
  BY <1>4, <1>6 DEF Unfolded, Promised
<1>10. \A d : d \in Unfolded(list) <=>
          \/ \E n \in own : \E sub \in Range(reduced_submodules(n)) : d = T(sub)
          \/ \E n \in other : d = F(n)
  <2>1. \A n \in own : \A d : d \in Spread(E(n)) <=> \E sub \in Range(reduced_submodules(n)) : d = T(sub)
    BY <1>5, <1>7
  <2>2. \A n \in other : \A d : d \in Spread(E(n)) <=> d = F(n)
    <3>1. \A n, d : d \in Hidden({n}) <=> d = F(n)
      BY <1>7
    <3> QED BY <1>5, <3>1
  <2> QED BY <1>9, <2>1, <2>2
<1>11. \A d : d \in ModulesOf(node) <=>
          \/ \E n \in own : \E sub \in Range(reduced_submodules(n)) : d = T(sub)
          \/ \E n \in other : d = F(n)
  <2> DEFINE S == UNION { DeclaredNodes(n) : n \in own }
  <2>1. \A sub : sub \in S <=> \E n \in own : sub \in Range(reduced_submodules(n))
    BY <1>3
  <2>2. ModulesOf(node) = Shown(S) \cup Hidden(other)
    BY <1>8
  <2> HIDE DEF S
  <2>3. \A d : d \in ModulesOf(node) <=> (\E sub \in S : d = T(sub)) \/ \E n \in other : d = F(n)
    BY <1>7, <2>2
  <2> QED BY <2>1, <2>3
<1>12. \A g : g \in Promised(list) <=> \E n \in own : g \in Range(reduced_declarations(n))
  BY <1>5, <1>9
<1>13. \A g : g \in PublicDecls(node) <=> \E n \in own : g \in Range(reduced_declarations(n))
  BY <1>3, <1>8
<1>14. ModulesOf(node) = Unfolded(list) /\ PublicDecls(node) = Promised(list)
  BY <1>10, <1>11, <1>12, <1>13
<1> QED BY <1>8, <1>14 DEF list, nodes

-----------------------------------------------------------------------------
(***************************************************************************)
(* The place of a module, and what is at a place, from the place one name  *)
(* shorter.                                                                *)
(***************************************************************************)
\* The table is a forest: roots, and modules behind their parents.
Forest(mods) ==
  /\ Len(mods) \in Nat
  /\ \A k \in 0..(Len(mods) - 1) :
       mods[k + 1].parent = NoModule \/ mods[k + 1].parent \in 0..(k - 1)

LEMMA PlaceIs ==
  ASSUME NEW mods, Forest(mods), NEW m \in 0..(Len(mods) - 1)
  PROVE  PlaceOf(mods, m) = IF mods[m + 1].parent = NoModule THEN <<mods[m + 1].name>>
                            ELSE Append(PlaceOf(mods, mods[m + 1].parent), mods[m + 1].name)
<1> DEFINE n == Len(mods) - 1
           P(k) == mods[k + 1].parent
           N(k) == mods[k + 1].name
           At_(f, k) == IF P(k) = NoModule THEN <<N(k)>> ELSE Append(f[P(k)], N(k))
           Up(f, b) == f = [k \in 0..b |-> At_(f, k)]
           T == { b \in 0..n : \E f : Up(f, b) }
           Is(f) == f = [k \in 0..(Len(mods) - 1) |->
                           IF mods[k + 1].parent = NoModule THEN <<mods[k + 1].name>>
                           ELSE Append(f[mods[k + 1].parent], mods[k + 1].name)]
           place == CHOOSE f : Is(f)
<1>1. n \in Nat /\ m \in 0..n /\ \A k \in 0..n : P(k) = NoModule \/ P(k) \in 0..(k - 1)
  BY DEF Forest
<1> HIDE DEF n, P, N
<1>2. 0 \in T
  <2> DEFINE f == [k \in 0..0 |-> <<N(0)>>]
  <2>1. P(0) = NoModule /\ 0 \in 0..n
    BY <1>1
  <2>2. f = [k \in 0..0 |-> At_(f, k)]
    BY <2>1
  <2>3. Up(f, 0)
    BY <2>2
  <2> QED BY <2>1, <2>3
<1>3. ASSUME NEW b \in 1..n, b - 1 \in T
      PROVE  b \in T
  <2>1. PICK f : Up(f, b - 1)
    BY <1>3
  <2> DEFINE g == [k \in 0..b |-> IF k = b THEN At_(f, b) ELSE f[k]]
  <2>2. \A k \in 0..(b - 1) : f[k] = At_(f, k)
    BY <2>1
  <2>3. \A k \in 0..b : g[k] = IF k = b THEN At_(f, b) ELSE f[k]
    OBVIOUS
  <2>4. g = [k \in 0..b |-> g[k]] /\ b \in 0..n
    BY <1>1
  <2> HIDE DEF g
  <2>5. ASSUME NEW k \in 0..b
        PROVE  g[k] = At_(g, k)
    <3>1. P(k) = NoModule \/ (P(k) \in 0..(k - 1) /\ P(k) \in 0..b /\ P(k) # b)
      BY <1>1
    <3>2. P(k) = NoModule \/ g[P(k)] = f[P(k)]
      BY <2>3, <3>1
    <3>3. At_(g, k) = At_(f, k)
      BY <3>2
    <3>4. CASE k = b
      BY <2>3, <3>3, <3>4
    <3>5. CASE k # b
      <4>1. k \in 0..(b - 1)
        BY <3>5
      <4> QED BY <2>2, <2>3, <3>3, <3>5, <4>1
    <3> QED BY <3>4, <3>5
  <2> HIDE DEF At_
  <2>6. [k \in 0..b |-> g[k]] = [k \in 0..b |-> At_(g, k)]
    BY <2>5
  <2>7. Up(g, b)
    BY <2>4, <2>6
  <2> QED BY <2>4, <2>7
<1>4. n \in T
  <2>1. n \in 0..n
    BY <1>1
  <2> HIDE DEF T
  <2> QED BY <1>1, <1>2, <1>3, <2>1, UpTo
<1>5. \E f : Is(f)
  BY <1>4 DEF n, P, N
<1>6. Is(place)
  BY <1>5, Zenon
<1>7. \A k : PlaceOf(mods, k) = place[k]
  BY DEF PlaceOf
<1> HIDE DEF place
<1>8. \A k \in 0..n : place[k] = At_(place, k)
  BY <1>6 DEF n, P, N
<1> QED BY <1>1, <1>7, <1>8 DEF P, N

LEMMA PlaceTyped ==
  ASSUME NEW mods, Forest(mods), \A k \in 0..(Len(mods) - 1) : mods[k + 1].name \in Names
  PROVE  \A m \in 0..(Len(mods) - 1) : PlaceOf(mods, m) \in Seq(Names) /\ PlaceOf(mods, m) # <<>>
<1> DEFINE n == Len(mods) - 1
           Typed(m) == PlaceOf(mods, m) \in Seq(Names) /\ PlaceOf(mods, m) # <<>>
           T == { b \in 0..n : \A m \in 0..b : Typed(m) }
<1>1. /\ Len(mods) \in Nat
      /\ \A k \in 0..n : mods[k + 1].parent = NoModule \/ mods[k + 1].parent \in 0..(k - 1)
  BY DEF Forest
<1>2. ASSUME NEW m \in 0..n, \A k \in 0..(m - 1) : Typed(k)
      PROVE  Typed(m)
  <2> DEFINE p == mods[m + 1].parent
             x == mods[m + 1].name
             q == PlaceOf(mods, p)
             r == PlaceOf(mods, m)
  <2>1. r = IF p = NoModule THEN <<x>> ELSE Append(q, x)
    BY PlaceIs
  <2>2. x \in Names /\ (p = NoModule \/ q \in Seq(Names))
    BY <1>1, <1>2
  <2> HIDE DEF q, x, r, p
  <2>3. r \in Seq(Names) /\ r # <<>>
    BY <2>1, <2>2
  <2> QED BY <2>3 DEF r
<1> HIDE DEF Typed
<1>3. CASE Len(mods) = 0
  BY <1>3
<1>4. CASE Len(mods) # 0
  <2>1. n \in Nat
    BY <1>1, <1>4
  <2>2. 0 \in T
    <3>1. 0 \in 0..n /\ \A k \in 0..(0 - 1) : FALSE
      BY <2>1
    <3> QED BY <1>2, <3>1
  <2>3. ASSUME NEW b \in 1..n, b - 1 \in T
        PROVE  b \in T
    <3>1. b \in 0..n /\ \A m \in 0..b : m = b \/ m \in 0..(b - 1)
      BY <2>1
    <3>2. Typed(b)
      BY <1>2, <2>3, <3>1
    <3> QED BY <2>3, <3>1, <3>2
  <2>4. 0..n \subseteq T
    <3> HIDE DEF T, n
    <3> QED BY <2>1, <2>2, <2>3, UpTo
  <2>5. \A m \in 0..n : m \in T /\ m \in 0..m
    <3> HIDE DEF T, n
    <3> QED BY <2>1, <2>4
  <2> QED BY <2>5 DEF Typed
<1> QED BY <1>3, <1>4

\* Modules stay at their places when others are added behind them.
LEMMA PlaceKept ==
  ASSUME NEW old, Forest(old), NEW new, Forest(new), Len(old) <= Len(new),
         \A k \in 0..(Len(old) - 1) : new[k + 1].parent = old[k + 1].parent /\ new[k + 1].name = old[k + 1].name
  PROVE  \A m \in 0..(Len(old) - 1) : PlaceOf(new, m) = PlaceOf(old, m)
<1> DEFINE n == Len(old) - 1
           Same(m) == PlaceOf(new, m) = PlaceOf(old, m)
           T == { b \in 0..n : \A m \in 0..b : Same(m) }
<1>1. /\ Len(old) \in Nat /\ Len(new) \in Nat
      /\ \A k \in 0..n : old[k + 1].parent = NoModule \/ old[k + 1].parent \in 0..(k - 1)
  BY DEF Forest
<1>2. ASSUME NEW m \in 0..n, \A k \in 0..(m - 1) : Same(k)
      PROVE  Same(m)
  <2>1. m \in 0..(Len(new) - 1)
    BY <1>1
  <2>2. PlaceOf(old, m) = IF old[m + 1].parent = NoModule THEN <<old[m + 1].name>>
                          ELSE Append(PlaceOf(old, old[m + 1].parent), old[m + 1].name)
    BY PlaceIs
  <2>3. PlaceOf(new, m) = IF new[m + 1].parent = NoModule THEN <<new[m + 1].name>>
                          ELSE Append(PlaceOf(new, new[m + 1].parent), new[m + 1].name)
    BY <2>1, PlaceIs
  <2>4. new[m + 1].parent = old[m + 1].parent /\ new[m + 1].name = old[m + 1].name
    OBVIOUS
  <2>5. old[m + 1].parent = NoModule \/ Same(old[m + 1].parent)
    BY <1>1, <1>2
  <2> QED BY <2>2, <2>3, <2>4, <2>5
<1> HIDE DEF Same
<1>3. CASE Len(old) = 0
  BY <1>3
<1>4. CASE Len(old) # 0
  <2>1. n \in Nat
    BY <1>1, <1>4
  <2>2. 0 \in T
    <3>1. 0 \in 0..n /\ \A k \in 0..(0 - 1) : FALSE
      BY <2>1
    <3> QED BY <1>2, <3>1
  <2>3. ASSUME NEW b \in 1..n, b - 1 \in T
        PROVE  b \in T
    <3>1. b \in 0..n /\ \A m \in 0..b : m = b \/ m \in 0..(b - 1)
      BY <2>1
    <3>2. Same(b)
      BY <1>2, <2>3, <3>1
    <3> QED BY <2>3, <3>1, <3>2
  <2>4. 0..n \subseteq T
    <3> HIDE DEF T, n
    <3> QED BY <2>1, <2>2, <2>3, UpTo
  <2>5. \A m \in 0..n : m \in T /\ m \in 0..m
    <3> HIDE DEF T, n
    <3> QED BY <2>1, <2>4
  <2> QED BY <2>5 DEF Same
<1> QED BY <1>3, <1>4

\* The sites that SiteAt goes through.
Passes(f, prog, place) ==
  /\ SiteAt(prog, place) = f[Len(place)]
  /\ \A n \in 1..Len(place) :
       f[n] = IF n = 1 THEN Root(prog, place[n]) ELSE Inside(prog, f[n - 1], place[n])

LEMMA SitesExist ==
  ASSUME NEW prog, NEW S, NEW place \in Seq(S)
  PROVE  \E f : Passes(f, prog, place)
<1> DEFINE n == Len(place)
           At_(f, k) == IF k = 1 THEN Root(prog, place[k]) ELSE Inside(prog, f[k - 1], place[k])
           Up(f, b) == f = [k \in 1..b |-> At_(f, k)]
           T == { b \in 0..n : \E f : Up(f, b) }
           Is(f) == f = [k \in 1..Len(place) |->
                           IF k = 1 THEN Root(prog, place[k]) ELSE Inside(prog, f[k - 1], place[k])]
           sites == CHOOSE f : Is(f)
<1>1. n \in Nat
  BY LenProperties
<1>2. 0 \in T
  <2> DEFINE f == [k \in 1..0 |-> {}]
  <2>1. f = [k \in 1..0 |-> At_(f, k)]
    OBVIOUS
  <2>2. Up(f, 0)
    BY <2>1
  <2>3. 0 \in 0..n
    BY <1>1
  <2> QED BY <2>2, <2>3
<1>3. ASSUME NEW b \in 1..n, b - 1 \in T
      PROVE  b \in T
  <2>1. PICK f : Up(f, b - 1)
    BY <1>3
  <2> DEFINE g == [k \in 1..b |-> IF k = b THEN At_(f, b) ELSE f[k]]
  <2>2. \A k \in 1..(b - 1) : f[k] = At_(f, k)
    BY <2>1
  <2>3. \A k \in 1..b : g[k] = IF k = b THEN At_(f, b) ELSE f[k]
    OBVIOUS
  <2>4. g = [k \in 1..b |-> g[k]] /\ b \in 0..n
    BY <1>1
  <2> HIDE DEF g
  <2>5. ASSUME NEW k \in 1..b
        PROVE  g[k] = At_(g, k)
    <3>1. k = 1 \/ (k - 1 \in 1..b /\ k - 1 # b)
      BY <1>1
    <3>2. k = 1 \/ g[k - 1] = f[k - 1]
      BY <2>3, <3>1
    <3>3. At_(g, k) = At_(f, k)
      BY <3>2
    <3>4. CASE k = b
      BY <2>3, <3>3, <3>4
    <3>5. CASE k # b
      <4>1. k \in 1..(b - 1)
        BY <3>5
      <4> QED BY <2>2, <2>3, <3>3, <3>5, <4>1
    <3> QED BY <3>4, <3>5
  <2> HIDE DEF At_
  <2>6. [k \in 1..b |-> g[k]] = [k \in 1..b |-> At_(g, k)]
    BY <2>5
  <2>7. Up(g, b)
    BY <2>4, <2>6
  <2> QED BY <2>4, <2>7
<1>4. n \in T
  <2>1. n \in 0..n
    BY <1>1
  <2> HIDE DEF T, n
  <2> QED BY <1>1, <1>2, <1>3, <2>1, UpTo
<1>5. \E f : Is(f)
  BY <1>4
<1>6. Is(sites)
  BY <1>5, Zenon
<1>7. SiteAt(prog, place) = sites[Len(place)]
  BY DEF SiteAt
<1> HIDE DEF sites
<1>8. \A k \in 1..n : sites[k] = At_(sites, k)
  BY <1>6
<1> QED BY <1>7, <1>8 DEF Passes

LEMMA SiteAtRoot ==
  ASSUME NEW prog, NEW S, NEW x \in S
  PROVE  SiteAt(prog, <<x>>) = Root(prog, x)
<1> DEFINE one == <<x>>
<1>1. one \in Seq(S) /\ Len(one) = 1 /\ one[1] = x
  OBVIOUS
<1> HIDE DEF one
<1>2. PICK f : Passes(f, prog, one)
  BY <1>1, SitesExist
<1>3. SiteAt(prog, one) = Root(prog, x)
  BY <1>1, <1>2 DEF Passes
<1> QED BY <1>3 DEF one

LEMMA SiteInside ==
  ASSUME NEW prog, NEW S, NEW place \in Seq(S), place # <<>>, NEW x \in S
  PROVE  SiteAt(prog, Append(place, x)) = Inside(prog, SiteAt(prog, place), x)
<1> DEFINE longer == Append(place, x)
           n == Len(place)
<1>1. /\ longer \in Seq(S) /\ Len(longer) = n + 1 /\ n \in Nat /\ n # 0 /\ longer[n + 1] = x
      /\ \A k \in 1..n : longer[k] = place[k]
  BY AppendProperties, LenProperties, EmptySeq
<1> HIDE DEF longer, n
<1>2. PICK f : /\ SiteAt(prog, place) = f[n]
               /\ \A k \in 1..n :
                    f[k] = IF k = 1 THEN Root(prog, place[k]) ELSE Inside(prog, f[k - 1], place[k])
  <2>1. PICK f : Passes(f, prog, place)
    BY SitesExist
  <2> QED BY <2>1 DEF n, Passes
<1>3. PICK g : /\ SiteAt(prog, longer) = g[n + 1]
               /\ \A k \in 1..(n + 1) :
                    g[k] = IF k = 1 THEN Root(prog, longer[k]) ELSE Inside(prog, g[k - 1], longer[k])
  <2>1. PICK g : Passes(g, prog, longer)
    BY <1>1, SitesExist
  <2> QED BY <1>1, <2>1 DEF Passes
<1> DEFINE T == { k \in 0..n : k = 0 \/ g[k] = f[k] }
<1>4. 0 \in T
  BY <1>1
<1>5. ASSUME NEW k \in 1..n, k - 1 \in T
      PROVE  k \in T
  <2>1. k \in 1..(n + 1) /\ k \in 0..n /\ (k = 1 \/ k - 1 # 0)
    BY <1>1
  <2>2. k = 1 \/ g[k - 1] = f[k - 1]
    BY <1>5, <2>1
  <2>3. longer[k] = place[k]
    BY <1>1
  <2> QED BY <1>2, <1>3, <2>1, <2>2, <2>3
<1>6. n \in T
  <2>1. n \in 0..n
    BY <1>1
  <2> HIDE DEF T
  <2> QED BY <1>1, <1>4, <1>5, <2>1, UpTo
<1>7. g[n] = f[n]
  BY <1>1, <1>6
<1>8. n + 1 \in 1..(n + 1) /\ n + 1 # 1 /\ (n + 1) - 1 = n
  BY <1>1
<1>9. g[n + 1] = Inside(prog, g[n], x)
  BY <1>1, <1>3, <1>8
<1> QED BY <1>2, <1>3, <1>7, <1>9 DEF longer

-----------------------------------------------------------------------------
(***************************************************************************)
(* What the table holds of a module, while the walk over its declarations  *)
(* goes on: what the walk still has to meet is pending.  The items stand   *)
(* for what the node at the place of the module declares.                  *)
(***************************************************************************)
StandsFor(item, d) ==
  item.name = d.node.name /\ item.path = d.node.path /\ item.is_public = d.public

SubsHeld(site, items, pending) ==
  /\ site.node \in Nodes
  /\ pending \subseteq ModulesOf(site.node)
  /\ \A d \in ModulesOf(site.node) \ pending :
        \E i \in DOMAIN items : items[i].is_submodule /\ StandsFor(items[i], d)
  /\ \A i \in DOMAIN items : items[i].is_submodule => \E d \in ModulesOf(site.node) : StandsFor(items[i], d)
  /\ \A d, e \in ModulesOf(site.node) \ pending : d.node.name = e.node.name => d = e
DeclsHeld(site, items, promised) ==
  /\ promised \subseteq PublicDecls(site.node)
  /\ \A g \in PublicDecls(site.node) \ promised :
        \E i \in DOMAIN items : ~items[i].is_submodule /\ items[i].decl = g
  /\ \A i \in DOMAIN items : ~items[i].is_submodule => items[i].decl \in PublicDecls(site.node)
FileHeld(site, module, compiled) ==
  /\ module.file + 1 \in DOMAIN compiled
  /\ compiled[module.file + 1].path = site.file
  /\ module.is_file <=> site.node.kind = "top"
  /\ module.is_file => compiled[module.file + 1].ast = site.node
Held(site, module, compiled, pending, promised) ==
  /\ SubsHeld(site, module.items, pending)
  /\ DeclsHeld(site, module.items, promised)
  /\ FileHeld(site, module, compiled)

\* What stays of a module when another is linked to it: all but the index of an item.
KeepsItem(new, old) ==
  /\ new.name = old.name /\ new.path = old.path
  /\ new.is_submodule = old.is_submodule /\ new.is_public = old.is_public
  /\ ~old.is_submodule => new.decl = old.decl
KeepsModule(new, old) ==
  /\ new.file = old.file /\ new.is_file = old.is_file
  /\ DOMAIN new.items = DOMAIN old.items
  /\ \A i \in DOMAIN old.items : KeepsItem(new.items[i], old.items[i])
KeepsFiles(new, old) ==
  \A f \in DOMAIN old : f \in DOMAIN new /\ new[f] = old[f]

LEMMA HeldKept ==
  ASSUME NEW site, NEW old, NEW new, NEW F, NEW G, NEW pending, NEW promised,
         Held(site, old, F, pending, promised), KeepsModule(new, old), KeepsFiles(G, F)
  PROVE  Held(site, new, G, pending, promised)
<1> DEFINE I == old.items
           J == new.items
<1>1. DOMAIN J = DOMAIN I /\ \A i \in DOMAIN I : KeepsItem(J[i], I[i])
  BY DEF KeepsModule
<1>2. SubsHeld(site, I, pending) /\ DeclsHeld(site, I, promised)
  BY DEF Held
<1> HIDE DEF I, J
<1>3. \A i \in DOMAIN I : \A d : StandsFor(I[i], d) <=> StandsFor(J[i], d)
  BY <1>1 DEF KeepsItem, StandsFor
<1>4. SubsHeld(site, J, pending)
  BY <1>1, <1>2, <1>3 DEF SubsHeld, KeepsItem
<1>5. DeclsHeld(site, J, promised)
  BY <1>1, <1>2 DEF DeclsHeld, KeepsItem
<1>6. FileHeld(site, new, G)
  BY DEF Held, FileHeld, KeepsModule, KeepsFiles
<1> QED BY <1>4, <1>5, <1>6 DEF Held, J

\* Items that are declarations are added, the ones a self module brings.
LEMMA HeldWithDecls ==
  ASSUME NEW site, NEW I, NEW J, NEW pending, NEW promised, NEW left, NEW brought,
         SubsHeld(site, I, pending), DeclsHeld(site, I, promised),
         promised = brought \cup left,
         \A i \in DOMAIN I : i \in DOMAIN J /\ J[i] = I[i],
         \A i \in DOMAIN J : i \in DOMAIN I \/ (~J[i].is_submodule /\ J[i].decl \in brought),
         \A g \in brought : \E i \in DOMAIN J : ~J[i].is_submodule /\ J[i].decl = g
  PROVE  SubsHeld(site, J, pending) /\ DeclsHeld(site, J, left)
<1>1. SubsHeld(site, J, pending)
  <2>1. ASSUME NEW d \in ModulesOf(site.node) \ pending
        PROVE  \E i \in DOMAIN J : J[i].is_submodule /\ StandsFor(J[i], d)
    BY DEF SubsHeld
  <2>2. ASSUME NEW i \in DOMAIN J, J[i].is_submodule
        PROVE  \E d \in ModulesOf(site.node) : StandsFor(J[i], d)
    BY <2>2 DEF SubsHeld
  <2> QED BY <2>1, <2>2 DEF SubsHeld
<1>2. DeclsHeld(site, J, left)
  <2>1. ASSUME NEW g \in PublicDecls(site.node) \ left
        PROVE  \E i \in DOMAIN J : ~J[i].is_submodule /\ J[i].decl = g
    <3>1. CASE g \in brought
      BY <3>1
    <3>2. CASE g \notin brought
      BY <3>2 DEF DeclsHeld
    <3> QED BY <3>1, <3>2
  <2>2. ASSUME NEW i \in DOMAIN J, ~J[i].is_submodule
        PROVE  J[i].decl \in PublicDecls(site.node)
    BY <2>2 DEF DeclsHeld
  <2> QED BY <2>1, <2>2 DEF DeclsHeld
<1> QED BY <1>1, <1>2

\* The item of a module that is not declared yet is added.
LEMMA HeldWithSub ==
  ASSUME NEW site, NEW I, NEW J, NEW pending, NEW promised, NEW left, NEW d, NEW k,
         SubsHeld(site, I, pending), DeclsHeld(site, I, promised),
         pending = {d} \cup left,
         \A i \in DOMAIN I : i \in DOMAIN J /\ J[i] = I[i],
         \A i \in DOMAIN J : i \in DOMAIN I \/ J[i] = J[k],
         k \in DOMAIN J, J[k].is_submodule, StandsFor(J[k], d),
         \A i \in DOMAIN I : ~(I[i].is_submodule /\ I[i].name = d.node.name)
  PROVE  SubsHeld(site, J, left) /\ DeclsHeld(site, J, promised)
<1>1. \A b \in ModulesOf(site.node) \ left : b = d \/ b \in ModulesOf(site.node) \ pending
  OBVIOUS
<1>2. ASSUME NEW b \in ModulesOf(site.node) \ pending
      PROVE  b.node.name # d.node.name
  BY DEF SubsHeld, StandsFor
<1>3. SubsHeld(site, J, left)
  <2>1. ASSUME NEW b \in ModulesOf(site.node) \ left
        PROVE  \E i \in DOMAIN J : J[i].is_submodule /\ StandsFor(J[i], b)
    BY <1>1 DEF SubsHeld
  <2>2. ASSUME NEW i \in DOMAIN J, J[i].is_submodule
        PROVE  \E b \in ModulesOf(site.node) : StandsFor(J[i], b)
    BY <2>2 DEF SubsHeld
  <2>3. \A b, e \in ModulesOf(site.node) \ left : b.node.name = e.node.name => b = e
    BY <1>1, <1>2 DEF SubsHeld
  <2>4. left \subseteq ModulesOf(site.node) /\ site.node \in Nodes
    BY DEF SubsHeld
  <2> QED BY <2>1, <2>2, <2>3, <2>4 DEF SubsHeld
<1>4. DeclsHeld(site, J, promised)
  BY DEF DeclsHeld
<1> QED BY <1>3, <1>4

LEMMA DeclItemsAre ==
  ASSUME NEW node \in Nodes
  PROVE  /\ \A i \in DOMAIN DeclItems(node) :
              /\ ~DeclItems(node)[i].is_submodule
              /\ DeclItems(node)[i].decl \in Range(reduced_declarations(node))
         /\ \A g \in Range(reduced_declarations(node)) :
              \E i \in DOMAIN DeclItems(node) : DeclItems(node)[i].decl = g
<1> DEFINE decls == reduced_declarations(node)
           items == DeclItems(node)
<1>1. items = [i \in DOMAIN decls |-> DeclItem(decls[i])]
  BY DEF DeclItems
<1>2. \A d : ~DeclItem(d).is_submodule /\ DeclItem(d).decl = d
  BY DEF DeclItem
<1> HIDE DEF decls, items
<1>3. DOMAIN items = DOMAIN decls /\ \A i \in DOMAIN items : ~items[i].is_submodule /\ items[i].decl = decls[i]
  BY <1>1, <1>2
<1>4. /\ \A i \in DOMAIN items : ~items[i].is_submodule /\ items[i].decl \in Range(decls)
      /\ \A g \in Range(decls) : \E i \in DOMAIN items : items[i].decl = g
  BY <1>3 DEF Range
<1> QED BY <1>4 DEF decls, items

\* A module that was made for a node: all is pending but its own declarations.
LEMMA HeldBody ==
  ASSUME NEW node \in Nodes, node.kind # "top", NEW file
  PROVE  LET pending == Unfolded(Inline(reduced_submodules(node)))
             promised == Promised(Inline(reduced_submodules(node)))
         IN /\ SubsHeld(Site(node, file), DeclItems(node), pending)
            /\ DeclsHeld(Site(node, file), DeclItems(node), promised)
<1> DEFINE pending == Unfolded(Inline(reduced_submodules(node)))
           promised == Promised(Inline(reduced_submodules(node)))
           site == Site(node, file)
           items == DeclItems(node)
<1>1. /\ ModulesOf(node) = pending /\ PublicDecls(node) = Range(reduced_declarations(node))
      /\ promised = {}
  BY BodyListed, InlineListed, ReducedTyped
<1>2. site.node = node
  BY DEF Site
<1>3. /\ \A i \in DOMAIN items : ~items[i].is_submodule /\ items[i].decl \in PublicDecls(node)
      /\ \A g \in PublicDecls(node) : \E i \in DOMAIN items : items[i].decl = g
  BY <1>1, DeclItemsAre
<1> HIDE DEF pending, promised, site, items
<1>4. SubsHeld(site, items, pending) /\ DeclsHeld(site, items, promised)
  BY <1>1, <1>2, <1>3 DEF SubsHeld, DeclsHeld
<1> QED BY <1>4 DEF pending, promised, site, items

LEMMA HeldTop ==
  ASSUME NEW node \in Nodes, node.kind = "top", NEW file
  PROVE  LET pending == Unfolded(TopLevel(reduced_submodules(node)))
             promised == Promised(TopLevel(reduced_submodules(node)))
         IN /\ SubsHeld(Site(node, file), <<>>, pending)
            /\ DeclsHeld(Site(node, file), <<>>, promised)
<1> DEFINE pending == Unfolded(TopLevel(reduced_submodules(node)))
           promised == Promised(TopLevel(reduced_submodules(node)))
           site == Site(node, file)
<1>1. ModulesOf(node) = pending /\ PublicDecls(node) = promised
  BY FileListed
<1>2. site.node = node /\ DOMAIN << >> = {}
  BY DEF Site
<1> HIDE DEF pending, promised, site
<1>3. SubsHeld(site, <<>>, pending) /\ DeclsHeld(site, <<>>, promised)
  BY <1>1, <1>2 DEF SubsHeld, DeclsHeld
<1> QED BY <1>3 DEF pending, promised, site

-----------------------------------------------------------------------------
(***************************************************************************)
(* The invariant: the table holds what the program declares, and the work  *)
(* is what is still to be done for it.                                     *)
(***************************************************************************)
Good == Distinct /\ Count <= NoModule
SiteOf(m) == SiteAt(program, PlaceOf(modules, m))
Pending(m) == IF m = at THEN Unfolded(todo) ELSE {}
PendingDecls(m) == IF m = at THEN Promised(todo) ELSE {}
HeldIn(m) == Held(SiteOf(m), get_module(m), files, Pending(m), PendingDecls(m))

\* The work of an entry is about one of the modules its parent declares.
WorkHeld(entry) ==
  /\ \E d \in ModulesOf(SiteOf(entry.parent).node) : d.node = entry.node
  /\ entry.node.kind \in {"body", "alias", "file"}
  /\ entry.kind = "file" <=> entry.node.kind = "file"

\* There is one module for each name in a parent, and no work for another.
IsChild(x, p, n) == get_module(x).parent = p /\ get_module(x).name = n
HasItem(p, n) ==
  \E i \in DOMAIN get_module(p).items : get_module(p).items[i].is_submodule /\ get_module(p).items[i].name = n
ChildrenHeld ==
  /\ \A x \in Mods : ParentOf(x) # NoModule => HasItem(ParentOf(x), get_module(x).name)
  /\ \A x \in Mods : \A w \in DOMAIN worklist : ~IsChild(x, worklist[w].parent, worklist[w].node.name)
  /\ \A x, y \in Mods : IsChild(x, ParentOf(y), get_module(y).name) => x = y
RootsHeld ==
  /\ Count <= NoModule =>
       \A x \in Mods : ParentOf(x) = NoModule =>
         \/ x = 0 /\ get_module(x).name = "main"
         \/ x = 1 /\ get_module(x).name = "std"
  /\ phase = "start" => Count = 0
  /\ phase = "main" => Count = 1
  /\ phase \in {"std", "work", "globals", "resolved"} =>
       /\ Count >= 2 /\ ParentOf(1) = NoModule
       /\ libraries = <<[name |-> "std", module |-> 1]>>
  /\ phase \in {"start", "globals", "resolved"} => todo = <<>>

TreeHeld == \A m \in Mods : HeldIn(m)
AllWorkHeld == \A w \in DOMAIN worklist : WorkHeld(worklist[w])
Sites == TreeHeld /\ AllWorkHeld /\ ChildrenHeld
SInv == PInv /\ RootsHeld /\ (Good => Sites)

LEMMA ForestHolds ==
  ASSUME TypeOK, Count <= NoModule
  PROVE  Forest(modules) /\ Len(modules) = Count /\ \A k \in Mods : modules[k + 1].name \in Names
<1>1. /\ Count \in Nat /\ Mods \subseteq Nat
      /\ \A m \in Mods : m + 1 \in DOMAIN modules
                         /\ (ParentOf(m) = NoModule \/ (ParentOf(m) \in Mods /\ ParentOf(m) < m))
  BY Parents
<1>2. \A m \in Mods : modules[m + 1].name \in Names
  BY <1>1, ItemsTyped DEF TypeOK, ModuleRecords
<1>3. \A m \in Mods : ParentOf(m) = NoModule \/ ParentOf(m) \in 0..(m - 1)
  <2> SUFFICES ASSUME NEW m \in Mods, ParentOf(m) # NoModule PROVE ParentOf(m) \in 0..(m - 1)
    OBVIOUS
  <2> DEFINE p == ParentOf(m)
  <2>1. p \in Nat /\ m \in Nat /\ p < m
    BY <1>1
  <2> HIDE DEF p
  <2>2. p \in 0..(m - 1)
    BY <2>1
  <2> QED BY <2>2 DEF p
<1> QED BY <1>1, <1>2, <1>3 DEF Forest, Mods, Count, ParentOf, get_module

LEMMA PlacesTyped ==
  ASSUME TypeOK, Count <= NoModule, NEW m \in Mods
  PROVE  PlaceOf(modules, m) \in Seq(Names) /\ PlaceOf(modules, m) # <<>>
<1>1. Forest(modules) /\ Len(modules) = Count /\ \A k \in Mods : modules[k + 1].name \in Names
  BY ForestHolds
<1> QED BY <1>1, PlaceTyped DEF Mods

LEMMA PlaceEq ==
  ASSUME TypeOK, Count <= NoModule, NEW m \in Mods
  PROVE  PlaceOf(modules, m) = IF ParentOf(m) = NoModule THEN <<get_module(m).name>>
                               ELSE Append(PlaceOf(modules, ParentOf(m)), get_module(m).name)
<1>1. Forest(modules) /\ m \in 0..(Len(modules) - 1)
  BY ForestHolds DEF Mods
<1> QED BY <1>1, PlaceIs DEF ParentOf, get_module

LEMMA SiteEq ==
  ASSUME TypeOK, Count <= NoModule, NEW m \in Mods
  PROVE  SiteOf(m) = IF ParentOf(m) = NoModule THEN Root(program, get_module(m).name)
                     ELSE Inside(program, SiteOf(ParentOf(m)), get_module(m).name)
<1> DEFINE p == ParentOf(m)
           n == get_module(m).name
<1>1. n \in Names /\ (p = NoModule \/ p \in Mods)
  <2>1. \A k \in Mods : modules[k + 1].name \in Names
    BY ForestHolds
  <2> QED BY <2>1, Parents DEF get_module
<1>2. PlaceOf(modules, m) = IF p = NoModule THEN <<n>> ELSE Append(PlaceOf(modules, p), n)
  BY PlaceEq
<1> HIDE DEF p, n
<1>3. CASE p = NoModule
  <2>1. SiteAt(program, <<n>>) = Root(program, n)
    BY <1>1, SiteAtRoot
  <2> QED BY <1>2, <1>3, <2>1 DEF SiteOf, p, n
<1>4. CASE p # NoModule
  <2> DEFINE q == PlaceOf(modules, p)
  <2>1. q \in Seq(Names) /\ q # <<>>
    BY <1>1, <1>4, PlacesTyped
  <2>2. PlaceOf(modules, m) = Append(q, n)
    BY <1>2, <1>4
  <2> HIDE DEF q
  <2>3. SiteAt(program, Append(q, n)) = Inside(program, SiteAt(program, q), n)
    BY ONLY <1>1, <2>1, SiteInside
  <2> QED BY <1>4, <2>2, <2>3 DEF SiteOf, p, n, q
<1> QED BY <1>3, <1>4

LEMMA SitesAre ==
  TypeOK /\ Count <= NoModule =>
    \A m \in Mods : SiteOf(m) = IF ParentOf(m) = NoModule THEN Root(program, get_module(m).name)
                                ELSE Inside(program, SiteOf(ParentOf(m)), get_module(m).name)
BY SiteEq
LEMMA SitesAreNext ==
  TypeOK' /\ Count' <= NoModule =>
    (\A m \in Mods : SiteOf(m) = IF ParentOf(m) = NoModule THEN Root(program, get_module(m).name)
                                 ELSE Inside(program, SiteOf(ParentOf(m)), get_module(m).name))'
<1>1. (TypeOK /\ Count <= NoModule =>
    \A m \in Mods : SiteOf(m) = IF ParentOf(m) = NoModule THEN Root(program, get_module(m).name)
                                ELSE Inside(program, SiteOf(ParentOf(m)), get_module(m).name))'
  BY SitesAre, PTL
<1> QED BY <1>1 DEF NoModule

LEMMA ForestNext == TypeOK' /\ Count' <= NoModule => Forest(modules')
<1>1. TypeOK /\ Count <= NoModule => Forest(modules)
  BY ForestHolds
<1>2. (TypeOK /\ Count <= NoModule => Forest(modules))'
  BY <1>1, PTL
<1> QED BY <1>2 DEF NoModule

LEMMA ModsAre ==
  ASSUME TypeOK
  PROVE  /\ Count \in Nat /\ Len(modules) = Count /\ DOMAIN modules = 1..Count
         /\ \A m \in Mods : m \in Nat /\ m + 1 \in DOMAIN modules /\ m < Count /\ (m + 1) - 1 = m
         /\ \A i \in DOMAIN modules : i - 1 \in Mods /\ (i - 1) + 1 = i
BY DEF TypeOK, Count, Mods

\* Modules stay where they are, and keep their names and files.
Same(m) ==
  /\ modules'[m + 1].parent = modules[m + 1].parent /\ modules'[m + 1].name = modules[m + 1].name
  /\ modules'[m + 1].file = modules[m + 1].file /\ modules'[m + 1].is_file = modules[m + 1].is_file
Steady ==
  /\ program' = program
  /\ Count <= Count' /\ Count' \in Nat
  /\ \A m \in Mods : Same(m)

LEMMA SitesKept ==
  ASSUME TypeOK, TypeOK', Count <= NoModule, Count' <= NoModule, Steady
  PROVE  /\ \A m \in Mods : m \in Mods' /\ SiteOf(m)' = SiteOf(m)
         /\ \A m \in Mods : ParentOf(m)' = ParentOf(m) /\ get_module(m)'.name = get_module(m).name
         /\ \A m \in Mods : ParentOf(m) = NoModule \/ ParentOf(m) \in Mods
<1>1. /\ Count \in Nat /\ \A m \in Mods : m \in Nat /\ m < Count
      /\ \A m \in Mods : ParentOf(m) = NoModule \/ ParentOf(m) \in Mods
  BY Parents, ModsAre
<1>2. Forest(modules) /\ Forest(modules') /\ Len(modules) = Count /\ Len(modules') = Count'
  BY ForestHolds, ForestNext DEF Count
<1>3. Mods = 0..(Len(modules) - 1) /\ Mods' = 0..(Len(modules') - 1)
  BY DEF Mods, Count
<1>4. \A k \in 0..(Len(modules) - 1) :
        modules'[k + 1].parent = modules[k + 1].parent /\ modules'[k + 1].name = modules[k + 1].name
  BY <1>3 DEF Steady, Same
<1>5. \A m \in 0..(Len(modules) - 1) : PlaceOf(modules', m) = PlaceOf(modules, m)
  BY <1>2, <1>4, PlaceKept DEF Steady
<1>6. \A m \in Mods : SiteOf(m)' = SiteOf(m)
  BY <1>3, <1>5 DEF SiteOf, Steady
<1>7. ASSUME NEW m \in Mods PROVE m \in Mods'
  <2>1. m \in Nat /\ m < Count /\ Count <= Count' /\ Count' \in Nat /\ Count \in Nat
    BY <1>1 DEF Steady
  <2> DEFINE c == Count
             d == Count'
  <2>2. m \in Nat /\ m < c /\ c <= d /\ d \in Nat /\ c \in Nat
    BY <2>1
  <2> HIDE DEF c, d
  <2>3. m \in 0..(d - 1)
    BY <2>2
  <2> QED BY <1>2, <1>3, <2>3 DEF d
<1>8. \A m \in Mods : ParentOf(m)' = ParentOf(m) /\ get_module(m)'.name = get_module(m).name
  BY DEF Steady, Same, ParentOf, get_module
<1> QED BY <1>1, <1>6, <1>7, <1>8

\* The walk appends to the items of the module it is at.
LEMMA WalkKeeps ==
  ASSUME TypeOK, TypeOK', Walking, NEW new \in Seq(Items), Declare(new), Keep
  PROVE  /\ Steady /\ Mods' = Mods /\ Count' = Count
         /\ at \in Mods
         /\ \A m \in Mods : /\ m # at => modules'[m + 1].items = modules[m + 1].items
                            /\ \A i \in DOMAIN modules[m + 1].items :
                                 /\ i \in DOMAIN modules'[m + 1].items
                                 /\ modules'[m + 1].items[i] = modules[m + 1].items[i]
         /\ \A i \in DOMAIN modules'[at + 1].items :
              \/ i \in DOMAIN modules[at + 1].items
              \/ \E k \in DOMAIN new : modules'[at + 1].items[i] = new[k]
         /\ \A k \in DOMAIN new : \E i \in DOMAIN modules'[at + 1].items : modules'[at + 1].items[i] = new[k]
         /\ Good' => Good
<1> DEFINE old == modules[at + 1].items
           longer == modules'[at + 1].items
<1>1. /\ at + 1 \in DOMAIN modules /\ DOMAIN modules' = DOMAIN modules /\ Count' = Count /\ at \in Nat
      /\ \A m \in DOMAIN modules :
           /\ modules'[m].name = modules[m].name /\ modules'[m].parent = modules[m].parent
           /\ modules'[m].file = modules[m].file /\ modules'[m].is_file = modules[m].is_file
           /\ m # at + 1 => modules'[m].items = modules[m].items
           /\ \A i \in DOMAIN modules[m].items :
                i \in DOMAIN modules'[m].items /\ modules'[m].items[i] = modules[m].items[i]
  BY DeclaredItems
<1>2. /\ DOMAIN longer = 1..(Len(old) + Len(new)) /\ DOMAIN old = 1..Len(old) /\ Len(old) \in Nat
      /\ \A i \in 1..Len(new) : longer[Len(old) + i] = new[i]
  BY DeclaredItems
<1>3. /\ Count \in Nat /\ DOMAIN modules = 1..Count
      /\ \A m \in Mods : m \in Nat /\ m + 1 \in DOMAIN modules /\ m < Count /\ (m + 1) - 1 = m
      /\ at + 1 \in DOMAIN modules => (at + 1) - 1 \in Mods
  BY ModsAre
<1>4. at \in Mods /\ Mods' = Mods /\ at' = at
  BY <1>1, <1>3 DEF Mods, Keep
<1>5. Steady
  BY <1>1, <1>3 DEF Steady, Same, Keep
<1>6. \A m \in Mods : m # at => m + 1 # at + 1
  BY <1>3, <1>1
<1>7. /\ \A i \in DOMAIN longer : i \in DOMAIN old \/ \E k \in DOMAIN new : longer[i] = new[k]
      /\ \A k \in DOMAIN new : \E i \in DOMAIN longer : longer[i] = new[k]
  <2>1. DOMAIN new = 1..Len(new) /\ Len(new) \in Nat
    OBVIOUS
  <2> HIDE DEF old, longer
  <2>2. ASSUME NEW i \in DOMAIN longer, i \notin DOMAIN old
        PROVE  \E k \in DOMAIN new : longer[i] = new[k]
    <3> DEFINE k == i - Len(old)
    <3>1. k \in 1..Len(new) /\ i = Len(old) + k
      BY <1>2, <2>1, <2>2
    <3> HIDE DEF k
    <3> QED BY <1>2, <2>1, <3>1
  <2>3. ASSUME NEW k \in DOMAIN new
        PROVE  \E i \in DOMAIN longer : longer[i] = new[k]
    <3>1. Len(old) + k \in DOMAIN longer /\ k \in 1..Len(new)
      BY <1>2, <2>1
    <3> QED BY <1>2, <3>1
  <2> QED BY <2>2, <2>3
<1>8. ASSUME Good' PROVE Good
  BY <1>1, <1>8 DEF Good, Distinct, NoModule
<1> QED BY <1>1, <1>3, <1>4, <1>5, <1>6, <1>7, <1>8

-----------------------------------------------------------------------------
\* What is left to meet, when one declaration was met.
LEMMA HeadFirst ==
  ASSUME NEW S, NEW list \in Seq(S), list # <<>>
  PROVE  Range(list) = {Head(list)} \cup Range(Tail(list))
<1>1. /\ Len(list) \in Nat /\ Len(list) # 0 /\ DOMAIN list = 1..Len(list) /\ Head(list) = list[1]
      /\ DOMAIN Tail(list) = 1..(Len(list) - 1) /\ \A i \in 1..(Len(list) - 1) : Tail(list)[i] = list[i + 1]
  BY EmptySeq
<1> DEFINE n == Len(list)
           rest == Tail(list)
<1> HIDE DEF n, rest
<1>2. /\ n \in Nat /\ n # 0 /\ DOMAIN list = 1..n /\ Head(list) = list[1]
      /\ DOMAIN rest = 1..(n - 1) /\ \A i \in 1..(n - 1) : rest[i] = list[i + 1]
  BY <1>1 DEF n, rest
<1>3. ASSUME NEW i \in DOMAIN list
      PROVE  list[i] \in {Head(list)} \cup Range(rest)
  <2>1. CASE i = 1
    BY <1>2, <2>1
  <2>2. CASE i # 1
    <3>1. i - 1 \in DOMAIN rest /\ rest[i - 1] = list[i]
      BY <1>2, <2>2
    <3> QED BY <3>1 DEF Range
  <2> QED BY <2>1, <2>2
<1>4. ASSUME NEW i \in DOMAIN rest
      PROVE  rest[i] \in Range(list)
  <2>1. i + 1 \in DOMAIN list /\ list[i + 1] = rest[i]
    BY <1>2
  <2> QED BY <2>1 DEF Range
<1>5. Head(list) \in Range(list)
  <2>1. 1 \in DOMAIN list
    BY <1>2
  <2> QED BY <1>2, <2>1 DEF Range
<1>6. \A x : x \in Range(list) <=> x \in {Head(list)} \cup Range(rest)
  BY <1>3, <1>4, <1>5 DEF Range
<1>7. Range(list) = {Head(list)} \cup Range(rest)
  BY <1>6
<1> QED BY <1>7 DEF rest

LEMMA UnfoldedHead ==
  ASSUME NEW S, NEW list \in Seq(S), list # <<>>
  PROVE  /\ Unfolded(list) = Spread(Head(list)) \cup Unfolded(Tail(list))
         /\ Promised(list) = Brought(Head(list)) \cup Promised(Tail(list))
<1>1. Range(list) = {Head(list)} \cup Range(Tail(list))
  BY HeadFirst
<1> DEFINE rest == Range(Tail(list))
           h == Head(list)
<1> HIDE DEF rest, h
<1>2. Range(list) = {h} \cup rest
  BY <1>1 DEF rest, h
<1>3. UNION { Spread(entry) : entry \in {h} \cup rest } = Spread(h) \cup (UNION { Spread(entry) : entry \in rest })
  OBVIOUS
<1>4. UNION { Brought(entry) : entry \in {h} \cup rest } = Brought(h) \cup (UNION { Brought(entry) : entry \in rest })
  OBVIOUS
<1> QED BY <1>2, <1>3, <1>4 DEF Unfolded, Promised, rest, h

LEMMA UnfoldedBoth ==
  ASSUME NEW S, NEW a \in Seq(S), NEW b \in Seq(S)
  PROVE  /\ Unfolded(a \o b) = Unfolded(a) \cup Unfolded(b)
         /\ Promised(a \o b) = Promised(a) \cup Promised(b)
<1> DEFINE A == Range(a)
           B == Range(b)
<1>1. Range(a \o b) = A \cup B
  BY RangeConcatenation
<1> HIDE DEF A, B
<1>2. UNION { Spread(entry) : entry \in A \cup B }
        = (UNION { Spread(entry) : entry \in A }) \cup (UNION { Spread(entry) : entry \in B })
  OBVIOUS
<1>3. UNION { Brought(entry) : entry \in A \cup B }
        = (UNION { Brought(entry) : entry \in A }) \cup (UNION { Brought(entry) : entry \in B })
  OBVIOUS
<1> QED BY <1>1, <1>2, <1>3 DEF Unfolded, Promised, A, B

LEMMA NothingUnfolded == Unfolded(<<>>) = {} /\ Promised(<<>>) = {}
<1>1. Range(<<>>) = {}
  BY DEF Range
<1> QED BY <1>1 DEF Unfolded, Promised

LEMMA SelfMet ==
  ASSUME TypeOK, SelfModule
  PROVE  /\ Unfolded(todo') = Unfolded(todo)
         /\ Promised(todo) = Range(reduced_declarations(Met)) \cup Promised(todo')
<1>1. Met \in Nodes /\ todo \in Seq(Entries) /\ todo # <<>> /\ Tail(todo) \in Seq(Entries)
  BY MetTyped DEF SelfModule, Walking, TypeOK, Entries
<1>2. reduced_submodules(Met) \in Seq(Nodes)
  BY <1>1, ReducedTyped
<1>3. Inline(reduced_submodules(Met)) \in Seq(Entries)
  BY <1>1, TodoTyped
<1>4. Spread(Head(todo)) = Shown(Range(reduced_submodules(Met))) /\ Brought(Head(todo)) = Range(reduced_declarations(Met))
  BY DEF Spread, Brought, IsSelf, SelfModule, Met
<1>5. Unfolded(Inline(reduced_submodules(Met))) = Shown(Range(reduced_submodules(Met)))
      /\ Promised(Inline(reduced_submodules(Met))) = {}
  BY <1>2, InlineListed
<1>6. todo' = Inline(reduced_submodules(Met)) \o Tail(todo)
  BY DEF SelfModule
<1>7. /\ Unfolded(todo) = Spread(Head(todo)) \cup Unfolded(Tail(todo))
      /\ Promised(todo) = Brought(Head(todo)) \cup Promised(Tail(todo))
  BY <1>1, UnfoldedHead
<1>8. /\ Unfolded(todo') = Unfolded(Inline(reduced_submodules(Met))) \cup Unfolded(Tail(todo))
      /\ Promised(todo') = Promised(Inline(reduced_submodules(Met))) \cup Promised(Tail(todo))
  <2> DEFINE a == Inline(reduced_submodules(Met))
             b == Tail(todo)
  <2>1. a \in Seq(Entries) /\ b \in Seq(Entries) /\ todo' = a \o b
    BY <1>1, <1>3, <1>6
  <2> HIDE DEF a, b
  <2>2. /\ Unfolded(a \o b) = Unfolded(a) \cup Unfolded(b)
        /\ Promised(a \o b) = Promised(a) \cup Promised(b)
    BY ONLY <2>1, UnfoldedBoth
  <2> QED BY <2>1, <2>2 DEF a, b
<1> QED BY <1>4, <1>5, <1>7, <1>8

\* The module a declaration stands for: public in a self module, private at the top.
Of(entry) == [node |-> entry.node, public |-> entry.inline]

LEMMA SubmoduleMet ==
  ASSUME TypeOK, Submodule
  PROVE  /\ Unfolded(todo) = {Of(Head(todo))} \cup Unfolded(todo')
         /\ Promised(todo') = Promised(todo)
<1>1. todo \in Seq(Entries) /\ todo # <<>> /\ Head(todo).inline \in BOOLEAN
  BY MetTyped DEF Submodule, Walking, TypeOK, Entries
<1>2. ~IsSelf(Head(todo))
  BY DEF IsSelf, Submodule, Met
<1>3. Brought(Head(todo)) = {}
  BY <1>2 DEF Brought
<1>4. Spread(Head(todo)) = {Of(Head(todo))}
  <2>1. CASE Head(todo).inline = TRUE
    BY <1>2, <2>1 DEF Spread, Of, Shown
  <2>2. CASE Head(todo).inline = FALSE
    BY <1>2, <2>2 DEF Spread, Of, Hidden
  <2> QED BY <1>1, <2>1, <2>2
<1>5. todo' = Tail(todo)
  BY DEF Submodule
<1> QED BY <1>1, <1>3, <1>4, <1>5, UnfoldedHead

-----------------------------------------------------------------------------
(***************************************************************************)
(* The steps of the walk.                                                  *)
(***************************************************************************)
LEMMA StillHeld ==
  ASSUME NEW m \in Mods, HeldIn(m), SiteOf(m)' = SiteOf(m), KeepsModule(modules'[m + 1], modules[m + 1]),
         KeepsFiles(files', files), Pending(m)' = Pending(m), PendingDecls(m)' = PendingDecls(m)
  PROVE  HeldIn(m)'
<1>1. Held(SiteOf(m), modules[m + 1], files, Pending(m), PendingDecls(m))
  BY DEF HeldIn, get_module
<1>2. Held(SiteOf(m), modules'[m + 1], files', Pending(m), PendingDecls(m))
  BY <1>1, HeldKept
<1>3. Held(SiteOf(m)', modules'[m + 1], files', Pending(m)', PendingDecls(m)')
  BY <1>2
<1> QED BY <1>3 DEF HeldIn, get_module

\* Work that stays is still about a module of its parent.
LEMMA WorkStays ==
  ASSUME NEW entry, WorkHeld(entry), SiteOf(entry.parent)' = SiteOf(entry.parent)
  PROVE  WorkHeld(entry)'
BY DEF WorkHeld

KeepsItems ==
  \A m \in Mods : \A i \in DOMAIN modules[m + 1].items :
     /\ i \in DOMAIN modules'[m + 1].items
     /\ modules'[m + 1].items[i] = modules[m + 1].items[i]
NoChildOf(entry) == \A x \in Mods : ~IsChild(x, entry.parent, entry.node.name)

LEMMA WalkChildren ==
  ASSUME ChildrenHeld, Steady, Mods' = Mods, KeepsItems,
         \A m \in Mods : ParentOf(m) = NoModule \/ ParentOf(m) \in Mods,
         \A w \in DOMAIN worklist' : \/ w \in DOMAIN worklist /\ worklist'[w] = worklist[w]
                                     \/ NoChildOf(worklist'[w])
  PROVE  ChildrenHeld'
<1>1. \A m \in Mods : ParentOf(m)' = ParentOf(m) /\ get_module(m)'.name = get_module(m).name
                      /\ get_module(m)'.parent = get_module(m).parent
  BY DEF Steady, Same, ParentOf, get_module
<1>2. \A x \in Mods : \A p, n : IsChild(x, p, n)' <=> IsChild(x, p, n)
  BY <1>1 DEF IsChild
<1>3. \A p \in Mods : \A n : HasItem(p, n) => HasItem(p, n)'
  BY DEF HasItem, get_module, KeepsItems
<1>4. \A x \in Mods' : ParentOf(x)' # NoModule => HasItem(ParentOf(x), get_module(x).name)'
  <2> SUFFICES ASSUME NEW x \in Mods, ParentOf(x) # NoModule
               PROVE  HasItem(ParentOf(x), get_module(x).name)'
    BY <1>1
  <2> DEFINE p == ParentOf(x)
             n == get_module(x).name
  <2>1. HasItem(p, n) /\ p \in Mods
    BY DEF ChildrenHeld
  <2>2. ParentOf(x)' = p /\ get_module(x)'.name = n
    BY <1>1
  <2>3. HasItem(p, n) => \E i \in DOMAIN modules'[p + 1].items :
                            modules'[p + 1].items[i].is_submodule /\ modules'[p + 1].items[i].name = n
    BY <2>1 DEF HasItem, get_module, KeepsItems
  <2> HIDE DEF p, n
  <2>4. \E i \in DOMAIN modules'[p + 1].items :
          modules'[p + 1].items[i].is_submodule /\ modules'[p + 1].items[i].name = n
    BY <2>1, <2>3
  <2> QED BY <2>2, <2>4 DEF HasItem, get_module
<1>5. \A x \in Mods' : \A w \in DOMAIN worklist' : ~IsChild(x, worklist[w].parent, worklist[w].node.name)'
  <2> SUFFICES ASSUME NEW x \in Mods, NEW w \in DOMAIN worklist'
               PROVE  ~IsChild(x, worklist'[w].parent, worklist'[w].node.name)
    BY <1>1 DEF IsChild
  <2> QED BY DEF ChildrenHeld, NoChildOf
<1>6. \A x, y \in Mods' : IsChild(x, ParentOf(y), get_module(y).name)' => x = y
  BY <1>1 DEF ChildrenHeld, IsChild
<1> QED BY <1>4, <1>5, <1>6 DEF ChildrenHeld

\* The other modules, and the work, while the walk is at one module.
LEMMA WalkOthers ==
  ASSUME TypeOK, TypeOK', Walking, NEW new \in Seq(Items), Declare(new), Keep, Good', Good => Sites
  PROVE  /\ Good /\ Sites /\ Mods' = Mods /\ at \in Mods /\ Steady /\ KeepsItems
         /\ \A m \in Mods : SiteOf(m)' = SiteOf(m) /\ (ParentOf(m) = NoModule \/ ParentOf(m) \in Mods)
         /\ \A m \in Mods : m # at => HeldIn(m)'
         /\ \A entry \in Range(worklist) : entry.parent \in Mods /\ WorkHeld(entry)'
<1>1. /\ Steady /\ Mods' = Mods /\ Count' = Count /\ at \in Mods /\ Good
      /\ \A m \in Mods : m # at => modules'[m + 1].items = modules[m + 1].items
      /\ KeepsItems
  BY WalkKeeps DEF KeepsItems
<1>2. Sites /\ Count <= NoModule /\ Count' <= NoModule
  BY <1>1 DEF Good
<1>3. /\ \A m \in Mods : SiteOf(m)' = SiteOf(m) /\ (ParentOf(m) = NoModule \/ ParentOf(m) \in Mods)
  BY <1>1, <1>2, SitesKept
<1>4. UNCHANGED <<files, at>>
  BY DEF Keep
<1>5. ASSUME NEW m \in Mods, m # at
      PROVE  HeldIn(m)'
  <2>1. KeepsModule(modules'[m + 1], modules[m + 1])
    BY <1>1, <1>5 DEF KeepsModule, KeepsItem, Steady, Same
  <2>2. KeepsFiles(files', files)
    BY <1>4 DEF KeepsFiles
  <2>3. Pending(m)' = Pending(m) /\ PendingDecls(m)' = PendingDecls(m)
    BY <1>4, <1>5 DEF Pending, PendingDecls
  <2>4. HeldIn(m)
    BY <1>2 DEF Sites, TreeHeld
  <2> QED BY <1>3, <2>1, <2>2, <2>3, <2>4, StillHeld
<1>6. ASSUME NEW entry \in Range(worklist)
      PROVE  entry.parent \in Mods /\ WorkHeld(entry)'
  <2>1. PICK w \in DOMAIN worklist : entry = worklist[w]
    BY DEF Range
  <2>2. entry.parent + 1 \in DOMAIN modules /\ entry.parent \in Nat
    BY <2>1, WorklistTyped
  <2>3. (entry.parent + 1) - 1 \in Mods
    BY <2>2, ModsAre
  <2>4. entry.parent \in Mods
    BY <2>2, <2>3
  <2>5. WorkHeld(entry)
    BY <1>2, <2>1 DEF Sites, AllWorkHeld
  <2>6. SiteOf(entry.parent)' = SiteOf(entry.parent)
    BY <1>3, <2>4
  <2> QED BY <2>4, <2>5, <2>6, WorkStays
<1> QED BY <1>1, <1>2, <1>3, <1>5, <1>6

LEMMA SelfModuleSites ==
  ASSUME TypeOK, TypeOK', SelfModule, Good', Good => Sites
  PROVE  Sites'
<1> DEFINE new == DeclItems(Met)
<1>1. Walking /\ Declare(new) /\ Keep /\ Met \in Nodes /\ new \in Seq(Items) /\ worklist' = worklist
  <2>1. Met \in Nodes
    BY MetTyped DEF SelfModule
  <2> QED BY <2>1, DeclItemsTyped DEF SelfModule
<1>2. /\ \A k \in DOMAIN new : ~new[k].is_submodule /\ new[k].decl \in Range(reduced_declarations(Met))
      /\ \A g \in Range(reduced_declarations(Met)) : \E k \in DOMAIN new : new[k].decl = g
  BY <1>1, DeclItemsAre
<1> HIDE DEF new
<1>3. /\ Good /\ Sites /\ Mods' = Mods /\ at \in Mods /\ Steady /\ KeepsItems
      /\ \A m \in Mods : SiteOf(m)' = SiteOf(m) /\ (ParentOf(m) = NoModule \/ ParentOf(m) \in Mods)
      /\ \A m \in Mods : m # at => HeldIn(m)'
      /\ \A entry \in Range(worklist) : entry.parent \in Mods /\ WorkHeld(entry)'
  BY <1>1, WalkOthers
<1>4. HeldIn(at)'
  <2> DEFINE site == SiteOf(at)
             I == modules[at + 1].items
             J == modules'[at + 1].items
             pending == Unfolded(todo)
             promised == Promised(todo)
             left == Promised(todo')
             brought == Range(reduced_declarations(Met))
  <2>1. SubsHeld(site, I, pending) /\ DeclsHeld(site, I, promised) /\ FileHeld(site, modules[at + 1], files)
    <3>1. HeldIn(at)
      BY <1>3 DEF Sites, TreeHeld
    <3> QED BY <3>1 DEF HeldIn, Held, Pending, PendingDecls, get_module
  <2>2. promised = brought \cup left /\ Unfolded(todo') = pending
    BY SelfMet
  <2>3. \A i \in DOMAIN I : i \in DOMAIN J /\ J[i] = I[i]
    BY <1>3 DEF KeepsItems
  <2>4. /\ \A i \in DOMAIN J : i \in DOMAIN I \/ \E k \in DOMAIN new : J[i] = new[k]
        /\ \A k \in DOMAIN new : \E i \in DOMAIN J : J[i] = new[k]
    BY <1>1, WalkKeeps
  <2>5. SiteOf(at)' = site /\ at' = at /\ files' = files
    BY <1>1, <1>3 DEF Keep
  <2>6. FileHeld(site, modules'[at + 1], files')
    BY <1>3, <2>1, <2>5 DEF FileHeld, Steady, Same
  <2>11. Pending(at)' = Unfolded(todo') /\ PendingDecls(at)' = left
    BY <2>5 DEF Pending, PendingDecls
  <2> HIDE DEF site, I, J, pending, promised, left, brought
  <2>7. \A i \in DOMAIN J : i \in DOMAIN I \/ (~J[i].is_submodule /\ J[i].decl \in brought)
    BY <1>2, <2>4 DEF brought
  <2>8. \A g \in brought : \E i \in DOMAIN J : ~J[i].is_submodule /\ J[i].decl = g
    BY <1>2, <2>4 DEF brought
  <2>9. SubsHeld(site, J, pending) /\ DeclsHeld(site, J, left)
    BY ONLY <2>1, <2>2, <2>3, <2>7, <2>8, HeldWithDecls
  <2>10. Held(site, modules'[at + 1], files', pending, left)
    BY <2>6, <2>9 DEF Held, J
  <2>12. Held(SiteOf(at)', modules'[at' + 1], files', Pending(at)', PendingDecls(at)')
    BY <2>2, <2>5, <2>10, <2>11
  <2> QED BY <2>5, <2>12 DEF HeldIn, get_module
<1>5. TreeHeld'
  <2>1. at' = at
    BY <1>1 DEF Keep
  <2>2. ASSUME NEW m \in Mods' PROVE HeldIn(m)'
    <3>1. CASE m = at
      BY <1>4, <2>1, <3>1 DEF HeldIn
    <3>2. CASE m # at
      BY <1>3, <3>2
    <3> QED BY <3>1, <3>2
  <2> QED BY <2>2 DEF TreeHeld
<1>6. AllWorkHeld'
  BY <1>1, <1>3 DEF AllWorkHeld, WorkHeld, Range
<1>7. ChildrenHeld'
  BY <1>1, <1>3, WalkChildren DEF Sites
<1> QED BY <1>5, <1>6, <1>7 DEF Sites

\* The work an item is given.
LEMMA WorkAdded ==
  ASSUME TypeOK, Submodule, NEW w \in DOMAIN worklist'
  PROVE  \/ w \in DOMAIN worklist /\ worklist'[w] = worklist[w]
         \/ /\ worklist'[w].parent = at /\ worklist'[w].node = Met
            /\ worklist'[w].kind = "file" <=> Met.kind = "file"
<1> DEFINE work == Work(Head(todo))
<1>1. Head(todo).node = Met /\ Met.kind \in {"body", "alias", "file"}
  BY DEF Met, Submodule
<1>2. work = <<>> \/ work = <<Node(Met, at)>> \/ work = <<File(Met, at)>>
  BY <1>1 DEF Work
<1>3. Met.kind = "file" <=> work = <<File(Met, at)>>
  <2>1. <<Node(Met, at)>> # <<File(Met, at)>> /\ << >> # <<File(Met, at)>>
    BY DEF Node, File
  <2> QED BY <1>1, <2>1 DEF Work
<1>4. worklist' = worklist \o work /\ worklist \in Seq(WorkEntries)
  BY WorklistTyped DEF Submodule
<1> HIDE DEF work
<1>5. ASSUME work = <<>>
      PROVE  w \in DOMAIN worklist /\ worklist'[w] = worklist[w]
  BY <1>4, <1>5
<1>6. ASSUME NEW e, work = <<e>>
      PROVE  (w \in DOMAIN worklist /\ worklist'[w] = worklist[w]) \/ worklist'[w] = e
  BY <1>4, <1>6
<1>7. CASE work = <<>>
  BY <1>5, <1>7
<1>8. CASE work = <<Node(Met, at)>>
  <2>1. Met.kind # "file"
    <3>1. <<Node(Met, at)>> # <<File(Met, at)>>
      BY DEF Node, File
    <3> QED BY <1>3, <1>8, <3>1
  <2> QED BY <1>6, <1>8, <2>1 DEF Node
<1>9. CASE work = <<File(Met, at)>>
  BY <1>3, <1>6, <1>9 DEF File
<1> QED BY <1>2, <1>7, <1>8, <1>9

LEMMA SubmoduleSites ==
  ASSUME TypeOK, TypeOK', Submodule, Good', Good => Sites
  PROVE  Sites'
<1> DEFINE sub == SubmoduleItem(Met, IsPublic(Head(todo)))
           new == <<sub>>
           d == Of(Head(todo))
<1>1. Walking /\ Declare(new) /\ Keep /\ Met \in Nodes /\ new \in Seq(Items)
  <2>1. Met \in Nodes /\ IsPublic(Head(todo)) \in BOOLEAN
    BY MetTyped DEF Submodule, IsPublic
  <2>2. sub \in Items
    BY <2>1, SubmoduleItemTyped
  <2> HIDE DEF sub
  <2>3. <<sub>> \in Seq(Items)
    BY <2>2
  <2> QED BY <2>1, <2>3 DEF Submodule, sub
<1>2. /\ sub.is_submodule /\ StandsFor(sub, d) /\ d.node = Met
  BY DEF SubmoduleItem, StandsFor, Of, Met, IsPublic
<1>10. DOMAIN new = {1} /\ new[1] = sub
  OBVIOUS
<1> HIDE DEF sub, new, d
<1>3. /\ Good /\ Sites /\ Mods' = Mods /\ at \in Mods /\ Steady /\ KeepsItems
      /\ \A m \in Mods : SiteOf(m)' = SiteOf(m) /\ (ParentOf(m) = NoModule \/ ParentOf(m) \in Mods)
      /\ \A m \in Mods : m # at => HeldIn(m)'
      /\ \A entry \in Range(worklist) : entry.parent \in Mods /\ WorkHeld(entry)'
  BY <1>1, WalkOthers
<1>11. at' = at
  BY <1>1 DEF Keep
<1>12. \A i \in DOMAIN modules[at + 1].items :
         ~(modules[at + 1].items[i].is_submodule /\ modules[at + 1].items[i].name = Met.name)
  BY DEF Submodule, Redeclared, check_module_exists, get_module
<1>13. Unfolded(todo) = {d} \cup Unfolded(todo') /\ Promised(todo') = Promised(todo)
  BY SubmoduleMet DEF d
<1>14. SubsHeld(SiteOf(at), modules[at + 1].items, Unfolded(todo)) /\ DeclsHeld(SiteOf(at), modules[at + 1].items, Promised(todo))
       /\ FileHeld(SiteOf(at), modules[at + 1], files)
  <2>1. HeldIn(at)
    BY <1>3 DEF Sites, TreeHeld
  <2> QED BY <2>1 DEF HeldIn, Held, Pending, PendingDecls, get_module
<1>4. HeldIn(at)'
  <2> DEFINE site == SiteOf(at)
             I == modules[at + 1].items
             J == modules'[at + 1].items
             pending == Unfolded(todo)
             promised == Promised(todo)
             left == Unfolded(todo')
  <2>1. SubsHeld(site, I, pending) /\ DeclsHeld(site, I, promised) /\ FileHeld(site, modules[at + 1], files)
    BY <1>14
  <2>2. pending = {d} \cup left /\ Promised(todo') = promised
    BY <1>13
  <2>3. \A i \in DOMAIN I : i \in DOMAIN J /\ J[i] = I[i]
    BY <1>3 DEF KeepsItems
  <2>4. /\ \A i \in DOMAIN J : i \in DOMAIN I \/ \E k \in DOMAIN new : J[i] = new[k]
        /\ \A k \in DOMAIN new : \E i \in DOMAIN J : J[i] = new[k]
    BY <1>1, WalkKeeps
  <2>5. SiteOf(at)' = site /\ files' = files
    BY <1>1, <1>3 DEF Keep
  <2>6. FileHeld(site, modules'[at + 1], files')
    BY <1>3, <2>1, <2>5 DEF FileHeld, Steady, Same
  <2>7. Pending(at)' = left /\ PendingDecls(at)' = Promised(todo')
    BY <1>11 DEF Pending, PendingDecls
  <2>8. \A i \in DOMAIN I : ~(I[i].is_submodule /\ I[i].name = d.node.name)
    BY <1>2, <1>12
  <2> HIDE DEF site, I, J, pending, promised, left
  <2>9. PICK k \in DOMAIN J : J[k] = sub
    BY <1>10, <2>4
  <2>10. \A i \in DOMAIN J : i \in DOMAIN I \/ J[i] = J[k]
    BY <1>10, <2>4, <2>9
  <2>11. J[k].is_submodule /\ StandsFor(J[k], d)
    BY <1>2, <2>9
  <2>12. SubsHeld(site, J, left) /\ DeclsHeld(site, J, promised)
    BY ONLY <2>1, <2>2, <2>3, <2>8, <2>9, <2>10, <2>11, HeldWithSub
  <2>13. Held(site, modules'[at + 1], files', left, promised)
    BY <2>6, <2>12 DEF Held, J
  <2>14. Held(SiteOf(at)', modules'[at' + 1], files', Pending(at)', PendingDecls(at)')
    BY <1>11, <2>2, <2>5, <2>7, <2>13
  <2> QED BY <1>11, <2>14 DEF HeldIn, get_module
<1>5. TreeHeld'
  <2>2. ASSUME NEW m \in Mods' PROVE HeldIn(m)'
    <3>1. CASE m = at
      BY <1>4, <1>11, <3>1 DEF HeldIn
    <3>2. CASE m # at
      BY <1>3, <3>2
    <3> QED BY <3>1, <3>2
  <2> QED BY <2>2 DEF TreeHeld
<1>6. AllWorkHeld'
  <2> SUFFICES ASSUME NEW w \in DOMAIN worklist', NEW entry, entry = worklist'[w]
               PROVE  WorkHeld(entry)'
    BY DEF AllWorkHeld, WorkHeld
  <2>1. CASE w \in DOMAIN worklist /\ entry = worklist[w]
    BY <1>3, <2>1 DEF Range
  <2>2. CASE entry.parent = at /\ entry.node = Met /\ (entry.kind = "file" <=> Met.kind = "file")
    <3>1. d \in ModulesOf(SiteOf(at).node)
      BY <1>13, <1>14 DEF SubsHeld
    <3>2. SiteOf(entry.parent)' = SiteOf(at)
      BY <1>3, <2>2
    <3>3. Met.kind \in {"body", "alias", "file"}
      BY DEF Submodule
    <3> QED BY <1>2, <2>2, <3>1, <3>2, <3>3 DEF WorkHeld
  <2> QED BY <2>1, <2>2, WorkAdded
<1>7. ChildrenHeld'
  <2>1. ASSUME NEW w \in DOMAIN worklist', ~(w \in DOMAIN worklist /\ worklist'[w] = worklist[w])
        PROVE  NoChildOf(worklist'[w])
    <3>1. worklist'[w].parent = at /\ worklist'[w].node = Met
      BY <2>1, WorkAdded
    <3>2. ASSUME NEW x \in Mods, IsChild(x, at, Met.name)
          PROVE  FALSE
      <4>1. ParentOf(x) = at /\ get_module(x).name = Met.name /\ at # NoModule
        BY <1>3, <3>2, Parents DEF IsChild, ParentOf, Good
      <4>2. HasItem(at, Met.name)
        BY <1>3, <4>1 DEF Sites, ChildrenHeld
      <4> QED BY <1>12, <4>2 DEF HasItem, get_module
    <3> QED BY <3>1, <3>2 DEF NoChildOf
  <2> QED BY <1>3, <2>1, WalkChildren DEF Sites
<1> QED BY <1>5, <1>6, <1>7 DEF Sites

-----------------------------------------------------------------------------
(***************************************************************************)
(* A module is created.                                                    *)
(***************************************************************************)
LEMMA SetIndexKeeps ==
  ASSUME NEW item \in Items, NEW index \in Nat
  PROVE  /\ item.is_submodule => KeepsItem(set_index(item, index), item)
         /\ ~item.is_submodule => /\ set_index(item, index).decl = Clobbered
                                  /\ ~set_index(item, index).is_submodule
BY DEF set_index, Items, KeepsItem

\* What is made, and how the table is then: the others are as they were.
Makes(k, p, n, f, is_file, is_type, items) ==
  /\ k \in Nat /\ k = Count /\ p \in Nat /\ (p = NoModule \/ p < k) /\ n \in Names
  /\ f \in Nat /\ is_file \in BOOLEAN /\ is_type \in BOOLEAN /\ items \in Seq(Items)
  /\ \A i \in DOMAIN items : ~items[i].is_submodule
  /\ modules' = Append(link(modules, p, n, Count), create_module(n, p, f, is_file, is_type, items))
Grew(k, p, n) ==
  /\ Steady /\ Count' = k + 1 /\ Mods' = Mods \cup {k} /\ k \notin Mods
  /\ modules'[k + 1].name = n /\ modules'[k + 1].parent = p
Created(k, p, n, f, is_file, items) ==
  /\ Steady /\ Count' = k + 1 /\ Mods' = Mods \cup {k} /\ k \notin Mods
  /\ modules'[k + 1].items = items /\ modules'[k + 1].name = n /\ modules'[k + 1].parent = p
  /\ modules'[k + 1].file = f /\ modules'[k + 1].is_file = is_file
  /\ \A m \in Mods : KeepsModule(modules'[m + 1], modules[m + 1])

LEMMA CreatedKeeps ==
  ASSUME IInv, IInv', program' = program,
         NEW k, NEW p, NEW n, NEW f, NEW is_file, NEW is_type, NEW items,
         Makes(k, p, n, f, is_file, is_type, items)
  PROVE  Grew(k, p, n) /\ (Good' => Good /\ Created(k, p, n, f, is_file, items))
<1>0. /\ k \in Nat /\ k = Count /\ p \in Nat /\ (p = NoModule \/ p < k) /\ n \in Names
      /\ f \in Nat /\ is_file \in BOOLEAN /\ is_type \in BOOLEAN /\ items \in Seq(Items)
      /\ \A i \in DOMAIN items : ~items[i].is_submodule
      /\ modules' = Append(link(modules, p, n, Count), create_module(n, p, f, is_file, is_type, items))
  BY DEF Makes
<1>1. /\ TypeOK /\ TypeOK' /\ Len(modules) = k /\ DOMAIN modules = 1..k
      /\ \A m \in Mods : m \in Nat /\ m + 1 \in DOMAIN modules /\ m < k /\ (m + 1) - 1 = m
  BY <1>0, ModsAre DEF IInv
<1>2. /\ DOMAIN modules' = 1..(k + 1) /\ Count' = k + 1
      /\ modules'[k + 1].items = items /\ modules'[k + 1].name = n /\ modules'[k + 1].parent = p
      /\ modules'[k + 1].file = f /\ modules'[k + 1].is_file = is_file
      /\ Linked(modules', modules, p, n, k)
  <2>1. p = NoModule \/ p < Len(modules)
    BY <1>0, <1>1
  <2> QED BY <1>0, <1>1, <2>1, CreatedItems
<1>3. \A m \in 1..k :
        /\ modules'[m].name = modules[m].name /\ modules'[m].parent = modules[m].parent
        /\ modules'[m].file = modules[m].file /\ modules'[m].is_file = modules[m].is_file
        /\ SameItems(modules'[m], modules[m])
        /\ \A i \in DOMAIN modules[m].items :
             modules'[m].items[i] = IF Finds(modules, p, n, m, i) THEN set_index(modules[m].items[i], k)
                                    ELSE modules[m].items[i]
  BY <1>1, <1>2 DEF Linked
<1>4. Mods' = Mods \cup {k} /\ k \notin Mods
  <2>1. Mods' = 0..((k + 1) - 1) /\ Mods = 0..(k - 1)
    BY <1>0, <1>2 DEF Mods
  <2> QED BY <1>0, <2>1
<1>5. Steady
  BY <1>0, <1>1, <1>2, <1>3 DEF Steady, Same
<1>6. ASSUME Good'
      PROVE  Good /\ \A m \in Mods : KeepsModule(modules'[m + 1], modules[m + 1])
  <2>1. Distinct' => Distinct
    BY <1>0, <1>1, <1>2, <1>3, CreatedNames
  <2>2. Good
    <3>1. Count <= NoModule
      BY <1>0, <1>2, <1>6 DEF Good, NoModule
    <3> QED BY <1>6, <2>1, <3>1 DEF Good
  <2>3. DeclsWhole'
    BY <1>6 DEF Good, IInv, Table
  <2>4. ASSUME NEW m \in Mods, NEW i \in DOMAIN modules[m + 1].items
        PROVE  KeepsItem(modules'[m + 1].items[i], modules[m + 1].items[i])
    <3> DEFINE item == modules[m + 1].items[i]
               new == modules'[m + 1].items[i]
    <3>1. item \in Items
      BY <1>1, ItemsTyped DEF TypeOK
    <3>2. new = set_index(item, k) \/ new = item
      BY <1>1, <1>3
    <3>3. ~new.is_submodule => new.decl # Clobbered
      <4>1. m + 1 \in DOMAIN modules' /\ i \in DOMAIN modules'[m + 1].items
        BY <1>1, <1>2, <1>3 DEF SameItems
      <4> QED BY <2>3, <4>1 DEF DeclsWhole
    <3> HIDE DEF item, new
    <3>4. new = item => KeepsItem(new, item)
      BY DEF KeepsItem
    <3>5. new = set_index(item, k) => KeepsItem(new, item)
      BY <1>0, <3>1, <3>3, SetIndexKeeps
    <3>6. KeepsItem(new, item)
      BY <3>2, <3>4, <3>5
    <3> QED BY <3>6 DEF new, item
  <2>5. ASSUME NEW m \in Mods
        PROVE  KeepsModule(modules'[m + 1], modules[m + 1])
    BY <1>1, <1>3, <2>4 DEF KeepsModule, SameItems
  <2> QED BY <2>2, <2>5
<1> QED BY <1>2, <1>4, <1>5, <1>6 DEF Created, Grew

\* The site of the module that is created.
LEMMA NewSite ==
  ASSUME TypeOK', Count' <= NoModule, NEW k, k \in Mods'
  PROVE  /\ modules'[k + 1].parent = NoModule => SiteOf(k)' = Root(program', modules'[k + 1].name)
         /\ modules'[k + 1].parent # NoModule =>
              SiteOf(k)' = Inside(program', SiteOf(modules[k + 1].parent)', modules'[k + 1].name)
BY SitesAreNext DEF ParentOf, get_module

LEMMA CreatedChildren ==
  ASSUME TypeOK, Count <= NoModule, ChildrenHeld,
         NEW k \in Nat, NEW p, NEW n, NEW f, NEW is_file, NEW items, Created(k, p, n, f, is_file, items),
         \A w \in DOMAIN worklist' : /\ w \in DOMAIN worklist /\ worklist'[w] = worklist[w]
                                     /\ ~(worklist[w].parent = p /\ worklist[w].node.name = n),
         p # NoModule => p \in Mods /\ HasItem(p, n),
         \A x \in Mods : ~IsChild(x, p, n)
  PROVE  ChildrenHeld'
<1>1. /\ \A m \in Mods : /\ modules'[m + 1].parent = modules[m + 1].parent
                          /\ modules'[m + 1].name = modules[m + 1].name
      /\ \A x \in Mods' : x \in Mods \/ x = k
      /\ modules'[k + 1].parent = p /\ modules'[k + 1].name = n
  BY DEF Created, Steady, Same
<1>2. \A m \in Mods : ParentOf(m) = NoModule \/ ParentOf(m) \in Mods
  BY Parents
<1>3. ASSUME NEW q \in Mods, NEW b, HasItem(q, b)
      PROVE  \E i \in DOMAIN modules'[q + 1].items :
               modules'[q + 1].items[i].is_submodule /\ modules'[q + 1].items[i].name = b
  BY <1>3 DEF Created, KeepsModule, KeepsItem, HasItem, get_module
<1>4. \A x \in Mods' : ParentOf(x)' # NoModule => HasItem(ParentOf(x), get_module(x).name)'
  <2> SUFFICES ASSUME NEW x \in Mods', ParentOf(x)' # NoModule,
                      NEW q, NEW b, q = modules'[x + 1].parent, b = modules'[x + 1].name
               PROVE  \E i \in DOMAIN modules'[q + 1].items :
                        modules'[q + 1].items[i].is_submodule /\ modules'[q + 1].items[i].name = b
    BY DEF HasItem, ParentOf, get_module
  <2>1. CASE x \in Mods
    <3>1. q = modules[x + 1].parent /\ b = modules[x + 1].name /\ q # NoModule
      BY <1>1, <2>1 DEF ParentOf, get_module
    <3>2. q \in Mods /\ HasItem(q, b)
      BY <1>2, <2>1, <3>1 DEF ChildrenHeld, ParentOf, get_module
    <3> QED BY <1>3, <3>2
  <2>2. CASE x = k
    <3>1. q = p /\ b = n /\ q # NoModule
      BY <1>1, <2>2 DEF ParentOf, get_module
    <3> QED BY <1>3, <3>1
  <2> QED BY <1>1, <2>1, <2>2
<1>5. \A x \in Mods' : \A w \in DOMAIN worklist' : ~IsChild(x, worklist[w].parent, worklist[w].node.name)'
  <2> SUFFICES ASSUME NEW x \in Mods', NEW w \in DOMAIN worklist'
               PROVE  ~(modules'[x + 1].parent = worklist'[w].parent
                          /\ modules'[x + 1].name = worklist'[w].node.name)
    BY DEF IsChild, get_module
  <2>1. CASE x \in Mods
    BY <1>1, <2>1 DEF ChildrenHeld, IsChild, get_module
  <2>2. CASE x = k
    BY <1>1, <2>2
  <2> QED BY <1>1, <2>1, <2>2
<1>6. \A x, y \in Mods' : IsChild(x, ParentOf(y), get_module(y).name)' => x = y
  <2> SUFFICES ASSUME NEW x \in Mods', NEW y \in Mods',
                      modules'[x + 1].parent = modules'[y + 1].parent,
                      modules'[x + 1].name = modules'[y + 1].name
               PROVE  x = y
    BY DEF IsChild, ParentOf, get_module
  <2>1. CASE x \in Mods /\ y \in Mods
    BY <1>1, <2>1 DEF ChildrenHeld, IsChild, ParentOf, get_module
  <2>2. CASE x \in Mods /\ y = k
    BY <1>1, <2>2 DEF IsChild, get_module
  <2>3. CASE x = k /\ y \in Mods
    BY <1>1, <2>3 DEF IsChild, get_module
  <2> QED BY <1>1, <2>1, <2>2, <2>3
<1> QED BY <1>4, <1>5, <1>6 DEF ChildrenHeld

\* The work that is left is not for the new module, which is known by its name.
Fits(k, p, n) ==
  /\ \A w \in DOMAIN worklist' : /\ w \in DOMAIN worklist /\ worklist'[w] = worklist[w]
                                 /\ ~(worklist[w].parent = p /\ worklist[w].node.name = n)
  /\ p # NoModule => p \in Mods /\ HasItem(p, n)
  /\ \A x \in Mods : ~IsChild(x, p, n)
  /\ Held(SiteOf(k)', modules'[k + 1], files', Unfolded(todo'), Promised(todo'))

LEMMA CreateSites ==
  ASSUME IInv, IInv', Good, Sites, Good', todo = <<>>, program' = program, at' = Count,
         NEW k, NEW p, NEW n, NEW f, NEW is_file, NEW items, k \in Nat, k = Count,
         Created(k, p, n, f, is_file, items), KeepsFiles(files', files), Fits(k, p, n)
  PROVE  Sites'
<1>0. /\ \A w \in DOMAIN worklist' : /\ w \in DOMAIN worklist /\ worklist'[w] = worklist[w]
                                     /\ ~(worklist[w].parent = p /\ worklist[w].node.name = n)
      /\ p # NoModule => p \in Mods /\ HasItem(p, n)
      /\ \A x \in Mods : ~IsChild(x, p, n)
      /\ Held(SiteOf(k)', modules'[k + 1], files', Unfolded(todo'), Promised(todo'))
  BY DEF Fits
<1>1. /\ TypeOK /\ TypeOK' /\ Count <= NoModule /\ Count' <= NoModule
      /\ \A x \in Mods' : x \in Mods \/ x = k
      /\ at' = k /\ k \notin Mods /\ Steady
      /\ \A m \in Mods : KeepsModule(modules'[m + 1], modules[m + 1])
  BY DEF IInv, Good, Created, NoModule
<1>2. \A m \in Mods : SiteOf(m)' = SiteOf(m)
  BY <1>1, SitesKept
<1>3. TreeHeld'
  <2>1. ASSUME NEW m \in Mods PROVE HeldIn(m)'
    <3>1. Pending(m)' = {} /\ PendingDecls(m)' = {}
      BY <1>1 DEF Pending, PendingDecls
    <3>2. Pending(m) = {} /\ PendingDecls(m) = {}
      BY NothingUnfolded DEF Pending, PendingDecls
    <3>3. HeldIn(m)
      BY DEF Sites, TreeHeld
    <3> QED BY <1>1, <1>2, <3>1, <3>2, <3>3, StillHeld
  <2>2. HeldIn(k)'
    <3>1. Pending(k)' = Unfolded(todo') /\ PendingDecls(k)' = Promised(todo')
      BY <1>1 DEF Pending, PendingDecls
    <3> QED BY <1>0, <3>1 DEF HeldIn, get_module
  <2>3. ASSUME NEW m \in Mods' PROVE HeldIn(m)'
    <3>1. CASE m \in Mods
      BY <2>1, <3>1
    <3>2. CASE m = k
      BY <2>2, <3>2
    <3> QED BY <1>1, <3>1, <3>2
  <2> QED BY <2>3 DEF TreeHeld
<1>4. AllWorkHeld'
  <2> SUFFICES ASSUME NEW w \in DOMAIN worklist', NEW entry, entry = worklist'[w]
               PROVE  WorkHeld(entry)'
    BY DEF AllWorkHeld, WorkHeld
  <2>1. w \in DOMAIN worklist /\ entry = worklist[w]
    BY <1>0
  <2>2. WorkHeld(entry)
    BY <2>1 DEF Sites, AllWorkHeld
  <2>3. entry.parent \in Mods
    <3>1. entry.parent + 1 \in DOMAIN modules /\ entry.parent \in Nat
      BY <1>1, <2>1, WorklistTyped
    <3>2. (entry.parent + 1) - 1 \in Mods
      BY <1>1, <3>1, ModsAre
    <3> QED BY <3>1, <3>2
  <2>4. SiteOf(entry.parent)' = SiteOf(entry.parent)
    BY <1>2, <2>3
  <2> QED BY <2>2, <2>4, WorkStays
<1>5. ChildrenHeld'
  BY <1>0, <1>1, CreatedChildren DEF Sites
<1> QED BY <1>3, <1>4, <1>5 DEF Sites

\* A file that was opened, and compiled just now.
LEMMA TopHeld ==
  ASSUME TypeOK, NEW path, NEW ast \in Nodes, ast.kind = "top", Compiled(path, ast),
         NEW module, module.items = <<>>, module.file = new_file, module.is_file
  PROVE  /\ Held(Site(ast, path), module, files', Unfolded(TopLevel(reduced_submodules(ast))),
                 Promised(TopLevel(reduced_submodules(ast))))
         /\ KeepsFiles(files', files)
<1> DEFINE site == Site(ast, path)
           entry == [path |-> path, ast |-> ast]
           pending == Unfolded(TopLevel(reduced_submodules(ast)))
           promised == Promised(TopLevel(reduced_submodules(ast)))
<1>1. SubsHeld(site, <<>>, pending) /\ DeclsHeld(site, <<>>, promised)
  BY HeldTop
<1>2. site.node = ast /\ site.file = path
  BY DEF Site
<1>3. entry.path = path /\ entry.ast = ast
  OBVIOUS
<1>4. files' = Append(files, entry) /\ files \in Seq([path : FilePaths, ast : Nodes])
  BY DEF Compiled, TypeOK
<1> HIDE DEF site, entry, pending, promised
<1>5. /\ DOMAIN files = 1..Len(files) /\ Len(files) \in Nat
      /\ Len(files) + 1 \in DOMAIN files' /\ files'[Len(files) + 1] = entry
      /\ \A i \in DOMAIN files : i \in DOMAIN files' /\ files'[i] = files[i]
  BY <1>4
<1>6. KeepsFiles(files', files)
  BY <1>5 DEF KeepsFiles
<1>7. FileHeld(site, module, files')
  BY <1>2, <1>3, <1>5 DEF FileHeld, new_file
<1>8. Held(site, module, files', pending, promised)
  BY <1>1, <1>7 DEF Held
<1> QED BY <1>6, <1>8 DEF site, pending, promised

\* Main and the standard library.
LEMMA RootSites ==
  ASSUME IInv, IInv', Good', Good => Sites, todo = <<>>, UNCHANGED <<program, worklist>>,
         NEW n \in Names, NEW path, NEW ast \in Nodes, ast.kind = "top", Compiled(path, ast),
         resolve_top_level(ast, new_file, n, NoModule), Root(program, n) = Site(ast, path),
         \A x \in Mods : ~IsChild(x, NoModule, n)
  PROVE  Sites'
<1>0. PICK k : k = Count
  OBVIOUS
<1> DEFINE todo2 == TopLevel(reduced_submodules(ast))
           yes == TRUE
           no == FALSE
           none == <<>>
           top == NoModule
<1>1. /\ TypeOK /\ TypeOK' /\ k \in Nat /\ top \in Nat /\ new_file \in Nat
      /\ none \in Seq(Items) /\ yes \in BOOLEAN /\ no \in BOOLEAN
      /\ \A i \in DOMAIN none : ~none[i].is_submodule
  BY <1>0, ModsAre, EmptySeq DEF IInv, NoModule, new_file, TypeOK
<1>2. /\ modules' = Append(link(modules, top, n, Count), create_module(n, top, new_file, yes, no, none))
      /\ at' = k /\ todo' = todo2
  BY <1>0 DEF resolve_top_level
<1>9. k = Count /\ at' = Count
  BY <1>0, <1>2
<1>10. top = NoModule /\ none = <<>> /\ yes
  OBVIOUS
<1> HIDE DEF yes, no, none, top
<1>4. Good /\ Created(k, top, n, new_file, yes, none)
  <2>1. Makes(k, top, n, new_file, yes, no, none)
    BY <1>1, <1>2, <1>9, <1>10 DEF Makes
  <2> QED BY <2>1, CreatedKeeps
<1>3. /\ Steady /\ Count' = k + 1 /\ Mods' = Mods \cup {k} /\ k \notin Mods
      /\ modules'[k + 1].items = none /\ modules'[k + 1].name = n /\ modules'[k + 1].parent = top
      /\ modules'[k + 1].file = new_file /\ modules'[k + 1].is_file = yes
  BY <1>4 DEF Created
<1>5. SiteOf(k)' = Site(ast, path)
  <2>1. Count' <= NoModule /\ program' = program
    BY DEF Good, NoModule
  <2>2. k \in Mods' /\ modules'[k + 1].parent = NoModule
    BY <1>3, <1>10
  <2> QED BY <1>1, <1>3, <2>1, <2>2, NewSite
<1>6. Held(Site(ast, path), modules'[k + 1], files', Unfolded(todo2), Promised(todo2)) /\ KeepsFiles(files', files)
  <2>1. modules'[k + 1].items = <<>> /\ modules'[k + 1].is_file /\ modules'[k + 1].file = new_file
    BY <1>3, <1>10
  <2> QED BY <1>1, <2>1, TopHeld
<1>7. \A w \in DOMAIN worklist' : /\ w \in DOMAIN worklist /\ worklist'[w] = worklist[w]
                                  /\ ~(worklist[w].parent = top /\ worklist[w].node.name = n)
  <2>1. \A w \in DOMAIN worklist : worklist[w].parent < Count /\ worklist[w].parent \in Nat
    BY <1>1, WorklistTyped DEF Count
  <2>2. Count <= NoModule /\ Count \in Nat
    BY <1>1, <1>4, ModsAre DEF Good
  <2>3. \A w \in DOMAIN worklist : worklist[w].parent # NoModule
    BY <1>1, <1>10, <2>1, <2>2
  <2> QED BY <1>10, <2>3
<1>8. Held(SiteOf(k)', modules'[k + 1], files', Unfolded(todo'), Promised(todo'))
  BY <1>2, <1>5, <1>6
<1>11. /\ \A x \in Mods : ~IsChild(x, top, n)
       /\ top # NoModule => top \in Mods /\ HasItem(top, n)
  BY <1>10
<1>12. Fits(k, top, n)
  BY <1>7, <1>8, <1>11 DEF Fits
<1> QED BY <1>1, <1>4, <1>6, <1>9, <1>12, CreateSites

\* What work is about is the one module of that name in its parent.
LEMMA WorkSite ==
  ASSUME Sites, todo = <<>>, NEW entry, entry.parent \in Mods, WorkHeld(entry)
  PROVE  /\ Inside(program, SiteOf(entry.parent), entry.node.name)
              = Opened(program, entry.node, SiteOf(entry.parent).file)
         /\ files[modules[entry.parent + 1].file + 1].path = SiteOf(entry.parent).file
<1> DEFINE site == SiteOf(entry.parent)
           name == entry.node.name
<1>1. SubsHeld(site, modules[entry.parent + 1].items, {}) /\ FileHeld(site, modules[entry.parent + 1], files)
  <2>1. HeldIn(entry.parent)
    BY DEF Sites, TreeHeld
  <2> QED BY <2>1, NothingUnfolded DEF HeldIn, Held, Pending, get_module
<1>2. PICK d \in ModulesOf(site.node) : d.node = entry.node
  BY DEF WorkHeld
<1> HIDE DEF site, name
<1>3. \A e \in ModulesOf(site.node) : e.node.name = d.node.name => e = d
  BY <1>1, <1>2 DEF SubsHeld
<1>4. NamedIn(site, name) = {d}
  BY <1>2, <1>3 DEF NamedIn, name
<1>5. (CHOOSE e \in NamedIn(site, name) : TRUE) = d
  BY <1>4
<1>6. Inside(program, site, name) = Opened(program, entry.node, site.file)
  BY <1>2, <1>5 DEF Inside
<1> QED BY <1>1, <1>6 DEF FileHeld, site, name

\* The module that work is for.
LEMMA WorkSites ==
  ASSUME IInv, IInv', Good, Sites, Good', program' = program, NEW kind, Working(kind), Pop, at' = Count,
         NEW k, k = Count, NEW f, NEW is_file, NEW is_type, NEW items,
         Makes(k, Popped.parent, Popped.node.name, f, is_file, is_type, items), KeepsFiles(files', files),
         Held(Opened(program, Popped.node, SiteOf(Popped.parent).file), modules'[k + 1], files',
              Unfolded(todo'), Promised(todo'))
  PROVE  Sites'
<1>0. PICK p, n, last : p = Popped.parent /\ n = Popped.node.name /\ last = Len(worklist)
  OBVIOUS
<1>1. /\ TypeOK /\ TypeOK' /\ todo = <<>> /\ Count <= NoModule /\ Count' <= NoModule
      /\ k \in Nat /\ Makes(k, p, n, f, is_file, is_type, items)
  BY <1>0 DEF IInv, Good, Working, NoModule, Makes
<1>2. /\ last \in DOMAIN worklist /\ worklist[last] = Popped /\ last \in Nat
      /\ DOMAIN worklist = 1..last /\ DOMAIN worklist' = 1..(last - 1)
      /\ \A w \in 1..(last - 1) : worklist'[w] = worklist[w]
  <2>1. /\ Len(worklist) \in DOMAIN worklist /\ DOMAIN worklist = 1..Len(worklist) /\ Len(worklist) \in Nat
        /\ worklist' \in Seq(WorkEntries) /\ Len(worklist') = Len(worklist) - 1
        /\ \A w \in 1..(Len(worklist) - 1) : worklist'[w] = worklist[w]
    BY <1>1, PoppedTyped DEF Pop
  <2>2. DOMAIN worklist' = 1..(Len(worklist) - 1)
    BY <2>1
  <2> QED BY <1>0, <2>1, <2>2 DEF Popped
<1>3. p \in Mods /\ p # NoModule
  <2>1. worklist[last].parent + 1 \in DOMAIN modules /\ p \in Nat
    BY <1>0, <1>1, <1>2, WorklistTyped
  <2>2. (p + 1) - 1 \in Mods
    BY <1>0, <1>1, <1>2, <2>1, ModsAre
  <2>3. p \in Mods
    BY <2>1, <2>2
  <2> QED BY <1>1, <2>3, Parents
<1>4. Created(k, p, n, f, is_file, items)
  BY <1>1, CreatedKeeps
<1>5. /\ \A x \in Mods : ~IsChild(x, p, n)
      /\ HasItem(p, n) /\ WorkHeld(Popped)
  <2>1. \A x \in Mods : ~IsChild(x, p, n)
    BY <1>0, <1>2 DEF Sites, ChildrenHeld
  <2>2. HasItem(p, n)
    <3>1. WorkHasItem
      BY DEF IInv, Good, Table
    <3> QED BY <1>0, <1>2, <3>1 DEF WorkHasItem, HasItem, get_module
  <2>3. WorkHeld(Popped)
    BY <1>2 DEF Sites, AllWorkHeld
  <2> QED BY <2>1, <2>2, <2>3
<1>6. \A w \in DOMAIN worklist' : /\ w \in DOMAIN worklist /\ worklist'[w] = worklist[w]
                                  /\ ~(worklist[w].parent = p /\ worklist[w].node.name = n)
  <2>1. WorkOnce
    BY DEF IInv, Good, Table
  <2>2. ASSUME NEW w \in DOMAIN worklist'
        PROVE  w \in DOMAIN worklist /\ w # last /\ worklist'[w] = worklist[w]
    BY <1>2
  <2> QED BY <1>0, <1>2, <2>1, <2>2 DEF WorkOnce
<1>7. Inside(program, SiteOf(p), n) = Opened(program, Popped.node, SiteOf(p).file)
  BY <1>0, <1>1, <1>3, <1>5, WorkSite
<1>8. SiteOf(k)' = Opened(program, Popped.node, SiteOf(Popped.parent).file)
  <2>1. k \in Mods' /\ modules'[k + 1].parent = p /\ modules'[k + 1].name = n
    BY <1>4 DEF Created
  <2>2. SiteOf(k)' = Inside(program', SiteOf(p)', n)
    <3>1. SiteOf(k)' = Inside(program', SiteOf(modules[k + 1].parent)', modules'[k + 1].name)
      BY <1>1, <1>3, <2>1, NewSite
    <3>2. SiteOf(modules[k + 1].parent)' = SiteOf(p)'
      BY <2>1 DEF SiteOf
    <3> QED BY <2>1, <3>1, <3>2
  <2>3. SiteOf(p)' = SiteOf(p)
    BY <1>1, <1>3, <1>4, SitesKept DEF Created
  <2> QED BY <1>0, <1>7, <2>2, <2>3
<1>9. Fits(k, p, n)
  BY <1>3, <1>5, <1>6, <1>8 DEF Fits
<1> QED BY <1>1, <1>4, <1>9, CreateSites

-----------------------------------------------------------------------------
(***************************************************************************)
(* The actions that create modules.                                        *)
(***************************************************************************)
LEMMA OpenedTop ==
  ASSUME NEW p \in Programs, NEW parent, NEW name, open_file_module(p, parent, name) # NoFile
  PROVE  /\ open_file_module(p, parent, name) \in FilePaths
         /\ p.files[open_file_module(p, parent, name)] \in Nodes
         /\ p.files[open_file_module(p, parent, name)].kind = "top"
<1>1. open_file_module(p, parent, name) \in DOMAIN p.files
  BY DEF open_file_module
<1> QED BY <1>1, ProgramsAssumption

LEMMA CompileMainSites ==
  ASSUME IInv, IInv', RootsHeld, CompileMain, phase' # "failed", Good', Good => Sites
  PROVE  Sites'
<1>1. phase = "start" /\ program \in Programs /\ todo = <<>> /\ Mods = {}
  <2>1. Count = 0 /\ phase = "start" /\ todo = <<>>
    BY DEF CompileMain, RootsHeld
  <2>2. 0..(0 - 1) = {}
    OBVIOUS
  <2>3. Mods = {}
    BY <2>1, <2>2 DEF Mods
  <2> QED BY <2>1, <2>3 DEF IInv, TypeOK
<1>2. PICK path : path = open_file_module(program, <<>>, program.main)
  OBVIOUS
<1>3. PICK ast : ast = program.files[path]
  OBVIOUS
<1>4. /\ path # NoFile /\ Compiled(path, ast) /\ resolve_top_level(ast, new_file, "main", NoModule)
      /\ UNCHANGED <<program, worklist>>
  BY <1>2, <1>3 DEF CompileMain, Fail
<1>5. ast \in Nodes /\ ast.kind = "top"
  BY <1>1, <1>2, <1>3, <1>4, OpenedTop
<1>6. Root(program, "main") = Site(ast, path)
  BY <1>2, <1>3 DEF Root, FileAt
<1>7. "main" \in Names
  BY NodesAssumption
<1>8. \A x \in Mods : ~IsChild(x, NoModule, "main")
  BY <1>1
<1> QED BY <1>1, <1>4, <1>5, <1>6, <1>7, <1>8, RootSites

LEMMA CompileStdSites ==
  ASSUME IInv, IInv', RootsHeld, CompileStd, Good', Good => Sites
  PROVE  Sites'
<1>1. phase = "main" /\ program \in Programs /\ todo = <<>> /\ Count = 1
  BY DEF CompileStd, RootsHeld, IInv, TypeOK
<1>2. PICK path : path = <<"std">>
  OBVIOUS
<1>3. PICK ast : ast = program.std
  OBVIOUS
<1>4. /\ Compiled(path, ast) /\ resolve_top_level(ast, new_file, "std", NoModule)
      /\ UNCHANGED <<program, worklist>>
  BY <1>2, <1>3 DEF CompileStd
<1>5. ast \in Nodes /\ ast.kind = "top"
  BY <1>1, <1>3, ProgramsAssumption
<1>6. Root(program, "std") = Site(ast, path)
  BY <1>2, <1>3 DEF Root
<1>7. "std" \in Names
  BY NodesAssumption
<1>8. ASSUME NEW x \in Mods, IsChild(x, NoModule, "std")
      PROVE  FALSE
  <2>1. x \in 0..(1 - 1)
    BY <1>1 DEF Mods
  <2>2. x = 0
    BY <2>1
  <2>3. get_module(x).name = "main"
    <3>1. Count <= NoModule
      BY <1>1 DEF NoModule
    <3> QED BY <1>8, <2>2, <3>1 DEF RootsHeld, IsChild, ParentOf
  <2> QED BY <1>8, <2>3 DEF IsChild
<1> QED BY <1>1, <1>4, <1>5, <1>6, <1>7, <1>8, RootSites

\* What is popped.
LEMMA PoppedHeld ==
  ASSUME IInv, Good, Sites, NEW kind, Working(kind)
  PROVE  /\ WorkHeld(Popped) /\ Popped.parent \in Mods /\ Popped.node \in Nodes /\ Popped.kind = kind
         /\ todo = <<>> /\ program \in Programs
         /\ modules[Popped.parent + 1].file \in Nat /\ modules[Popped.parent + 1].file + 1 \in DOMAIN files
         /\ Popped.parent \in Nat /\ Popped.parent < Count /\ Count \in Nat
<1>1. TypeOK
  BY DEF IInv
<1>2. /\ Popped \in WorkEntries /\ Popped.parent < Len(modules) /\ Len(worklist) \in DOMAIN worklist
  BY <1>1, PoppedTyped
<1>3. Popped.parent \in Nat /\ Popped.node \in Nodes
  BY <1>2 DEF WorkEntries
<1>4. Popped.parent \in Mods /\ Count \in Nat /\ Popped.parent < Count
  <2>1. Count \in Nat /\ Len(modules) = Count
    BY <1>1, ModsAre
  <2> QED BY <1>2, <1>3, <2>1 DEF Mods
<1>5. modules[Popped.parent + 1] \in ModuleRecords
  BY <1>1, <1>4, ModsAre, ItemsTyped DEF TypeOK
<1>6. modules[Popped.parent + 1].file \in Nat
  BY <1>5 DEF ModuleRecords
<1>7. HeldIn(Popped.parent)
  BY <1>4 DEF Sites, TreeHeld
<1>8. modules[Popped.parent + 1].file + 1 \in DOMAIN files
  BY <1>7 DEF HeldIn, Held, FileHeld, get_module
<1>9. WorkHeld(Popped)
  BY <1>2 DEF Sites, AllWorkHeld, Popped
<1> QED BY <1>1, <1>3, <1>4, <1>6, <1>8, <1>9 DEF Working, TypeOK

LEMMA ResolveNodeSites ==
  ASSUME IInv, IInv', ResolveNode, Good', Good => Sites
  PROVE  Sites'
<1>1. /\ Working("node") /\ Pop /\ resolve_node(Popped.node, Popped.parent)
      /\ program' = program /\ files' = files
  BY DEF ResolveNode
<1>2. PICK k : k = Count
  OBVIOUS
<1>3. PICK node, p, f : node = Popped.node /\ p = Popped.parent /\ f = modules[Popped.parent + 1].file
  OBVIOUS
<1> DEFINE no == FALSE
           items == DeclItems(node)
<1>4. /\ modules' = Append(link(modules, p, node.name, Count), create_module(node.name, p, f, no, node.is_type, items))
      /\ at' = Count /\ todo' = Inline(reduced_submodules(node))
  BY <1>1, <1>3 DEF resolve_node, get_module
<1>5. TypeOK /\ no \in BOOLEAN /\ ~no
  BY DEF IInv
<1> HIDE DEF no
<1>6. Makes(k, p, node.name, f, no, node.is_type, items)
  <2>1. node \in Nodes /\ p \in Nat /\ p < Len(modules)
    BY <1>1, <1>3, <1>5, PoppedTyped DEF WorkEntries
  <2>2. modules[p + 1] \in ModuleRecords /\ Len(modules) = Count /\ Count \in Nat
    BY <1>5, <2>1 DEF TypeOK, Count
  <2>3. f \in Nat
    BY <1>3, <2>2 DEF ModuleRecords
  <2>4. /\ items \in Seq(Items) /\ \A i \in DOMAIN items : ~items[i].is_submodule
        /\ node.is_type \in BOOLEAN /\ node.name \in Names
    BY <2>1, DeclItemsTyped, ReducedTyped
  <2> HIDE DEF items
  <2> QED BY <1>2, <1>4, <1>5, <2>1, <2>2, <2>3, <2>4 DEF Makes
<1>7. Good /\ Created(k, p, node.name, f, no, items)
  BY <1>1, <1>6, CreatedKeeps
<1>8. /\ WorkHeld(Popped) /\ p \in Mods /\ node \in Nodes /\ Popped.kind = "node"
      /\ todo = <<>> /\ f + 1 \in DOMAIN files
  BY <1>1, <1>3, <1>7, PoppedHeld
<1>9. PICK file : file = SiteOf(p).file
  OBVIOUS
<1>10. files[f + 1].path = file
  BY <1>3, <1>7, <1>8, <1>9, WorkSite
<1>11. node.kind # "top" /\ node.kind # "file"
  BY <1>3, <1>8 DEF WorkHeld
<1>12. Opened(program, node, file) = Site(node, file)
  BY <1>11 DEF Opened
<1>13. modules'[k + 1].items = items /\ modules'[k + 1].file = f /\ ~modules'[k + 1].is_file
  BY <1>5, <1>7 DEF Created
<1>14. /\ SubsHeld(Site(node, file), items, Unfolded(todo'))
       /\ DeclsHeld(Site(node, file), items, Promised(todo'))
  BY <1>4, <1>8, <1>11, HeldBody
<1>15. FileHeld(Site(node, file), modules'[k + 1], files')
  BY <1>1, <1>8, <1>10, <1>11, <1>13 DEF FileHeld, Site
<1> HIDE DEF items
<1>16. Held(Opened(program, Popped.node, SiteOf(Popped.parent).file), modules'[k + 1], files',
            Unfolded(todo'), Promised(todo'))
  BY <1>3, <1>9, <1>12, <1>13, <1>14, <1>15 DEF Held
<1>17. KeepsFiles(files', files)
  BY <1>1 DEF KeepsFiles
<1>18. Makes(k, Popped.parent, Popped.node.name, f, no, node.is_type, items)
  BY <1>3, <1>6
<1> QED BY <1>1, <1>2, <1>4, <1>7, <1>16, <1>17, <1>18, WorkSites

LEMMA ResolveFileSites ==
  ASSUME IInv, IInv', ResolveFile, phase' # "failed", Good', Good => Sites
  PROVE  Sites'
<1>1. PICK k : k = Count
  OBVIOUS
<1>2. PICK node, p, f : node = Popped.node /\ p = Popped.parent /\ f = modules[Popped.parent + 1].file
  OBVIOUS
<1>3. PICK path : path = open_file_module(program, files[f + 1].path, <<node.name>>)
  OBVIOUS
<1>4. PICK ast : ast = program.files[path]
  OBVIOUS
<1>5. /\ Working("file") /\ path # NoFile /\ Compiled(path, ast)
      /\ resolve_top_level(ast, new_file, node.name, p) /\ Pop /\ program' = program
  BY <1>2, <1>3, <1>4 DEF ResolveFile, Fail, get_module
<1> DEFINE yes == TRUE
           no == FALSE
           none == <<>>
<1>6. /\ modules' = Append(link(modules, p, node.name, Count), create_module(node.name, p, new_file, yes, no, none))
      /\ at' = Count /\ todo' = TopLevel(reduced_submodules(ast))
  BY <1>5 DEF resolve_top_level
<1>7. /\ TypeOK /\ yes \in BOOLEAN /\ no \in BOOLEAN /\ yes /\ none = <<>> /\ none \in Seq(Items)
      /\ \A i \in DOMAIN none : ~none[i].is_submodule
      /\ new_file \in Nat
  BY EmptySeq DEF IInv, TypeOK, new_file
<1> HIDE DEF yes, no, none
<1>8. Makes(k, p, node.name, new_file, yes, no, none)
  <2>1. node \in Nodes /\ p \in Nat /\ p < Len(modules)
    BY <1>2, <1>5, <1>7, PoppedTyped DEF WorkEntries
  <2>2. Len(modules) = Count /\ Count \in Nat
    BY <1>7, ModsAre
  <2>3. node.name \in Names
    BY <2>1, ReducedTyped
  <2> QED BY <1>1, <1>6, <1>7, <2>1, <2>2, <2>3 DEF Makes
<1>9. Good /\ Created(k, p, node.name, new_file, yes, none)
  BY <1>5, <1>8, CreatedKeeps
<1>10. /\ WorkHeld(Popped) /\ p \in Mods /\ Popped.kind = "file" /\ todo = <<>> /\ program \in Programs
  BY <1>2, <1>5, <1>9, PoppedHeld
<1>11. PICK file : file = SiteOf(p).file
  OBVIOUS
<1>12. files[f + 1].path = file
  BY <1>2, <1>9, <1>10, <1>11, WorkSite
<1>13. node.kind = "file"
  BY <1>2, <1>10 DEF WorkHeld
<1>14. Opened(program, node, file) = Site(ast, path)
  BY <1>3, <1>4, <1>12, <1>13 DEF Opened, FileAt
<1>15. ast \in Nodes /\ ast.kind = "top"
  BY <1>3, <1>4, <1>5, <1>10, OpenedTop
<1>16. modules'[k + 1].items = <<>> /\ modules'[k + 1].file = new_file /\ modules'[k + 1].is_file
  BY <1>7, <1>9 DEF Created
<1>17. /\ Held(Site(ast, path), modules'[k + 1], files', Unfolded(TopLevel(reduced_submodules(ast))),
               Promised(TopLevel(reduced_submodules(ast))))
       /\ KeepsFiles(files', files)
  BY <1>5, <1>7, <1>15, <1>16, TopHeld
<1>18. Held(Opened(program, Popped.node, SiteOf(Popped.parent).file), modules'[k + 1], files',
            Unfolded(todo'), Promised(todo'))
  BY <1>2, <1>6, <1>11, <1>14, <1>17
<1>19. Makes(k, Popped.parent, Popped.node.name, new_file, yes, no, none)
  BY <1>2, <1>8
<1> QED BY <1>1, <1>5, <1>6, <1>9, <1>17, <1>18, <1>19, WorkSites

LEMMA RootsKept ==
  ASSUME RootsHeld, UNCHANGED <<modules, libraries>>,
         phase' = "start" => phase = "start",
         phase' = "main" => phase = "main",
         phase' \in {"std", "work", "globals", "resolved"} => phase \in {"std", "work", "globals", "resolved"},
         phase' \in {"start", "globals", "resolved"} => todo' = <<>>
  PROVE  RootsHeld'
BY DEF RootsHeld, Mods, Count, ParentOf, get_module, NoModule

\* No root is added.
LEMMA RootsStay ==
  ASSUME TypeOK, RootsHeld, Steady, UNCHANGED <<phase, libraries>>, phase \in {"main", "std", "work"},
         phase = "main" => Count' = Count,
         Count' <= NoModule => \A x \in Mods' : x \in Mods \/ modules'[x + 1].parent # NoModule
  PROVE  RootsHeld'
<1>1. Count \in Nat /\ Count' \in Nat /\ Count <= Count' /\ \A m \in Mods : Same(m)
  BY ModsAre DEF Steady
<1>2. ASSUME Count' <= NoModule, NEW x \in Mods', modules'[x + 1].parent = NoModule
      PROVE  \/ x = 0 /\ modules'[x + 1].name = "main"
             \/ x = 1 /\ modules'[x + 1].name = "std"
  <2>1. x \in Mods /\ modules[x + 1].parent = NoModule /\ modules'[x + 1].name = modules[x + 1].name
    BY <1>1, <1>2 DEF Same
  <2>2. Count <= NoModule
    BY <1>1, <1>2 DEF NoModule
  <2> QED BY <2>1, <2>2 DEF RootsHeld, ParentOf, get_module
<1>3. ASSUME phase' \in {"std", "work", "globals", "resolved"}
      PROVE  Count' >= 2 /\ modules'[1 + 1].parent = NoModule /\ libraries' = <<[name |-> "std", module |-> 1]>>
  <2>1. Count >= 2 /\ modules[1 + 1].parent = NoModule /\ libraries' = <<[name |-> "std", module |-> 1]>>
    BY <1>3 DEF RootsHeld, ParentOf, get_module
  <2>2. 1 \in Mods
    BY <1>1, <2>1 DEF Mods
  <2>3. modules'[1 + 1].parent = modules[1 + 1].parent
    BY <1>1, <2>2 DEF Same
  <2> QED BY <1>1, <2>1, <2>3
<1>4. phase' = "main" => Count' = 1
  BY DEF RootsHeld
<1>5. phase' \notin {"start", "globals", "resolved"}
  OBVIOUS
<1> QED BY <1>2, <1>3, <1>4, <1>5 DEF RootsHeld, ParentOf, get_module, NoModule

LEMMA RootMade ==
  ASSUME IInv, IInv', program' = program, NEW n \in Names, NEW k, k = Count,
         \E ast : resolve_top_level(ast, new_file, n, NoModule)
  PROVE  Grew(k, NoModule, n)
<1> DEFINE yes == TRUE
           no == FALSE
           none == <<>>
<1>2. modules' = Append(link(modules, NoModule, n, Count), create_module(n, NoModule, new_file, yes, no, none))
  BY DEF resolve_top_level
<1>3. /\ TypeOK /\ yes \in BOOLEAN /\ no \in BOOLEAN /\ none \in Seq(Items)
      /\ \A i \in DOMAIN none : ~none[i].is_submodule
      /\ new_file \in Nat /\ NoModule \in Nat /\ k \in Nat
  BY EmptySeq, ModsAre DEF IInv, TypeOK, new_file, NoModule
<1> HIDE DEF yes, no, none
<1>4. Makes(k, NoModule, n, new_file, yes, no, none)
  BY <1>2, <1>3 DEF Makes
<1> QED BY <1>4, CreatedKeeps

LEMMA MainAdded ==
  ASSUME IInv, IInv', RootsHeld, CompileMain, phase' # "failed"
  PROVE  RootsHeld'
<1>1. PICK k : k = Count
  OBVIOUS
<1>2. k = 0 /\ phase' = "main" /\ program' = program
      /\ \E ast : resolve_top_level(ast, new_file, "main", NoModule)
  BY <1>1 DEF RootsHeld, CompileMain, Fail
<1>3. Grew(k, NoModule, "main")
  <2>1. "main" \in Names
    BY NodesAssumption
  <2> QED BY <1>1, <1>2, <2>1, RootMade
<1>4. Count' = 1 /\ \A x \in Mods' : x = 0
  <2>1. Mods' = Mods \cup {0} /\ Count' = 0 + 1
    BY <1>2, <1>3 DEF Grew
  <2>2. Mods = {}
    <3>1. 0..(0 - 1) = {}
      OBVIOUS
    <3> QED BY <1>1, <1>2, <3>1 DEF Mods
  <2> QED BY <2>1, <2>2
<1>5. modules'[0 + 1].name = "main"
  BY <1>2, <1>3 DEF Grew
<1> QED BY <1>2, <1>4, <1>5 DEF RootsHeld, get_module

LEMMA StdAdded ==
  ASSUME IInv, IInv', RootsHeld, CompileStd
  PROVE  RootsHeld'
<1>1. PICK k : k = Count
  OBVIOUS
<1>2. /\ k = 1 /\ phase' = "std" /\ program' = program
      /\ resolve_top_level(program.std, new_file, "std", NoModule)
      /\ libraries' = <<[name |-> "std", module |-> 1]>>
  BY <1>1 DEF RootsHeld, CompileStd
<1>3. Grew(k, NoModule, "std")
  <2>1. "std" \in Names
    BY NodesAssumption
  <2> QED BY <1>1, <1>2, <2>1, RootMade
<1>4. /\ Count' = 2 /\ modules'[1 + 1].name = "std" /\ modules'[1 + 1].parent = NoModule
      /\ \A x \in Mods' : x = 1 \/ (x = 0 /\ x \in Mods)
  <2>1. /\ Mods' = Mods \cup {1} /\ Count' = 1 + 1
        /\ modules'[1 + 1].name = "std" /\ modules'[1 + 1].parent = NoModule
    BY <1>2, <1>3 DEF Grew
  <2>2. \A x \in Mods : x = 0
    BY <1>1, <1>2 DEF Mods
  <2> QED BY <2>1, <2>2
<1>5. ASSUME 0 \in Mods, modules'[0 + 1].parent = NoModule
      PROVE  modules'[0 + 1].name = "main"
  <2>1. modules'[0 + 1].parent = modules[0 + 1].parent /\ modules'[0 + 1].name = modules[0 + 1].name
    BY <1>3, <1>5 DEF Grew, Steady, Same
  <2>2. Count <= NoModule
    BY <1>1, <1>2 DEF NoModule
  <2>3. 0 # 1
    OBVIOUS
  <2> QED BY <1>5, <2>1, <2>2, <2>3 DEF RootsHeld, ParentOf, get_module
<1>6. \A x \in Mods' : modules'[x + 1].parent = NoModule =>
         \/ x = 0 /\ modules'[x + 1].name = "main"
         \/ x = 1 /\ modules'[x + 1].name = "std"
  BY <1>4, <1>5
<1>7. /\ phase' = "std" /\ Count' >= 2 /\ modules'[1 + 1].parent = NoModule
      /\ libraries' = <<[name |-> "std", module |-> 1]>>
  BY <1>2, <1>4
<1> QED BY <1>6, <1>7 DEF RootsHeld, ParentOf, get_module

LEMMA WorkAddsNoRoot ==
  ASSUME IInv, IInv', RootsHeld, ResolveNode \/ ResolveFile, phase' # "failed"
  PROVE  RootsHeld'
<1>1. PICK k, p, n : k = Count /\ p = Popped.parent /\ n = Popped.node.name
  OBVIOUS
<1>2. \E kind : Working(kind)
  BY DEF ResolveNode, ResolveFile
<1>3. /\ Popped.node \in Nodes /\ p \in Nat /\ p < Len(modules)
      /\ modules[p + 1] \in ModuleRecords /\ Len(modules) = Count /\ Count \in Nat /\ n \in Names
      /\ phase = "work"
  <2>1. Popped.node \in Nodes /\ p \in Nat /\ p < Len(modules)
    BY <1>1, <1>2, PoppedTyped DEF WorkEntries, IInv
  <2>2. modules[p + 1] \in ModuleRecords /\ Len(modules) = Count /\ Count \in Nat
    BY <2>1 DEF TypeOK, Count, IInv
  <2>3. n \in Names
    BY <1>1, <2>1, ReducedTyped
  <2> QED BY <1>2, <2>1, <2>2, <2>3 DEF Working
<1>4. Grew(k, p, n) /\ UNCHANGED <<phase, libraries>>
  <2>1. CASE ResolveNode
    <3> DEFINE no == FALSE
               items == DeclItems(Popped.node)
               f == modules[p + 1].file
               is_type == Popped.node.is_type
    <3>1. /\ modules' = Append(link(modules, p, n, Count), create_module(n, p, f, no, is_type, items))
          /\ program' = program /\ UNCHANGED <<phase, libraries>>
      BY <1>1, <2>1 DEF ResolveNode, resolve_node, get_module
    <3>2. /\ f \in Nat /\ no \in BOOLEAN /\ is_type \in BOOLEAN
          /\ items \in Seq(Items) /\ \A i \in DOMAIN items : ~items[i].is_submodule
      BY <1>3, DeclItemsTyped, ReducedTyped DEF ModuleRecords
    <3> HIDE DEF no, items, f, is_type
    <3>3. Makes(k, p, n, f, no, is_type, items)
      BY <1>1, <1>3, <3>1, <3>2 DEF Makes
    <3> QED BY <3>1, <3>3, CreatedKeeps
  <2>2. CASE ResolveFile
    <3> DEFINE yes == TRUE
               no == FALSE
               none == <<>>
    <3>1. /\ modules' = Append(link(modules, p, n, Count), create_module(n, p, new_file, yes, no, none))
          /\ program' = program /\ UNCHANGED <<phase, libraries>>
      BY <1>1, <2>2 DEF ResolveFile, resolve_top_level, Fail
    <3>2. /\ yes \in BOOLEAN /\ no \in BOOLEAN /\ none \in Seq(Items)
          /\ \A i \in DOMAIN none : ~none[i].is_submodule
          /\ new_file \in Nat
      BY EmptySeq DEF IInv, TypeOK, new_file
    <3> HIDE DEF yes, no, none
    <3>3. Makes(k, p, n, new_file, yes, no, none)
      BY <1>1, <1>3, <3>1, <3>2 DEF Makes
    <3> QED BY <3>1, <3>3, CreatedKeeps
  <2> QED BY <2>1, <2>2
<1>5. Count' <= NoModule => \A x \in Mods' : x \in Mods \/ modules'[x + 1].parent # NoModule
  <2>1. Count' = k + 1 /\ Mods' = Mods \cup {k} /\ modules'[k + 1].parent = p
    BY <1>4 DEF Grew
  <2>2. Count' <= NoModule => p # NoModule
    BY <1>1, <1>3, <2>1 DEF NoModule
  <2> QED BY <2>1, <2>2
<1> QED BY <1>3, <1>4, <1>5, RootsStay DEF Grew, IInv

LEMMA WalkRoots ==
  ASSUME IInv, IInv', RootsHeld, SelfModule \/ Submodule
  PROVE  RootsHeld'
<1>1. TypeOK /\ TypeOK' /\ Walking /\ Keep
  BY DEF IInv, SelfModule, Submodule
<1>2. Steady /\ Mods' = Mods /\ Count' = Count
  <2>1. CASE SelfModule
    <3> DEFINE new == DeclItems(Met)
    <3>1. Declare(new) /\ new \in Seq(Items)
      BY <1>1, <2>1, MetTyped, DeclItemsTyped DEF SelfModule
    <3> HIDE DEF new
    <3> QED BY <1>1, <3>1, WalkKeeps
  <2>2. CASE Submodule
    <3> DEFINE new == <<SubmoduleItem(Met, IsPublic(Head(todo)))>>
    <3>1. Declare(new) /\ new \in Seq(Items)
      <4>1. SubmoduleItem(Met, IsPublic(Head(todo))) \in Items
        BY <1>1, MetTyped, SubmoduleItemTyped DEF IsPublic
      <4> QED BY <2>2, <4>1 DEF Submodule
    <3> HIDE DEF new
    <3> QED BY <1>1, <3>1, WalkKeeps
  <2> QED BY <2>1, <2>2
<1>3. phase \in {"main", "std", "work"} /\ UNCHANGED <<phase, libraries>>
  BY <1>1 DEF Walking, Keep
<1> QED BY <1>1, <1>2, <1>3, RootsStay

\* What changes nothing that the invariant is about.
Untouched == UNCHANGED <<program, files, table, libraries>>
LEMMA UntouchedStays ==
  ASSUME RootsHeld, Good => Sites, Untouched,
         phase' = "start" => phase = "start",
         phase' = "main" => phase = "main",
         phase' \in {"std", "work", "globals", "resolved"} => phase \in {"std", "work", "globals", "resolved"},
         phase' \in {"globals", "resolved"} => phase \in {"globals", "resolved"} \/ todo = <<>>
  PROVE  RootsHeld' /\ (Good' => Sites')
<1>1. UNCHANGED <<modules, libraries>> /\ program' = program /\ files' = files
      /\ at' = at /\ todo' = todo /\ worklist' = worklist
  BY DEF Untouched, table
<1>2. phase' \in {"start", "globals", "resolved"} => todo' = <<>>
  BY <1>1 DEF RootsHeld
<1>3. RootsHeld'
  BY <1>1, <1>2, RootsKept
<1>4. Good' => Good
  BY <1>1 DEF Good, Distinct, Count, NoModule
<1>5. Sites => Sites'
  BY <1>1 DEF Sites, TreeHeld, AllWorkHeld, ChildrenHeld, HeldIn, SiteOf, Pending, PendingDecls,
              WorkHeld, IsChild, HasItem, Mods, Count, ParentOf, get_module
<1> QED BY <1>3, <1>4, <1>5

LEMMA FailStays ==
  ASSUME RootsHeld, Good => Sites, NEW text, Fail(text)
  PROVE  RootsHeld' /\ (Good' => Sites')
<1>1. phase' = "failed" /\ Untouched
  BY DEF Fail, Untouched, table
<1> QED BY <1>1, UntouchedStays

LEMMA SInvInit == Init => SInv
<1> SUFFICES ASSUME Init PROVE SInv
  OBVIOUS
<1>1. Count = 0 /\ phase = "start" /\ todo = <<>> /\ worklist = <<>>
  BY DEF Init, Count
<1>2. Mods = {}
  <2>1. 0..(0 - 1) = {}
    OBVIOUS
  <2> QED BY <1>1, <2>1 DEF Mods
<1>3. DOMAIN worklist = {}
  <2>1. DOMAIN << >> = {}
    OBVIOUS
  <2> QED BY <1>1, <2>1
<1>4. RootsHeld
  BY <1>1, <1>2 DEF RootsHeld
<1>5. Sites
  BY <1>2, <1>3 DEF Sites, TreeHeld, AllWorkHeld, ChildrenHeld
<1> QED BY <1>4, <1>5, PInvInit DEF SInv

LEMMA SitesStep ==
  ASSUME IInv, IInv', RootsHeld, Good => Sites, [Next]_vars
  PROVE  RootsHeld' /\ (Good' => Sites')
<1>1. TypeOK /\ TypeOK'
  BY DEF IInv
<1>2. CASE SelfModule
  BY <1>1, <1>2, WalkRoots, SelfModuleSites
<1>3. CASE Submodule
  BY <1>1, <1>3, WalkRoots, SubmoduleSites
<1>4. ASSUME NEW text, Fail(text) PROVE RootsHeld' /\ (Good' => Sites')
  BY <1>1, <1>4, FailStays
<1>5. CASE RefuseSelf \/ RefuseFile \/ RefuseRedeclared
  BY <1>4, <1>5 DEF RefuseSelf, RefuseFile, RefuseRedeclared, Refused
<1>6. CASE CompileMain
  <2>1. CASE Fail("no file")
    BY <1>4, <2>1
  <2>2. CASE ~Fail("no file")
    <3>1. phase' # "failed"
      BY <1>6, <2>2 DEF CompileMain
    <3> QED BY <1>1, <1>6, <3>1, MainAdded, CompileMainSites
  <2> QED BY <2>1, <2>2
<1>7. CASE CompileStd
  BY <1>1, <1>7, StdAdded, CompileStdSites
<1>8. CASE StartWork
  <2>1. Untouched /\ phase = "std" /\ phase' = "work"
    BY <1>8 DEF StartWork, Untouched
  <2> QED BY <1>1, <2>1, UntouchedStays
<1>9. CASE ResolveNode
  <2>1. phase' # "failed"
    BY <1>9 DEF ResolveNode, Working
  <2> QED BY <1>1, <1>9, <2>1, WorkAddsNoRoot, ResolveNodeSites
<1>10. CASE ResolveFile
  <2>1. CASE Fail("no file")
    BY <1>4, <2>1
  <2>2. CASE ~Fail("no file")
    <3>1. phase' # "failed"
      BY <1>10, <2>2 DEF ResolveFile, Working
    <3> QED BY <1>1, <1>10, <3>1, WorkAddsNoRoot, ResolveFileSites
  <2> QED BY <2>1, <2>2
<1>11. CASE FileUnusable
  BY <1>4, <1>11 DEF FileUnusable
<1>12. CASE TableComplete
  <2>1. Untouched /\ phase = "work" /\ phase' = "globals" /\ todo = <<>>
    BY <1>12 DEF TableComplete, Untouched
  <2> QED BY <1>1, <2>1, UntouchedStays
<1>13. CASE ListGlobals
  <2>1. Untouched /\ phase = "globals" /\ phase' \in {"globals", "fault"}
    BY <1>13 DEF ListGlobals, Untouched
  <2> QED BY <1>1, <2>1, UntouchedStays
<1>14. CASE GlobalsListed
  <2>1. Untouched /\ phase = "globals" /\ phase' = "resolved"
    BY <1>14 DEF GlobalsListed, Untouched
  <2> QED BY <1>1, <2>1, UntouchedStays
<1>15. CASE UNCHANGED vars
  <2>1. Untouched /\ phase' = phase
    BY <1>15 DEF vars, Untouched, table
  <2> QED BY <1>1, <2>1, UntouchedStays
<1> QED BY <1>2, <1>3, <1>5, <1>6, <1>7, <1>8, <1>9, <1>10, <1>11, <1>12, <1>13, <1>14, <1>15
        DEF Next, Walk, Resolve

LEMMA SInvStep == SInv /\ [Next]_vars => SInv'
BY PInvStep, SitesStep DEF SInv, PInv

-----------------------------------------------------------------------------
(***************************************************************************)
(* The lists of globals: when no global was refused, the list of a module  *)
(* is that of all its declarations, and no two have the same name.         *)
(***************************************************************************)
AnyDecl == Decls \cup {NoDecl, Clobbered}
GlobalRecords == { Global(d, public) : d \in AnyDecl, public \in BOOLEAN }
ListOf(module) == PrivateGlobals(module) \o PublicGlobals(module)
NamesDiffer(list) == \A i, j \in DOMAIN list : list[i].name = list[j].name => i = j

LEMMA GlobalsOfDecls ==
  ASSUME NEW decls \in Seq(AnyDecl), NEW public \in BOOLEAN
  PROVE  /\ [i \in DOMAIN decls |-> Global(decls[i], public)] \in Seq(GlobalRecords)
         /\ Range([i \in DOMAIN decls |-> Global(decls[i], public)]) = { Global(d, public) : d \in Range(decls) }
<1> DEFINE n == Len(decls)
           list == [i \in DOMAIN decls |-> Global(decls[i], public)]
<1>1. n \in Nat /\ DOMAIN decls = 1..n /\ \A i \in 1..n : decls[i] \in AnyDecl
  BY LenProperties, ElementOfSeq
<1>2. \A i \in 1..n : Global(decls[i], public) \in GlobalRecords
  BY <1>1 DEF GlobalRecords
<1>3. list = [i \in 1..n |-> Global(decls[i], public)]
  BY <1>1
<1>4. list \in Seq(GlobalRecords)
  <2> HIDE DEF n, list
  <2> QED BY <1>1, <1>2, <1>3, IsASeq
<1>5. DOMAIN list = DOMAIN decls /\ \A i \in DOMAIN decls : list[i] = Global(decls[i], public)
  OBVIOUS
<1> HIDE DEF list
<1>6. \A x : x \in Range(list) <=> x \in { Global(d, public) : d \in Range(decls) }
  <2>1. ASSUME NEW x \in Range(list)
        PROVE  x \in { Global(d, public) : d \in Range(decls) }
    <3>1. PICK i \in DOMAIN list : x = list[i]
      BY <2>1 DEF Range
    <3>2. decls[i] \in Range(decls) /\ x = Global(decls[i], public)
      BY <1>5, <3>1 DEF Range
    <3> QED BY <3>2
  <2>2. ASSUME NEW x \in { Global(d, public) : d \in Range(decls) }
        PROVE  x \in Range(list)
    <3>1. PICK d \in Range(decls) : x = Global(d, public)
      BY <2>2
    <3>2. PICK i \in DOMAIN decls : d = decls[i]
      BY <3>1 DEF Range
    <3>3. x = list[i] /\ i \in DOMAIN list
      BY <1>5, <3>1, <3>2
    <3> QED BY <3>3 DEF Range
  <2> QED BY <2>1, <2>2
<1>7. Range(list) = { Global(d, public) : d \in Range(decls) }
  BY <1>6
<1> QED BY <1>4, <1>7 DEF list

LEMMA PrivateListed ==
  ASSUME TypeOK, NEW m \in DOMAIN modules
  PROVE  /\ PrivateGlobals(modules[m]) \in Seq(GlobalRecords)
         /\ Range(PrivateGlobals(modules[m])) =
              IF ~modules[m].is_file THEN {}
              ELSE { Global(d, FALSE) : d \in Range(reduced_declarations(files[modules[m].file + 1].ast)) }
<1>1. CASE ~modules[m].is_file
  <2>1. PrivateGlobals(modules[m]) = <<>>
    BY <1>1 DEF PrivateGlobals
  <2>2. <<>> \in Seq(GlobalRecords) /\ Range(<<>>) = {}
    BY EmptySeq DEF Range
  <2> QED BY <1>1, <2>1, <2>2
<1>2. CASE modules[m].is_file
  <2> DEFINE ast == files[modules[m].file + 1].ast
             decls == reduced_declarations(ast)
             no == FALSE
  <2>1. modules[m] \in ModuleRecords /\ files \in Seq([path : FilePaths, ast : Nodes]) /\ modules[m].file < Len(files)
    BY ItemsTyped DEF TypeOK
  <2>2. modules[m].file + 1 \in DOMAIN files
    <3>1. modules[m].file \in Nat
      BY <2>1 DEF ModuleRecords
    <3> QED BY <2>1, <3>1, LenProperties
  <2>3. ast \in Nodes
    <3>1. files[modules[m].file + 1] \in [path : FilePaths, ast : Nodes]
      BY <2>1, <2>2, LenProperties, ElementOfSeq
    <3> QED BY <3>1
  <2>4. decls \in Seq(AnyDecl)
    BY <2>3, ReducedTyped, SeqMonotonic DEF AnyDecl
  <2>5. no \in BOOLEAN
    OBVIOUS
  <2>6. PrivateGlobals(modules[m]) = [i \in DOMAIN decls |-> Global(decls[i], no)]
    BY <1>2 DEF PrivateGlobals
  <2> HIDE DEF decls, no
  <2>7. /\ PrivateGlobals(modules[m]) \in Seq(GlobalRecords)
        /\ Range(PrivateGlobals(modules[m])) = { Global(d, no) : d \in Range(decls) }
    BY <2>4, <2>5, <2>6, GlobalsOfDecls
  <2> QED BY <1>2, <2>7 DEF decls, no
<1> QED BY <1>1, <1>2

LEMMA PublicListed ==
  ASSUME TypeOK, NEW m \in DOMAIN modules
  PROVE  /\ PublicGlobals(modules[m]) \in Seq(GlobalRecords)
         /\ Range(PublicGlobals(modules[m])) =
              { Global(modules[m].items[i].decl, TRUE) :
                  i \in { i \in DOMAIN modules[m].items : ~modules[m].items[i].is_submodule } }
<1> DEFINE all == modules[m].items
           I == { i \in DOMAIN all : ~all[i].is_submodule }
           items == At(all, I)
           decls == [i \in DOMAIN items |-> items[i].decl]
           yes == TRUE
<1>1. all \in Seq(Items) /\ I \subseteq DOMAIN all
  BY ItemsTyped DEF TypeOK
<1>2. items \in Seq(Items) /\ Range(items) = { all[i] : i \in I }
  <2> HIDE DEF all, I
  <2> QED BY <1>1, Selected
<1>3. PublicGlobals(modules[m]) = [i \in DOMAIN items |-> Global(items[i].decl, yes)]
  BY DEF PublicGlobals, IsDeclaration
<1> HIDE DEF items
<1>4. /\ DOMAIN items = 1..Len(items) /\ Len(items) \in Nat
      /\ \A i \in DOMAIN items : items[i] \in Items
  BY <1>2, LenProperties, ElementOfSeq
<1>5. decls \in Seq(AnyDecl) /\ DOMAIN decls = DOMAIN items /\ \A i \in DOMAIN items : decls[i] = items[i].decl
  <2>1. \A i \in 1..Len(items) : items[i].decl \in AnyDecl
    BY <1>4 DEF Items, AnyDecl
  <2>2. decls = [i \in 1..Len(items) |-> items[i].decl]
    BY <1>4
  <2>3. decls \in Seq(AnyDecl)
    <3> HIDE DEF decls
    <3> QED BY <1>4, <2>1, <2>2, IsASeq
  <2> QED BY <2>3
<1> HIDE DEF decls
<1>6. PublicGlobals(modules[m]) = [i \in DOMAIN decls |-> Global(decls[i], yes)]
  BY <1>3, <1>5
<1>7. yes \in BOOLEAN
  OBVIOUS
<1> HIDE DEF yes
<1>8. /\ PublicGlobals(modules[m]) \in Seq(GlobalRecords)
      /\ Range(PublicGlobals(modules[m])) = { Global(d, yes) : d \in Range(decls) }
  BY <1>5, <1>6, <1>7, GlobalsOfDecls
<1>9. \A x : x \in { Global(d, yes) : d \in Range(decls) } <=> x \in { Global(all[i].decl, yes) : i \in I }
  <2> HIDE DEF all, I
  <2>1. ASSUME NEW d \in Range(decls)
        PROVE  \E i \in I : d = all[i].decl
    <3>1. PICK k \in DOMAIN items : d = items[k].decl
      BY <1>5, <2>1 DEF Range
    <3>2. items[k] \in Range(items)
      BY <3>1 DEF Range
    <3> QED BY <1>2, <3>1, <3>2
  <2>2. ASSUME NEW i \in I
        PROVE  all[i].decl \in Range(decls)
    <3>1. all[i] \in Range(items)
      BY <1>2
    <3>2. PICK k \in DOMAIN items : all[i] = items[k]
      BY <3>1 DEF Range
    <3> QED BY <1>5, <3>2 DEF Range
  <2> QED BY <2>1, <2>2
<1>10. { Global(d, yes) : d \in Range(decls) } = { Global(all[i].decl, yes) : i \in I }
  BY <1>9
<1> QED BY <1>8, <1>10 DEF yes

GlobalsFit ==
  /\ phase \in {"start", "main", "std", "work"} => globals = <<>> /\ errors = <<>>
  /\ phase \in {"globals", "resolved"} => Len(globals) <= Count
  /\ phase = "resolved" => Len(globals) = Count
GlobalsWhole ==
  phase \in {"globals", "resolved"} /\ errors = <<>> =>
    \A m \in DOMAIN globals : globals[m] = ListOf(modules[m]) /\ NamesDiffer(ListOf(modules[m]))
GInv == (\E S : errors \in Seq(S)) /\ GlobalsFit /\ GlobalsWhole

LEMMA NothingLeft ==
  ASSUME NEW S, NEW list \in Seq(S), NEW I \in SUBSET DOMAIN list, At(list, DOMAIN list \ I) = <<>>
  PROVE  I = DOMAIN list
<1> DEFINE J == DOMAIN list \ I
<1>1. Range(At(list, J)) = { list[i] : i \in J }
  <2>1. J \subseteq DOMAIN list
    OBVIOUS
  <2> HIDE DEF J
  <2> QED BY <2>1, Selected
<1>2. Range(<<>>) = {}
  BY DEF Range
<1>3. J = {}
  <2> HIDE DEF J
  <2>1. { list[i] : i \in J } = {}
    BY <1>1, <1>2 DEF J
  <2> QED BY <2>1
<1> QED BY <1>3

\* The step that lists the globals of a module, unless it meets what was overwritten.
LEMMA ListStep ==
  ASSUME TypeOK, ListGlobals, phase' = "globals", \E S : globals \in Seq(S), GInv
  PROVE  GInv'
<1>0. PICK m : m = Len(globals) + 1
  OBVIOUS
<1> DEFINE list == ListOf(modules[m])
           listed == { i \in DOMAIN list : Listed(list, i, modules[m]) }
           record(i) == [module |-> Len(globals), name |-> list[i].name,
                         misplaced |-> Misplaced(list[i], modules[m])]
           records == [i \in DOMAIN list |-> record(i)]
<1>1. PICK S : globals \in Seq(S)
  OBVIOUS
<1>2. /\ phase = "globals" /\ Len(globals) < Count
      /\ globals' = Append(globals, At(list, listed))
      /\ errors' = errors \o At(records, DOMAIN list \ listed)
      /\ modules' = modules /\ files' = files
  BY <1>0 DEF ListGlobals, table, ListOf, get_module
<1>3. m \in DOMAIN modules /\ Len(globals) \in Nat /\ DOMAIN globals = 1..Len(globals) /\ Count \in Nat
  <2>1. Len(globals) \in Nat /\ DOMAIN globals = 1..Len(globals) /\ Count \in Nat /\ DOMAIN modules = 1..Count
    BY <1>1, ModsAre
  <2> DEFINE g == Len(globals)
             c == Count
  <2>2. g \in Nat /\ c \in Nat /\ g < c
    BY <1>2, <2>1
  <2> HIDE DEF g, c
  <2>3. g + 1 \in 1..c
    BY <2>2
  <2> QED BY <1>0, <2>1, <2>3 DEF g, c
<1>4. list \in Seq(GlobalRecords)
  BY <1>3, PrivateListed, PublicListed, ConcatProperties DEF ListOf
<1>5. \A i : ListOf(modules[i])' = ListOf(modules[i])
  BY <1>2 DEF ListOf, PrivateGlobals, PublicGlobals
<1>6. ListOf(modules[m])' = list
  BY <1>2, <1>5 DEF list
<1> HIDE DEF list, listed
<1>7. listed \in SUBSET DOMAIN list
  BY DEF listed
<1>8. \E R : records \in Seq(R)
  <2> DEFINE n == Len(list)
             R == { record(i) : i \in 1..n }
  <2>1. n \in Nat /\ DOMAIN list = 1..n
    BY <1>4, LenProperties
  <2>2. records = [i \in 1..n |-> record(i)] /\ \A i \in 1..n : record(i) \in R
    BY <2>1
  <2> HIDE DEF n, record, R
  <2>3. [i \in 1..n |-> record(i)] \in Seq(R)
    BY <2>1, <2>2, IsASeq
  <2> QED BY <2>2, <2>3
<1>9. DOMAIN records = DOMAIN list
  OBVIOUS
<1> HIDE DEF records, record
<1>10. PICK R : records \in Seq(R)
  BY <1>8
<1>11. PICK E : errors \in Seq(E)
  BY DEF GInv
<1>12. At(records, DOMAIN list \ listed) \in Seq(R)
  <2>1. DOMAIN list \ listed \subseteq DOMAIN records
    BY <1>9
  <2> QED BY <1>10, <2>1, Selected
<1>13. errors' \in Seq(E \cup R)
  <2>1. errors \in Seq(E \cup R) /\ At(records, DOMAIN list \ listed) \in Seq(E \cup R)
    BY <1>11, <1>12, SeqMonotonic
  <2> QED BY <1>2, <2>1, ConcatProperties
<1>14. /\ Len(globals') = Len(globals) + 1 /\ DOMAIN globals' = 1..m
       /\ \A i \in 1..Len(globals) : globals'[i] = globals[i]
       /\ globals'[m] = At(list, listed)
  <2> DEFINE x == At(list, listed)
  <2>1. globals \in Seq(S \cup {x}) /\ x \in S \cup {x}
    BY <1>1, SeqMonotonic
  <2>2. globals' = Append(globals, x)
    BY <1>2
  <2> HIDE DEF x
  <2> QED BY <1>0, <1>3, <2>1, <2>2, AppendProperties DEF x
<1>15. ASSUME errors' = <<>>
       PROVE  /\ errors = <<>> /\ globals'[m] = list /\ NamesDiffer(list)
  <2>1. errors = <<>> /\ At(records, DOMAIN list \ listed) = <<>>
    <3> DEFINE a == At(records, DOMAIN list \ listed)
    <3>1. errors \in Seq(E \cup R) /\ a \in Seq(E \cup R)
      BY <1>11, <1>12, SeqMonotonic
    <3>2. errors \o a = <<>>
      BY <1>2, <1>15
    <3> HIDE DEF a
    <3>3. Len(errors \o a) = Len(errors) + Len(a) /\ Len(errors) \in Nat /\ Len(a) \in Nat
      BY <3>1, ConcatProperties, LenProperties
    <3>4. Len(errors) = 0 /\ Len(a) = 0
      BY <3>2, <3>3
    <3>5. errors = <<>> /\ a = <<>>
      BY <3>1, <3>4
    <3> QED BY <3>5 DEF a
  <2>2. listed = DOMAIN list
    <3>1. listed \in SUBSET DOMAIN records /\ At(records, DOMAIN records \ listed) = <<>>
      BY <1>7, <1>9, <2>1
    <3>2. listed = DOMAIN records
      BY <1>10, <3>1, NothingLeft
    <3> QED BY <1>9, <3>2
  <2>3. globals'[m] = list
    BY <1>4, <1>14, <2>2, AllSelected
  <2>4. \A i \in DOMAIN list : Listed(list, i, modules[m])
    BY <2>2 DEF listed
  <2>5. \A i \in DOMAIN list : \A j \in 1..(i - 1) : j \in DOMAIN list => list[j].name # list[i].name
    BY <2>4 DEF Listed
  <2>6. DOMAIN list = 1..Len(list) /\ Len(list) \in Nat
    BY <1>4, LenProperties
  <2>7. NamesDiffer(list)
    <3> SUFFICES ASSUME NEW i \in DOMAIN list, NEW j \in DOMAIN list, list[i].name = list[j].name PROVE i = j
      BY DEF NamesDiffer
    <3>1. i < j => i \in 1..(j - 1)
      BY <2>6
    <3>2. j < i => j \in 1..(i - 1)
      BY <2>6
    <3> QED BY <2>5, <2>6, <3>1, <3>2
  <2> QED BY <2>1, <2>3, <2>7
<1>16. GlobalsFit'
  <2>1. Count' = Count
    BY <1>2 DEF Count
  <2> QED BY <1>0, <1>2, <1>3, <1>14, <2>1 DEF GlobalsFit
<1>17. GlobalsWhole'
  <2>1. ASSUME errors' = <<>>, NEW i \in DOMAIN globals'
        PROVE  globals'[i] = ListOf(modules[i])' /\ NamesDiffer(ListOf(modules[i])')
    <3>1. CASE i = m
      BY <1>6, <1>15, <2>1, <3>1
    <3>2. CASE i # m
      <4>1. i \in 1..Len(globals) /\ i \in DOMAIN globals
        BY <1>0, <1>3, <1>14, <2>1, <3>2
      <4>2. globals[i] = ListOf(modules[i]) /\ NamesDiffer(ListOf(modules[i]))
        BY <1>2, <1>15, <2>1, <4>1 DEF GInv, GlobalsWhole
      <4>3. ListOf(modules[i])' = ListOf(modules[i])
        BY <1>5
      <4> QED BY <1>14, <4>1, <4>2, <4>3
    <3> QED BY <3>1, <3>2
  <2> QED BY <2>1 DEF GlobalsWhole
<1> QED BY <1>13, <1>16, <1>17 DEF GInv

LEMMA GInvInit == Init => GInv
<1> SUFFICES ASSUME Init PROVE GInv
  OBVIOUS
<1>1. errors \in Seq({}) /\ phase = "start" /\ globals = <<>> /\ errors = <<>>
  BY EmptySeq DEF Init
<1> QED BY <1>1 DEF GInv, GlobalsFit, GlobalsWhole

\* The lists stay as they are until all modules are in the table.
LEMMA GInvEarlier ==
  ASSUME GInv, UNCHANGED <<globals, errors>>, phase \in {"start", "main", "std", "work"},
         phase' \in {"start", "main", "std", "work", "failed"}
  PROVE  GInv'
BY DEF GInv, GlobalsFit, GlobalsWhole

LEMMA GInvLater ==
  ASSUME GInv, UNCHANGED <<globals, errors, modules, files>>,
         phase' \in {phase, "failed", "fault"} \/ (phase = "globals" /\ phase' = "resolved" /\ Len(globals) = Count)
  PROVE  GInv'
<1>1. \A i : ListOf(modules[i])' = ListOf(modules[i])
  BY DEF ListOf, PrivateGlobals, PublicGlobals
<1> QED BY <1>1 DEF GInv, GlobalsFit, GlobalsWhole, Count

LEMMA GInvStep == SInv /\ GInv /\ [Next]_vars => GInv'
<1> SUFFICES ASSUME SInv, GInv, [Next]_vars PROVE GInv'
  OBVIOUS
<1>1. TypeOK /\ (\E S : globals \in Seq(S)) /\ Len(modules) \in Nat
  BY ModsAre DEF SInv, PInv, IInv
<1>a. ASSUME NEW text, Fail(text) PROVE GInv'
  BY <1>a, GInvLater DEF Fail
<1>2. CASE SelfModule \/ Submodule
  BY <1>2, GInvEarlier DEF SelfModule, Submodule, Walking, Keep
<1>3. CASE RefuseSelf \/ RefuseFile \/ RefuseRedeclared
  BY <1>a, <1>3 DEF RefuseSelf, RefuseFile, RefuseRedeclared, Refused
<1>4. CASE CompileMain
  BY <1>a, <1>4, GInvEarlier DEF CompileMain
<1>5. CASE CompileStd
  BY <1>5, GInvEarlier DEF CompileStd
<1>6. CASE StartWork
  BY <1>6, GInvEarlier DEF StartWork
<1>7. CASE ResolveNode
  BY <1>7, GInvEarlier DEF ResolveNode, Working
<1>8. CASE ResolveFile
  BY <1>a, <1>8, GInvEarlier DEF ResolveFile, Working
<1>9. CASE FileUnusable
  BY <1>a, <1>9 DEF FileUnusable
<1>10. CASE TableComplete
  <2>1. globals = <<>> /\ errors = <<>> /\ phase' = "globals" /\ UNCHANGED <<globals, errors, modules>>
    BY <1>10 DEF TableComplete, table, GInv, GlobalsFit
  <2>2. Len(globals) = 0 /\ DOMAIN globals = {}
    BY <2>1
  <2> QED BY <1>1, <2>1, <2>2 DEF GInv, GlobalsFit, GlobalsWhole, Count
<1>11. CASE ListGlobals
  <2>1. CASE phase' = "globals"
    BY <1>1, <1>11, <2>1, ListStep
  <2>2. CASE phase' # "globals"
    <3>1. UNCHANGED <<globals, errors, modules, files>> /\ phase' = "fault"
      BY <1>11, <2>2 DEF ListGlobals, table
    <3> QED BY <3>1, GInvLater
  <2> QED BY <2>1, <2>2
<1>12. CASE GlobalsListed
  BY <1>12, GInvLater DEF GlobalsListed, table
<1>13. CASE UNCHANGED vars
  BY <1>13, GInvLater DEF vars
<1> QED BY <1>2, <1>3, <1>4, <1>5, <1>6, <1>7, <1>8, <1>9, <1>10, <1>11, <1>12, <1>13
        DEF Next, Walk, Resolve

-----------------------------------------------------------------------------
(***************************************************************************)
(* The meaning of paths, from the meaning of the paths one name shorter,   *)
(* and what is known of aliases, from what the round before knew.          *)
(***************************************************************************)
LEMMA AlongIs ==
  ASSUME NEW prog, NEW known, NEW origin, NEW S, NEW path \in Seq(S)
  PROVE  LET f == Along(prog, known, origin, path)
         IN /\ f[0] = To(origin)
            /\ \A i \in 1..Len(path) : f[i] = Onwards(prog, known, path, i, f[i - 1])
<1> DEFINE n == Len(path)
           At_(f, i) == IF i = 0 THEN To(origin) ELSE Onwards(prog, known, path, i, f[i - 1])
           Up(f, b) == f = [i \in 0..b |-> At_(f, i)]
           T == { b \in 0..n : \E f : Up(f, b) }
           Is(f) == f = [i \in 0..Len(path) |->
                           IF i = 0 THEN To(origin) ELSE Onwards(prog, known, path, i, f[i - 1])]
           along == Along(prog, known, origin, path)
<1>1. n \in Nat
  BY LenProperties
<1>2. 0 \in T
  <2> DEFINE f == [i \in 0..0 |-> To(origin)]
  <2>1. f = [i \in 0..0 |-> At_(f, i)]
    OBVIOUS
  <2>2. Up(f, 0)
    BY <2>1
  <2>3. 0 \in 0..n
    BY <1>1
  <2> QED BY <2>2, <2>3
<1>3. ASSUME NEW b \in 1..n, b - 1 \in T
      PROVE  b \in T
  <2>1. PICK f : Up(f, b - 1)
    BY <1>3
  <2> DEFINE g == [i \in 0..b |-> IF i = b THEN At_(f, b) ELSE f[i]]
  <2>2. \A i \in 0..(b - 1) : f[i] = At_(f, i)
    BY <2>1
  <2>3. \A i \in 0..b : g[i] = IF i = b THEN At_(f, b) ELSE f[i]
    OBVIOUS
  <2>4. g = [i \in 0..b |-> g[i]] /\ b \in 0..n
    BY <1>1
  <2> HIDE DEF g
  <2>5. ASSUME NEW i \in 0..b
        PROVE  g[i] = At_(g, i)
    <3>1. i = 0 \/ (i - 1 \in 0..b /\ i - 1 # b)
      BY <1>1
    <3>2. i = 0 \/ g[i - 1] = f[i - 1]
      BY <2>3, <3>1
    <3>3. At_(g, i) = At_(f, i)
      BY <3>2
    <3>4. CASE i = b
      BY <2>3, <3>3, <3>4
    <3>5. CASE i # b
      <4>1. i \in 0..(b - 1)
        BY <3>5
      <4> QED BY <2>2, <2>3, <3>3, <3>5, <4>1
    <3> QED BY <3>4, <3>5
  <2> HIDE DEF At_
  <2>6. [i \in 0..b |-> g[i]] = [i \in 0..b |-> At_(g, i)]
    BY <2>5
  <2>7. Up(g, b)
    BY <2>4, <2>6
  <2> QED BY <2>4, <2>7
<1>4. n \in T
  <2>1. n \in 0..n
    BY <1>1
  <2> HIDE DEF T, n
  <2> QED BY <1>1, <1>2, <1>3, <2>1, UpTo
<1>5. \E f : Is(f)
  BY <1>4
<1>6. Is(along)
  BY <1>5, Zenon DEF Along
<1> HIDE DEF along
<1>7. along[0] = To(origin) /\ \A i \in 1..n : along[i] = Onwards(prog, known, path, i, along[i - 1])
  <2>1. 0 \in 0..Len(path) /\ \A i \in 1..n : i \in 0..Len(path) /\ i # 0
    BY <1>1
  <2> QED BY <1>6, <2>1
<1> QED BY <1>7 DEF along

NothingKnown == [place \in Seq(Names) |-> [path \in Seq(Names) |-> No("recursion_limit")]]
Round(prog, before) ==
  [place \in Seq(Names) |-> [path \in Seq(Names) |-> Along(prog, before, place, path)[Len(path)]]]
Rounds(f, prog, n) ==
  /\ Known(prog, n) = f[n]
  /\ f[0] = NothingKnown
  /\ \A k \in 1..n : f[k] = Round(prog, f[k - 1])

LEMMA KnownIs ==
  ASSUME NEW prog, NEW n \in Nat
  PROVE  \E f : Rounds(f, prog, n)
<1> DEFINE At_(f, k) == IF k = 0 THEN NothingKnown ELSE Round(prog, f[k - 1])
           Up(f, b) == f = [k \in 0..b |-> At_(f, k)]
           T == { b \in 0..n : \E f : Up(f, b) }
           Is(f) == f = [k \in 0..n |->
                           [place \in Seq(Names) |-> [path \in Seq(Names) |->
                              IF k = 0 THEN No("recursion_limit")
                              ELSE Along(prog, f[k - 1], place, path)[Len(path)]]]]
           known == CHOOSE f : Is(f)
<1>2. 0 \in T
  <2> DEFINE f == [k \in 0..0 |-> NothingKnown]
  <2>1. f = [k \in 0..0 |-> At_(f, k)]
    OBVIOUS
  <2>2. Up(f, 0)
    BY <2>1
  <2>3. 0 \in 0..n
    OBVIOUS
  <2> QED BY <2>2, <2>3
<1>3. ASSUME NEW b \in 1..n, b - 1 \in T
      PROVE  b \in T
  <2>1. PICK f : Up(f, b - 1)
    BY <1>3
  <2> DEFINE g == [k \in 0..b |-> IF k = b THEN At_(f, b) ELSE f[k]]
  <2>2. \A k \in 0..(b - 1) : f[k] = At_(f, k)
    BY <2>1
  <2>3. \A k \in 0..b : g[k] = IF k = b THEN At_(f, b) ELSE f[k]
    OBVIOUS
  <2>4. g = [k \in 0..b |-> g[k]] /\ b \in 0..n
    OBVIOUS
  <2> HIDE DEF g
  <2>5. ASSUME NEW k \in 0..b
        PROVE  g[k] = At_(g, k)
    <3>1. k = 0 \/ (k - 1 \in 0..b /\ k - 1 # b)
      OBVIOUS
    <3>2. k = 0 \/ g[k - 1] = f[k - 1]
      BY <2>3, <3>1
    <3>3. At_(g, k) = At_(f, k)
      BY <3>2
    <3>4. CASE k = b
      BY <2>3, <3>3, <3>4
    <3>5. CASE k # b
      <4>1. k \in 0..(b - 1)
        BY <3>5
      <4> QED BY <2>2, <2>3, <3>3, <3>5, <4>1
    <3> QED BY <3>4, <3>5
  <2> HIDE DEF At_
  <2>6. [k \in 0..b |-> g[k]] = [k \in 0..b |-> At_(g, k)]
    BY <2>5
  <2>7. Up(g, b)
    BY <2>4, <2>6
  <2> QED BY <2>4, <2>7
<1>4. n \in T
  <2> HIDE DEF T
  <2> QED BY <1>2, <1>3, UpTo
<1>5. \E f : Is(f)
  <2>1. PICK f : Up(f, n)
    BY <1>4
  <2> DEFINE entry(k) == [place \in Seq(Names) |-> [path \in Seq(Names) |->
                            IF k = 0 THEN No("recursion_limit")
                            ELSE Along(prog, f[k - 1], place, path)[Len(path)]]]
  <2>2. \A k \in 0..n : entry(k) = At_(f, k)
    <3> SUFFICES ASSUME NEW k \in 0..n PROVE entry(k) = At_(f, k)
      OBVIOUS
    <3>1. CASE k = 0
      BY <3>1 DEF NothingKnown
    <3>2. CASE k # 0
      BY <3>2 DEF Round
    <3> QED BY <3>1, <3>2
  <2>3. f = [k \in 0..n |-> At_(f, k)]
    BY <2>1
  <2> HIDE DEF entry, At_
  <2>4. f = [k \in 0..n |-> entry(k)]
    BY <2>2, <2>3
  <2>5. Is(f)
    BY <2>4 DEF entry
  <2> QED BY <2>5
<1>6. Is(known)
  BY <1>5, Zenon
<1>7. Known(prog, n) = known[n]
  BY DEF Known
<1> HIDE DEF known
<1>8. known[0] = NothingKnown
  <2>1. 0 \in 0..n
    OBVIOUS
  <2>2. known[0] = [place \in Seq(Names) |-> [path \in Seq(Names) |->
                      IF 0 = 0 THEN No("recursion_limit")
                      ELSE Along(prog, known[0 - 1], place, path)[Len(path)]]]
    BY <1>6, <2>1
  <2> QED BY <2>2 DEF NothingKnown
<1>9. ASSUME NEW k \in 1..n PROVE known[k] = Round(prog, known[k - 1])
  <2>1. k \in 0..n /\ k # 0
    OBVIOUS
  <2>2. known[k] = [place \in Seq(Names) |-> [path \in Seq(Names) |->
                      IF k = 0 THEN No("recursion_limit")
                      ELSE Along(prog, known[k - 1], place, path)[Len(path)]]]
    BY <1>6, <2>1
  <2> QED BY <2>1, <2>2 DEF Round
<1> QED BY <1>7, <1>8, <1>9 DEF Rounds

-----------------------------------------------------------------------------
(***************************************************************************)
(* A program that was resolved without errors.                             *)
(***************************************************************************)
Settled == Ready /\ Sites /\ RootsHeld /\ GInv /\ errors = <<>>
PlaceIn(x) == PlaceOf(modules, x)

LEMMA SettledTyped ==
  ASSUME Settled
  PROVE  /\ Ready /\ TypeOK /\ Count <= NoModule /\ phase = "resolved" /\ program \in Programs
         /\ Sites /\ RootsHeld /\ GInv /\ errors = <<>>
BY ReadyTyped DEF Settled, Ready, TypeOK

LEMMA AllHeld ==
  ASSUME Settled, NEW x \in Mods
  PROVE  Held(SiteOf(x), get_module(x), files, {}, {})
<1>1. todo = <<>>
  BY SettledTyped DEF RootsHeld
<1>2. Pending(x) = {} /\ PendingDecls(x) = {}
  BY <1>1, NothingUnfolded DEF Pending, PendingDecls
<1>3. HeldIn(x)
  BY DEF Settled, Sites, TreeHeld
<1> QED BY <1>2, <1>3 DEF HeldIn

LEMMA AppendFront ==
  ASSUME NEW S, NEW s \in Seq(S), NEW x \in S
  PROVE  Front(Append(s, x)) = s
BY DEF Front

LEMMA AppendsDiffer ==
  ASSUME NEW S, NEW s \in Seq(S), NEW t \in Seq(S), NEW x \in S, NEW y \in S, Append(s, x) = Append(t, y)
  PROVE  s = t /\ x = y
<1>1. s = t
  <2>1. Front(Append(s, x)) = s /\ Front(Append(t, y)) = t
    BY AppendFront
  <2> QED BY <2>1
<1>2. Append(s, x)[Len(s) + 1] = x /\ Append(t, y)[Len(t) + 1] = y
  BY AppendProperties
<1> QED BY <1>1, <1>2

LEMMA PlaceShape ==
  ASSUME Settled, NEW x \in Mods
  PROVE  /\ PlaceIn(x) \in Seq(Names) /\ PlaceIn(x) # Nowhere /\ get_module(x).name \in Names
         /\ ParentOf(x) = NoModule => /\ PlaceIn(x) = <<get_module(x).name>>
                                      /\ Len(PlaceIn(x)) = 1 /\ Front(PlaceIn(x)) = Nowhere
         /\ ParentOf(x) # NoModule => /\ ParentOf(x) \in Mods /\ ParentOf(x) < x
                                      /\ PlaceIn(x) = Append(PlaceIn(ParentOf(x)), get_module(x).name)
                                      /\ Len(PlaceIn(x)) > 1 /\ Front(PlaceIn(x)) = PlaceIn(ParentOf(x))
<1>1. TypeOK /\ Count <= NoModule
  BY SettledTyped
<1> DEFINE name == get_module(x).name
           p == ParentOf(x)
<1>2. name \in Names /\ (p = NoModule \/ (p \in Mods /\ p < x))
  <2>1. \A k \in Mods : modules[k + 1].name \in Names
    BY <1>1, ForestHolds
  <2> QED BY <1>1, <2>1, Parents DEF get_module
<1>3. PlaceIn(x) \in Seq(Names) /\ PlaceIn(x) # Nowhere
  BY <1>1, PlacesTyped DEF PlaceIn, Nowhere
<1>4. PlaceIn(x) = IF p = NoModule THEN <<name>> ELSE Append(PlaceIn(p), name)
  BY <1>1, PlaceEq DEF PlaceIn
<1> HIDE DEF name, p
<1>5. ASSUME p = NoModule
      PROVE  PlaceIn(x) = <<name>> /\ Len(PlaceIn(x)) = 1 /\ Front(PlaceIn(x)) = Nowhere
  <2>1. Len(<<name>>) = 1 /\ <<name>> = Append(<<>>, name) /\ <<>> \in Seq(Names)
    BY EmptySeq
  <2>2. Front(Append(<<>>, name)) = <<>>
    BY <1>2, <2>1, AppendFront
  <2> QED BY <1>4, <1>5, <2>1, <2>2 DEF Nowhere
<1>6. ASSUME p # NoModule
      PROVE  /\ PlaceIn(x) = Append(PlaceIn(p), name)
             /\ Len(PlaceIn(x)) > 1 /\ Front(PlaceIn(x)) = PlaceIn(p)
  <2> DEFINE s == PlaceIn(p)
  <2>1. s \in Seq(Names) /\ s # <<>>
    BY <1>1, <1>2, <1>6, PlacesTyped DEF PlaceIn
  <2> HIDE DEF s
  <2>2. Len(Append(s, name)) = Len(s) + 1 /\ Len(s) \in Nat /\ Len(s) # 0
    BY <1>2, <2>1, AppendProperties, LenProperties, EmptySeq
  <2>3. Front(Append(s, name)) = s
    BY <1>2, <2>1, AppendFront
  <2>4. PlaceIn(x) = Append(s, name)
    BY <1>4, <1>6 DEF s
  <2> QED BY <2>2, <2>3, <2>4 DEF s
<1> QED BY <1>2, <1>3, <1>5, <1>6 DEF name, p

\* Modules have places of their own.
LEMMA PlacesDiffer ==
  ASSUME Settled
  PROVE  \A x, y \in Mods : PlaceIn(x) = PlaceIn(y) => x = y
<1> DEFINE n == Count
           Own(x) == \A y \in Mods : PlaceIn(x) = PlaceIn(y) => x = y
           T == { b \in 0..n : \A x \in Mods : x < b => Own(x) }
<1>1. n \in Nat /\ \A x \in Mods : x \in Nat /\ x < n
  BY SettledTyped, ModsAre
<1>2. 0 \in T
  BY <1>1
<1>3. ASSUME NEW b \in 1..n, b - 1 \in T
      PROVE  b \in T
  <2> SUFFICES ASSUME NEW x \in Mods, x < b, NEW y \in Mods, PlaceIn(x) = PlaceIn(y)
               PROVE  x = y
    BY <1>1
  <2>1. \A z \in Mods : z < x => Own(z)
    <3>1. \A z \in Mods : z < x => z < b - 1
      BY <1>1
    <3> QED BY <1>3, <3>1
  <2> HIDE DEF Own
  <2>2. CASE ParentOf(x) = NoModule
    <3>1. ParentOf(y) = NoModule /\ <<get_module(x).name>> = <<get_module(y).name>>
      BY <2>2, PlaceShape
    <3>2. get_module(x).name = get_module(y).name
      BY <3>1
    <3>3. /\ (x = 0 /\ get_module(x).name = "main") \/ (x = 1 /\ get_module(x).name = "std")
          /\ (y = 0 /\ get_module(y).name = "main") \/ (y = 1 /\ get_module(y).name = "std")
      BY <2>2, <3>1, SettledTyped DEF RootsHeld
    <3> QED BY <3>2, <3>3
  <2>3. CASE ParentOf(x) # NoModule
    <3>1. /\ ParentOf(y) # NoModule /\ ParentOf(x) \in Mods /\ ParentOf(y) \in Mods /\ ParentOf(x) < x
          /\ PlaceIn(ParentOf(x)) \in Seq(Names) /\ PlaceIn(ParentOf(y)) \in Seq(Names)
          /\ get_module(x).name \in Names /\ get_module(y).name \in Names
          /\ Append(PlaceIn(ParentOf(x)), get_module(x).name) = Append(PlaceIn(ParentOf(y)), get_module(y).name)
      BY <2>3, PlaceShape
    <3>2. PlaceIn(ParentOf(x)) = PlaceIn(ParentOf(y)) /\ get_module(x).name = get_module(y).name
      BY <3>1, AppendsDiffer
    <3>3. ParentOf(x) = ParentOf(y)
      BY <2>1, <3>1, <3>2 DEF Own
    <3>4. IsChild(x, ParentOf(y), get_module(y).name)
      BY <3>2, <3>3 DEF IsChild, ParentOf
    <3> QED BY <3>4, SettledTyped DEF Sites, ChildrenHeld
  <2> QED BY <2>2, <2>3
<1>4. n \in T
  <2>1. n \in 0..n
    BY <1>1
  <2> HIDE DEF T, n
  <2> QED BY <1>1, <1>2, <1>3, <2>1, UpTo
<1> QED BY <1>1, <1>4

-----------------------------------------------------------------------------
(***************************************************************************)
(* What the code answers for a name, and what the name means.              *)
(***************************************************************************)
Failed(a, t, e) == e # "ok" /\ t = No(e) /\ a = Error(e)
Lost(a, t) == t = To(Nowhere) /\ a = Found(NoModule)
Reaches(a, t, x) == x \in Mods /\ t = To(PlaceIn(x)) /\ a = Found(x)
Match(a, t) == (\E e : Failed(a, t, e)) \/ Lost(a, t) \/ (\E x : Reaches(a, t, x))
Aligned(aliased, known) ==
  \A x \in Mods : \A path \in Seq(Names) : path # <<>> => Match(aliased[x][path], known[PlaceIn(x)][path])

\* The item of a module for a name, and the declaration at its place.
ItemFor(x, name) == get_module(x).items[Min(Submodules(x, name))]
NamesThere(x, name) == NamedIn(SiteAt(program, PlaceIn(x)), name)
LEMMA NameDeclared ==
  ASSUME Settled, NEW x \in Mods, NEW name
  PROVE  /\ NamesThere(x, name) = {} <=> Submodules(x, name) = {}
         /\ NamesThere(x, name) # {} =>
              \E d : /\ NamesThere(x, name) = {d}
                     /\ StandsFor(ItemFor(x, name), d)
                     /\ d.node.path \in Seq(Names)
                     /\ d.node.path = <<>> =>
                          /\ ItemFor(x, name).index \in Mods
                          /\ PlaceIn(ItemFor(x, name).index) = Append(PlaceIn(x), name)
<1> DEFINE items == get_module(x).items
           site == SiteOf(x)
           D == NamesThere(x, name)
           S == Submodules(x, name)
<1>1. /\ \A d \in ModulesOf(site.node) : \E i \in DOMAIN items : items[i].is_submodule /\ StandsFor(items[i], d)
      /\ \A i \in DOMAIN items : items[i].is_submodule => \E d \in ModulesOf(site.node) : StandsFor(items[i], d)
      /\ \A d, e \in ModulesOf(site.node) : d.node.name = e.node.name => d = e
  <2>1. SubsHeld(site, items, {})
    BY AllHeld DEF Held
  <2> QED BY <2>1 DEF SubsHeld
<1>2. D = { d \in ModulesOf(site.node) : d.node.name = name }
  BY DEF NamesThere, NamedIn, SiteOf, PlaceIn
<1>3. S = { i \in DOMAIN items : items[i].is_submodule /\ items[i].name = name }
  BY DEF Submodules
<1> HIDE DEF D, S, items, site
<1>4. D = {} <=> S = {}
  <2>1. ASSUME NEW d \in D PROVE \E i : i \in S
    BY <1>1, <1>2, <1>3, <2>1 DEF StandsFor
  <2>2. ASSUME NEW i \in S PROVE \E d : d \in D
    BY <1>1, <1>2, <1>3, <2>2 DEF StandsFor
  <2> QED BY <2>1, <2>2
<1>5. ASSUME S # {}
      PROVE  \E d : /\ D = {d}
                    /\ StandsFor(ItemFor(x, name), d)
                    /\ d.node.path \in Seq(Names)
                    /\ d.node.path = <<>> =>
                         /\ ItemFor(x, name).index \in Mods
                         /\ PlaceIn(ItemFor(x, name).index) = Append(PlaceIn(x), name)
  <2>1. PICK i \in DOMAIN items : /\ items[i].is_submodule /\ items[i].name = name
                                  /\ ItemFor(x, name) = items[i]
    <3>1. Min(S) \in S
      BY <1>5, SettledTyped, SubmoduleMin DEF S
    <3> QED BY <1>3, <3>1 DEF ItemFor, S, items
  <2>2. PICK d \in ModulesOf(site.node) : StandsFor(items[i], d)
    BY <1>1, <2>1
  <2>3. d.node.name = name /\ d.node.path = items[i].path
    BY <2>1, <2>2 DEF StandsFor
  <2>4. D = {d}
    <3>1. d \in D
      BY <1>2, <2>2, <2>3
    <3>2. \A e \in D : e = d
      BY <1>1, <1>2, <2>2, <2>3
    <3> QED BY <3>1, <3>2
  <2>5. items[i].path \in Seq(Names)
    <3>1. x + 1 \in DOMAIN modules /\ modules \in Seq(ModuleRecords)
      BY SettledTyped, ModsAre DEF TypeOK
    <3>2. items[i] \in Items
      BY <2>1, <3>1, ItemsTyped DEF items, get_module
    <3> QED BY <3>2 DEF Items
  <2>6. ASSUME items[i].path = <<>>
        PROVE  items[i].index \in Mods /\ PlaceIn(items[i].index) = Append(PlaceIn(x), name)
    <3>1. PICK y : y = items[i].index
      OBVIOUS
    <3>2. y \in Mods /\ ParentOf(y) = x /\ get_module(y).name = name
      BY <2>1, <2>6, <3>1, SettledTyped, Led DEF items
    <3>3. ParentOf(y) # NoModule
      BY <3>2, SettledTyped, Parents
    <3>4. PlaceIn(y) = Append(PlaceIn(x), name)
      BY <3>2, <3>3, PlaceShape
    <3> QED BY <3>1, <3>2, <3>4
  <2> QED BY <2>1, <2>2, <2>3, <2>4, <2>5, <2>6
<1> QED BY <1>4, <1>5 DEF D, S

\* The standard library is the only library.
LEMMA TheLibrary ==
  ASSUME Settled, NEW name
  PROVE  /\ name = "std" => /\ find_library(name) # {}
                            /\ libraries[Min(find_library(name))].module = 1
         /\ name # "std" => find_library(name) = {}
         /\ 1 \in Mods /\ PlaceIn(1) = <<"std">>
<1>1. Count >= 2 /\ ParentOf(1) = NoModule /\ libraries = <<[name |-> "std", module |-> 1]>> /\ Count \in Nat
  BY SettledTyped, ModsAre DEF RootsHeld
<1>2. DOMAIN libraries = {1} /\ libraries[1].name = "std" /\ libraries[1].module = 1
  BY <1>1
<1>3. 1 \in Mods
  BY <1>1 DEF Mods
<1>4. get_module(1).name = "std"
  BY <1>1, <1>3, SettledTyped DEF RootsHeld
<1>5. PlaceIn(1) = <<"std">>
  BY <1>1, <1>3, <1>4, PlaceShape
<1>6. name = "std" => find_library(name) = {1}
  BY <1>2 DEF find_library
<1>7. name # "std" => find_library(name) = {}
  BY <1>2 DEF find_library
<1>8. Min({1}) = 1
  BY DEF Min
<1> QED BY <1>2, <1>3, <1>5, <1>6, <1>7, <1>8

LEMMA Matches ==
  /\ \A e : e # "ok" => Match(Error(e), No(e))
  /\ \A x \in Mods : Match(Found(x), To(PlaceIn(x)))
  /\ Match(Found(NoModule), To(Nowhere))
BY DEF Match, Failed, Lost, Reaches

LEMMA NameMatches ==
  ASSUME Settled, NEW aliased, NEW known, Aligned(aliased, known),
         NEW x \in Mods, NEW name, NEW may \in BOOLEAN, NEW origin
  PROVE  Match(found_module(origin, x, name, may, aliased),
               Enter(program, known, PlaceIn(x), name, may))
<1> DEFINE D == NamesThere(x, name)
           S == Submodules(x, name)
           visible == { d \in D : d.public \/ may }
           path == (CHOOSE d \in visible : TRUE).node.path
           item == ItemFor(x, name)
           result == find_submodule_in(x, name, may)
           a == found_module(origin, x, name, may, aliased)
           t == Enter(program, known, PlaceIn(x), name, may)
<1>1. /\ result = "ok" => a = IF item.path # <<>> THEN aliased[x][item.path] ELSE Found(item.index)
      /\ result # "ok" /\ find_library(name) # {} => a = Found(libraries[Min(find_library(name))].module)
      /\ result # "ok" /\ find_library(name) = {} => a = Error(result)
  BY DEF found_module, item_module, AliasOrigin, ItemFor
<1>2. /\ visible # {} /\ path # <<>> => t = known[PlaceIn(x)][path]
      /\ visible # {} /\ path = <<>> => t = To(Append(PlaceIn(x), name))
      /\ visible = {} /\ name = "std" => t = To(<<"std">>)
      /\ visible = {} /\ name # "std" /\ D # {} => t = No("private")
      /\ visible = {} /\ name # "std" /\ D = {} => t = No("doesnt_exist")
  BY DEF Enter, NamesThere
<1>3. /\ S = {} => result = "doesnt_exist"
      /\ S # {} /\ ~may /\ ~item.is_public => result = "private"
      /\ S # {} /\ (may \/ item.is_public) => result = "ok"
  BY DEF find_submodule_in, ItemFor
<1> HIDE DEF a, t, result, S, D, item, visible, path
<1>4. CASE D = {}
  <2>1. visible = {} /\ result = "doesnt_exist"
    <3>1. S = {}
      BY <1>4, NameDeclared DEF D, S
    <3> QED BY <1>3, <1>4, <3>1 DEF visible
  <2>2. CASE name = "std"
    BY <1>1, <1>2, <2>1, <2>2, TheLibrary, Matches DEF a, t
  <2>3. CASE name # "std"
    BY <1>1, <1>2, <1>4, <2>1, <2>3, TheLibrary, Matches DEF a, t
  <2> QED BY <2>2, <2>3
<1>5. CASE D # {}
  <2>1. PICK d : /\ D = {d} /\ StandsFor(item, d) /\ d.node.path \in Seq(Names)
                 /\ d.node.path = <<>> =>
                      item.index \in Mods /\ PlaceIn(item.index) = Append(PlaceIn(x), name)
    BY <1>5, NameDeclared DEF D, item
  <2>2. S # {} /\ item.path = d.node.path /\ item.is_public = d.public
    <3>1. S # {}
      BY <1>5, NameDeclared DEF D, S
    <3> QED BY <2>1, <3>1 DEF StandsFor
  <2>3. CASE d.public \/ may
    <3>1. visible = {d} /\ path = d.node.path /\ result = "ok"
      <4>1. visible = {d}
        BY <2>1, <2>3 DEF visible
      <4>2. path = d.node.path
        BY <4>1 DEF path
      <4> QED BY <1>3, <2>2, <2>3, <4>1, <4>2
    <3>2. CASE path = <<>>
      <4>1. a = Found(item.index) /\ t = To(PlaceIn(item.index)) /\ item.index \in Mods
        BY <1>1, <1>2, <2>1, <2>2, <3>1, <3>2
      <4> QED BY <4>1, Matches DEF a, t
    <3>3. CASE path # <<>>
      <4>1. a = aliased[x][path] /\ t = known[PlaceIn(x)][path] /\ path \in Seq(Names)
        BY <1>1, <1>2, <2>1, <2>2, <3>1, <3>3
      <4> QED BY <3>3, <4>1 DEF Aligned, a, t
    <3> QED BY <3>2, <3>3
  <2>4. CASE ~(d.public \/ may)
    <3>1. visible = {} /\ result = "private"
      <4>1. visible = {}
        BY <2>1, <2>4 DEF visible
      <4> QED BY <1>3, <2>2, <2>4, <4>1
    <3>2. CASE name = "std"
      BY <1>1, <1>2, <3>1, <3>2, TheLibrary, Matches DEF a, t
    <3>3. CASE name # "std"
      BY <1>1, <1>2, <1>5, <3>1, <3>3, TheLibrary, Matches DEF a, t
    <3> QED BY <3>2, <3>3
  <2> QED BY <2>3, <2>4
<1> QED BY <1>4, <1>5

-----------------------------------------------------------------------------
(***************************************************************************)
(* The names of a path, one after the other.                               *)
(***************************************************************************)
HereMatch(h, t, may) ==
  /\ h = [answer |-> h.answer, in_root |-> h.in_root]
  /\ \/ \E e : Failed(h.answer, t, e)
     \/ t = To(Nowhere) /\ h.answer = Error("panic")
     \/ h.in_root = may /\ \E x : Reaches(h.answer, t, x)

LEMMA HereMatches ==
  ASSUME Settled, NEW aliased, NEW known, Aligned(aliased, known), NEW origin,
         NEW path \in Seq(Names), NEW k \in 1..(Len(path) - 1),
         NEW h, NEW t, HereMatch(h, t, Supers(path, k - 1))
  PROVE  HereMatch(next_module(origin, h, path[k], aliased),
                   Onwards(program, known, path, k, t), Supers(path, k))
<1> DEFINE next == next_module(origin, h, path[k], aliased)
           on == Onwards(program, known, path, k, t)
           before == Supers(path, k - 1)
           after == Supers(path, k)
<1>1. h = [answer |-> h.answer, in_root |-> h.in_root]
  BY DEF HereMatch
<1>2. ASSUME NEW e, Failed(h.answer, t, e) PROVE HereMatch(next, on, after)
  <2>1. h.answer.error = e /\ t.error = e /\ e # "ok"
    BY <1>2 DEF Failed, Error, No
  <2>2. next = h
    BY <2>1 DEF next_module
  <2>3. on = t
    BY <2>1 DEF Onwards, To
  <2> HIDE DEF next, on, after
  <2> QED BY <1>1, <1>2, <2>2, <2>3 DEF HereMatch
<1>3. ASSUME t = To(Nowhere), h.answer = Error("panic") PROVE HereMatch(next, on, after)
  <2>1. h.answer.error = "panic" /\ t.error = "ok"
    BY <1>3 DEF Error, To
  <2>2. next = h
    BY <2>1 DEF next_module
  <2>3. on = No("panic")
    <3>1. t.place = Nowhere /\ Len(Nowhere) = 0
      BY <1>3 DEF To, Nowhere
    <3> QED BY <1>3, <2>1, <3>1 DEF Onwards
  <2>4. Failed(h.answer, No("panic"), "panic")
    BY <1>3 DEF Failed
  <2> HIDE DEF next, on, after
  <2> QED BY <1>1, <2>2, <2>3, <2>4 DEF HereMatch
<1>4. ASSUME h.in_root = before, NEW x, Reaches(h.answer, t, x) PROVE HereMatch(next, on, after)
  <2> DEFINE place == PlaceIn(x)
             p == ParentOf(x)
             name == path[k]
             may == h.in_root
  <2>1. /\ x \in Mods /\ t = To(place) /\ h.answer = Found(x)
        /\ h.answer.error = "ok" /\ h.answer.module = x /\ t.error = "ok" /\ t.place = place
    BY <1>4 DEF Reaches, Found, To
  <2>2. /\ place \in Seq(Names) /\ place # Nowhere /\ t # To(Nowhere)
        /\ p = NoModule => Len(place) = 1
        /\ p # NoModule => p \in Mods /\ Len(place) > 1 /\ Front(place) = PlaceIn(p)
    BY <2>1, PlaceShape DEF To
  <2>3. /\ name = "super" => next = [h EXCEPT !.answer = outside(p)]
        /\ name # "super" => next = [answer |-> entered(found_module(origin, x, name, may, aliased)),
                                     in_root |-> FALSE]
    BY <2>1 DEF next_module, ParentOf, in_root_after
  <2>4. k < Len(path) /\ k \in Nat /\ Len(path) \in Nat
    BY LenProperties
  <2>5. /\ name = "super" /\ p = NoModule => on = No("root_super")
        /\ name = "super" /\ p # NoModule => on = To(PlaceIn(p))
        /\ name # "super" => on = Enter(program, known, place, name, before)
    <3> HIDE DEF place, p, name, before
    <3>1. ASSUME name = "super", p = NoModule PROVE on = No("root_super")
      BY <2>1, <2>2, <2>4, <3>1 DEF Onwards, name, before
    <3>2. ASSUME name = "super", p # NoModule PROVE on = To(PlaceIn(p))
      <4>1. Len(place) > 1 /\ ~(Len(place) = 1) /\ Front(place) = PlaceIn(p)
        <5> DEFINE l == Len(place)
        <5>1. l \in Nat
          BY <2>2, LenProperties
        <5>2. l > 1 /\ Front(place) = PlaceIn(p)
          BY <2>2, <3>2
        <5> HIDE DEF l
        <5>3. l > 1 /\ ~(l = 1)
          BY <5>1, <5>2
        <5> QED BY <5>2, <5>3 DEF l
      <4> QED BY <2>1, <2>2, <3>2, <4>1 DEF Onwards, name, before
    <3>3. ASSUME name # "super" PROVE on = Enter(program, known, place, name, before)
      BY <2>1, <2>2, <2>4, <3>3 DEF Onwards, name, before
    <3> QED BY <3>1, <3>2, <3>3
  <2>6. before \in BOOLEAN
    BY DEF Supers
  <2>7. after <=> before /\ name = "super"
    <3>1. \A j : j \in 1..k <=> j \in 1..(k - 1) \/ j = k
      BY <2>4
    <3> QED BY <3>1 DEF Supers
  <2>8. after \in BOOLEAN
    BY DEF Supers
  <2> HIDE DEF next, on, before, after, place, p, name
  <2>9. CASE name = "super" /\ p = NoModule
    <3>1. next = [answer |-> Error("root_super"), in_root |-> may]
      BY <1>1, <2>3, <2>9 DEF outside
    <3>2. Failed(next.answer, on, "root_super")
      BY <2>5, <2>9, <3>1 DEF Failed
    <3> QED BY <3>1, <3>2 DEF HereMatch
  <2>10. CASE name = "super" /\ p # NoModule
    <3>1. next = [answer |-> Found(p), in_root |-> may]
      BY <1>1, <2>3, <2>10 DEF outside
    <3>2. Reaches(next.answer, on, p)
      BY <2>2, <2>5, <2>10, <3>1 DEF Reaches
    <3>3. next.in_root = after
      BY <1>4, <2>6, <2>7, <2>8, <2>10, <3>1
    <3> QED BY <3>1, <3>2, <3>3 DEF HereMatch
  <2>11. CASE name # "super"
    <3> DEFINE inner == found_module(origin, x, name, may, aliased)
    <3>1. Match(inner, on)
      <4>1. on = Enter(program, known, place, name, may) /\ may \in BOOLEAN
        BY <1>4, <2>5, <2>6, <2>11
      <4> HIDE DEF may, inner
      <4>2. Match(found_module(origin, x, name, may, aliased), Enter(program, known, PlaceIn(x), name, may))
        BY <2>1, <4>1, NameMatches
      <4> QED BY <4>1, <4>2 DEF inner, place
    <3>2. next = [answer |-> entered(inner), in_root |-> FALSE]
      BY <2>3, <2>11
    <3> HIDE DEF inner
    <3>3. ASSUME NEW e, Failed(inner, on, e) PROVE HereMatch(next, on, after)
      <4>1. entered(inner) = inner
        BY <3>3 DEF entered, Failed, Error, Found
      <4> QED BY <3>2, <3>3, <4>1 DEF HereMatch
    <3>4. ASSUME Lost(inner, on) PROVE HereMatch(next, on, after)
      BY <3>2, <3>4 DEF HereMatch, Lost, entered
    <3>5. ASSUME NEW y, Reaches(inner, on, y) PROVE HereMatch(next, on, after)
      <4>1. y # NoModule
        BY <3>5, SettledTyped, Parents DEF Reaches
      <4>2. entered(inner) = inner
        BY <3>5, <4>1 DEF entered, Reaches, Found
      <4>3. after = FALSE
        BY <2>7, <2>8, <2>11
      <4> QED BY <3>2, <3>5, <4>2, <4>3 DEF HereMatch
    <3> QED BY <3>1, <3>3, <3>4, <3>5 DEF Match
  <2> QED BY <2>9, <2>10, <2>11
<1> QED BY <1>2, <1>3, <1>4 DEF HereMatch

LEMMA PathMatches ==
  ASSUME Settled, NEW aliased, NEW known, Aligned(aliased, known), NEW origin \in Mods,
         NEW path \in Seq(Names), path # <<>>
  PROVE  \A k \in 0..(Len(path) - 1) :
           HereMatch(reached(origin, path, aliased)[k],
                     Along(program, known, PlaceIn(origin), path)[k], Supers(path, k))
<1> DEFINE n == Len(path) - 1
           r == reached(origin, path, aliased)
           f == Along(program, known, PlaceIn(origin), path)
           T == { k \in 0..n : HereMatch(r[k], f[k], Supers(path, k)) }
<1>1. /\ n \in Nat
      /\ r[0] = [answer |-> Found(origin), in_root |-> TRUE]
      /\ \A k \in 1..n : r[k] = next_module(origin, r[k - 1], path[k], aliased)
  BY ReachedIs
<1>2. /\ f[0] = To(PlaceIn(origin))
      /\ \A k \in 1..n : f[k] = Onwards(program, known, path, k, f[k - 1])
  <2>1. /\ f[0] = To(PlaceIn(origin))
        /\ \A k \in 1..Len(path) : f[k] = Onwards(program, known, path, k, f[k - 1])
    BY AlongIs
  <2>2. \A k \in 1..n : k \in 1..Len(path)
    BY LenProperties
  <2> QED BY <2>1, <2>2
<1> HIDE DEF r, f
<1>3. 0 \in T
  <2> DEFINE yes == TRUE
             s == Supers(path, 0)
  <2>1. s = yes
    BY DEF Supers
  <2>2. Reaches(r[0].answer, f[0], origin)
    BY <1>1, <1>2 DEF Reaches
  <2>4. r[0].in_root = yes /\ r[0] = [answer |-> r[0].answer, in_root |-> r[0].in_root]
    BY <1>1
  <2> HIDE DEF yes, s
  <2>3. HereMatch(r[0], f[0], s)
    BY <2>1, <2>2, <2>4 DEF HereMatch
  <2> QED BY <1>1, <2>3 DEF s
<1>4. ASSUME NEW k \in 1..n, k - 1 \in T
      PROVE  k \in T
  <2>1. HereMatch(r[k - 1], f[k - 1], Supers(path, k - 1)) /\ k \in 0..n
    BY <1>1, <1>4
  <2> DEFINE h == r[k - 1]
             t == f[k - 1]
  <2> HIDE DEF h, t
  <2>2. HereMatch(next_module(origin, h, path[k], aliased),
                  Onwards(program, known, path, k, t), Supers(path, k))
    BY <2>1, HereMatches DEF h, t
  <2> QED BY <1>1, <1>2, <2>1, <2>2 DEF h, t
<1>5. 0..n \subseteq T
  <2> HIDE DEF T, n
  <2> QED BY <1>1, <1>3, <1>4, UpTo
<1> QED BY <1>5 DEF r, f

LEMMA WalkMatches ==
  ASSUME Settled, NEW aliased, NEW known, Aligned(aliased, known), NEW origin \in Mods,
         NEW path \in Seq(Names), path # <<>>
  PROVE  Match(walk_path(origin, path, TRUE, aliased),
               Along(program, known, PlaceIn(origin), path)[Len(path)])
<1> DEFINE n == Len(path)
           name == path[n]
           h == reached(origin, path, aliased)[n - 1]
           t == Along(program, known, PlaceIn(origin), path)[n - 1]
           last == walk_path(origin, path, TRUE, aliased)
           on == Along(program, known, PlaceIn(origin), path)[n]
           before == Supers(path, n - 1)
<1>1. n - 1 \in 0..(n - 1) /\ n \in 1..n /\ n \in Nat
  BY ReachedIs, LenProperties
<1>2. HereMatch(h, t, before)
  BY <1>1, PathMatches
<1>3. on = Onwards(program, known, path, n, t)
  BY <1>1, AlongIs
<1>4. /\ h.answer.error # "ok" => last = h.answer
      /\ h.answer.error = "ok" /\ name = "super" => last = Found(ParentOf(h.answer.module))
      /\ h.answer.error = "ok" /\ name # "super" =>
           last = found_module(origin, h.answer.module, name, h.in_root, aliased)
  BY DEF walk_path, last_module, ParentOf
<1>a. before \in BOOLEAN
  BY DEF Supers
<1> HIDE DEF h, t, last, on, before, name
<1>5. ASSUME NEW e, Failed(h.answer, t, e) PROVE Match(last, on)
  <2>1. h.answer.error = e /\ t.error = e /\ e # "ok"
    BY <1>5 DEF Failed, Error, No
  <2>2. last = h.answer /\ on = t
    BY <1>3, <1>4, <2>1 DEF Onwards, To
  <2> QED BY <1>5, <2>2 DEF Match
<1>6. ASSUME t = To(Nowhere), h.answer = Error("panic") PROVE Match(last, on)
  <2>1. h.answer.error = "panic" /\ t.error = "ok" /\ t.place = Nowhere /\ Len(Nowhere) = 0
    BY <1>6 DEF Error, To, Nowhere
  <2>2. last = Error("panic") /\ on = No("panic")
    BY <1>3, <1>4, <1>6, <2>1 DEF Onwards
  <2> QED BY <2>2, Matches
<1>7. ASSUME h.in_root = before, NEW x, Reaches(h.answer, t, x) PROVE Match(last, on)
  <2> DEFINE place == PlaceIn(x)
             p == ParentOf(x)
             l == Len(place)
  <2>1. /\ x \in Mods /\ t = To(place) /\ h.answer.error = "ok" /\ h.answer.module = x
        /\ t.error = "ok" /\ t.place = place
    BY <1>7 DEF Reaches, Found, To
  <2>2. /\ place \in Seq(Names) /\ place # Nowhere /\ t # To(Nowhere)
        /\ p = NoModule => l = 1
        /\ p # NoModule => p \in Mods /\ l > 1 /\ Front(place) = PlaceIn(p)
    BY <2>1, PlaceShape DEF To
  <2>3. l \in Nat
    BY <2>2, LenProperties
  <2> HIDE DEF l
  <2>4. l > 1 => ~(l = 1)
    BY <2>3
  <2>5. ~(n < n)
    BY <1>1
  <2> HIDE DEF place, p
  <2>6. CASE name = "super" /\ p = NoModule
    <3>1. last = Found(NoModule)
      BY <1>4, <2>1, <2>6 DEF p
    <3>2. l = 1 /\ ~(l > 1)
      BY <2>2, <2>6
    <3>3. on = To(Nowhere)
      BY <1>3, <2>1, <2>2, <2>5, <2>6, <3>2 DEF Onwards, name, l, n
    <3> QED BY <3>1, <3>3, Matches
  <2>7. CASE name = "super" /\ p # NoModule
    <3>1. last = Found(p) /\ p \in Mods
      BY <1>4, <2>1, <2>2, <2>7 DEF p
    <3>2. l > 1 /\ ~(l = 1) /\ Front(place) = PlaceIn(p)
      BY <2>2, <2>4, <2>7
    <3>3. on = To(PlaceIn(p))
      BY <1>3, <2>1, <2>2, <2>7, <3>2 DEF Onwards, name, l
    <3> QED BY <3>1, <3>3, Matches
  <2>8. CASE name # "super"
    <3>1. last = found_module(origin, x, name, before, aliased)
      BY <1>4, <1>7, <2>1, <2>8
    <3>2. on = Enter(program, known, place, name, before)
      BY <1>3, <2>1, <2>2, <2>8 DEF Onwards, name, before
    <3>3. Match(found_module(origin, x, name, before, aliased), Enter(program, known, PlaceIn(x), name, before))
      BY <1>a, <2>1, NameMatches
    <3> QED BY <3>1, <3>2, <3>3 DEF place
  <2> QED BY <2>6, <2>7, <2>8
<1>8. Match(last, on)
  BY <1>2, <1>5, <1>6, <1>7 DEF HereMatch
<1> QED BY <1>8 DEF last, on

\* What the paths of aliases lead to is what they mean: the calls for them, from the
\* last depth up, and the rounds.
LEMMA AliasesAligned ==
  ASSUME Settled
  PROVE  Aligned(resolve_alias[1], Known(program, Limit - 1))
<1> DEFINE n == Limit - 1
<1>1. Limit \in Nat /\ n \in Nat
  BY LimitAssumption DEF Limit
<1>2. PICK f : Rounds(f, program, n)
  BY <1>1, KnownIs
<1>3. Mods \subseteq Nat /\ \A x \in Mods : PlaceIn(x) \in Seq(Names)
  BY SettledTyped, Parents, PlaceShape
<1>4. ASSUME NEW d \in 0..Limit, NEW o \in Mods, NEW path \in Seq(Names)
      PROVE  resolve_alias[d][o][path] = resolve_path(o, path, TRUE, d, resolve_alias[d + 1])
  <2> DEFINE x == resolve_alias[d + 1]
             g == [p \in Seq(Names) |-> resolve_path(o, p, TRUE, d, x)]
  <2>1. o \in Nat /\ resolve_alias[d] = Called(d, x)
    BY <1>3, Resolves
  <2> HIDE DEF x
  <2>2. Called(d, x)[o] = g
    BY <2>1 DEF Called
  <2>3. g[path] = resolve_path(o, path, TRUE, d, x)
    OBVIOUS
  <2> QED BY <2>1, <2>2, <2>3 DEF x
<1> DEFINE T == { k \in 0..n : Aligned(resolve_alias[Limit - k], f[k]) }
<1>5. 0 \in T
  <2> SUFFICES ASSUME NEW x \in Mods, NEW path \in Seq(Names), path # <<>>
               PROVE  Match(resolve_alias[Limit][x][path], f[0][PlaceIn(x)][path])
    BY <1>1 DEF Aligned
  <2>1. TooDeep(Limit) /\ Limit \in 0..Limit
    BY <1>1 DEF TooDeep, Limit
  <2>2. resolve_alias[Limit][x][path] = Error("recursion_limit")
    BY <1>4, <2>1 DEF resolve_path
  <2>3. f[0][PlaceIn(x)][path] = No("recursion_limit")
    BY <1>2, <1>3 DEF Rounds, NothingKnown
  <2> QED BY <2>2, <2>3, Matches
<1>6. ASSUME NEW k \in 1..n, k - 1 \in T
      PROVE  k \in T
  <2> DEFINE d == Limit - k
             aliased == resolve_alias[d + 1]
             known == f[k - 1]
  <2>1. d \in 0..Limit /\ d + 1 = Limit - (k - 1) /\ k \in 0..n /\ ~TooDeep(d)
    BY <1>1 DEF TooDeep, Limit
  <2>2. Aligned(aliased, known)
    BY <1>6, <2>1
  <2>3. f[k] = Round(program, known)
    BY <1>2 DEF Rounds
  <2> HIDE DEF aliased, known, d
  <2>4. ASSUME NEW x \in Mods, NEW path \in Seq(Names), path # <<>>
        PROVE  Match(resolve_alias[d][x][path], f[k][PlaceIn(x)][path])
    <3>1. resolve_alias[d][x][path] = walk_path(x, path, TRUE, aliased)
      BY <1>4, <2>1 DEF resolve_path, aliased
    <3>2. f[k][PlaceIn(x)][path] = Along(program, known, PlaceIn(x), path)[Len(path)]
      BY <1>3, <2>3 DEF Round
    <3>3. Match(walk_path(x, path, TRUE, aliased), Along(program, known, PlaceIn(x), path)[Len(path)])
      BY <2>2, <2>4, WalkMatches
    <3> QED BY <3>1, <3>2, <3>3
  <2>5. Aligned(resolve_alias[d], f[k])
    BY <2>4 DEF Aligned
  <2> QED BY <2>1, <2>5 DEF d
<1>7. n \in T
  <2>1. n \in 0..n
    BY <1>1
  <2> HIDE DEF T, n
  <2> QED BY <1>1, <1>5, <1>6, <2>1, UpTo
<1>8. Limit - n = 1 /\ f[n] = Known(program, n)
  BY <1>1, <1>2 DEF Rounds
<1> QED BY <1>7, <1>8

-----------------------------------------------------------------------------
(***************************************************************************)
(* The globals of a module are those its node declares.                    *)
(***************************************************************************)
ReadAs(global, g) == global = Global(g.global, g.public)

LEMMA ListKept ==
  ASSUME Settled, NEW x \in Mods
  PROVE  /\ TypeOK /\ x + 1 \in DOMAIN modules
         /\ globals[x + 1] = ListOf(modules[x + 1]) /\ NamesDiffer(ListOf(modules[x + 1]))
         /\ ListOf(modules[x + 1]) \in Seq(GlobalRecords)
<1>1. TypeOK /\ x + 1 \in DOMAIN modules /\ DOMAIN modules = 1..Count
  BY SettledTyped, ModsAre
<1>2. DOMAIN globals = 1..Count
  <2>1. PICK S : globals \in Seq(S)
    BY DEF Settled, Ready, PInv, IInv
  <2>2. Len(globals) = Count
    BY SettledTyped DEF GInv, GlobalsFit
  <2> QED BY <2>1, <2>2, LenProperties
<1>3. globals[x + 1] = ListOf(modules[x + 1]) /\ NamesDiffer(ListOf(modules[x + 1]))
  BY <1>1, <1>2, SettledTyped DEF GInv, GlobalsWhole
<1>4. ListOf(modules[x + 1]) \in Seq(GlobalRecords)
  BY <1>1, PrivateListed, PublicListed, ConcatProperties DEF ListOf
<1> QED BY <1>1, <1>3, <1>4

LEMMA GlobalsRead ==
  ASSUME Settled, NEW x \in Mods
  PROVE  /\ \A i \in DOMAIN globals[x + 1] :
               \E g \in GlobalsOf(SiteOf(x).node) : ReadAs(globals[x + 1][i], g)
         /\ \A g \in GlobalsOf(SiteOf(x).node) :
               \E i \in DOMAIN globals[x + 1] : ReadAs(globals[x + 1][i], g)
         /\ NamesDiffer(globals[x + 1])
<1> DEFINE module == modules[x + 1]
           list == ListOf(module)
           node == SiteOf(x).node
<1>1. /\ TypeOK /\ x + 1 \in DOMAIN modules /\ globals[x + 1] = list /\ NamesDiffer(list)
  BY ListKept
<1>2. /\ PrivateGlobals(module) \in Seq(GlobalRecords) /\ PublicGlobals(module) \in Seq(GlobalRecords)
      /\ Range(PrivateGlobals(module)) =
           IF ~module.is_file THEN {}
           ELSE { Global(d, FALSE) : d \in Range(reduced_declarations(files[module.file + 1].ast)) }
      /\ Range(PublicGlobals(module)) =
           { Global(module.items[i].decl, TRUE) :
               i \in { i \in DOMAIN module.items : ~module.items[i].is_submodule } }
  BY <1>1, PrivateListed, PublicListed
<1>3. Range(list) = Range(PrivateGlobals(module)) \cup Range(PublicGlobals(module))
  BY <1>2, RangeConcatenation DEF ListOf
<1>4. /\ node \in Nodes /\ (module.is_file <=> node.kind = "top")
      /\ module.is_file => files[module.file + 1].ast = node
      /\ \A g \in PublicDecls(node) : \E i \in DOMAIN module.items :
            ~module.items[i].is_submodule /\ module.items[i].decl = g
      /\ \A i \in DOMAIN module.items : ~module.items[i].is_submodule =>
            module.items[i].decl \in PublicDecls(node)
  BY AllHeld DEF Held, SubsHeld, DeclsHeld, FileHeld, get_module
<1>5. Range(PrivateGlobals(module)) = { Global(d, FALSE) : d \in PrivateDecls(node) }
  <2>1. CASE module.is_file
    <3>1. Range(reduced_declarations(files[module.file + 1].ast)) = PrivateDecls(node)
      BY <1>4, <2>1, ReducedDeclares DEF PrivateDecls
    <3> QED BY <1>2, <2>1, <3>1
  <2>2. CASE ~module.is_file
    <3>1. PrivateDecls(node) = {}
      BY <1>4, <2>2 DEF PrivateDecls
    <3> QED BY <1>2, <2>2, <3>1
  <2> QED BY <2>1, <2>2
<1> HIDE DEF list, node, module
<1>6. ASSUME NEW i \in DOMAIN list
      PROVE  \E g \in GlobalsOf(node) : ReadAs(list[i], g)
  <2>1. list[i] \in Range(list)
    BY DEF Range
  <2>2. CASE list[i] \in Range(PrivateGlobals(module))
    <3>1. PICK d \in PrivateDecls(node) : list[i] = Global(d, FALSE)
      BY <1>5, <2>2
    <3> DEFINE g == [global |-> d, public |-> FALSE]
    <3>2. g \in GlobalsOf(node)
      BY DEF GlobalsOf
    <3>3. ReadAs(list[i], g)
      BY <3>1 DEF ReadAs, Global
    <3> QED BY <3>2, <3>3
  <2>3. CASE list[i] \in Range(PublicGlobals(module))
    <3>1. PICK k \in DOMAIN module.items : ~module.items[k].is_submodule
                                           /\ list[i] = Global(module.items[k].decl, TRUE)
      BY <1>2, <2>3
    <3> DEFINE d == module.items[k].decl
               g == [global |-> d, public |-> TRUE]
    <3>2. d \in PublicDecls(node) /\ list[i] = Global(d, TRUE)
      BY <1>4, <3>1
    <3> HIDE DEF d
    <3>3. g \in GlobalsOf(node)
      BY <3>2 DEF GlobalsOf
    <3>4. ReadAs(list[i], g)
      BY <3>2 DEF ReadAs, Global
    <3> QED BY <3>3, <3>4
  <2> QED BY <1>3, <2>1, <2>2, <2>3
<1>7. ASSUME NEW g \in GlobalsOf(node)
      PROVE  \E i \in DOMAIN list : ReadAs(list[i], g)
  <2>1. CASE \E d \in PrivateDecls(node) : g = [global |-> d, public |-> FALSE]
    <3>1. PICK d \in PrivateDecls(node) : g = [global |-> d, public |-> FALSE]
      BY <2>1
    <3>2. Global(d, FALSE) \in Range(list)
      BY <1>3, <1>5
    <3>3. PICK i \in DOMAIN list : list[i] = Global(d, FALSE)
      BY <3>2 DEF Range
    <3>4. ReadAs(list[i], g)
      BY <3>1, <3>3 DEF ReadAs, Global
    <3> QED BY <3>4
  <2>2. CASE \E d \in PublicDecls(node) : g = [global |-> d, public |-> TRUE]
    <3>1. PICK d \in PublicDecls(node) : g = [global |-> d, public |-> TRUE]
      BY <2>2
    <3>2. PICK k \in DOMAIN module.items : ~module.items[k].is_submodule /\ module.items[k].decl = d
      BY <1>4
    <3>3. Global(d, TRUE) \in Range(list)
      BY <1>2, <1>3, <3>2
    <3>4. PICK i \in DOMAIN list : list[i] = Global(d, TRUE)
      BY <3>3 DEF Range
    <3>5. ReadAs(list[i], g)
      BY <3>1, <3>4 DEF ReadAs, Global
    <3> QED BY <3>5
  <2> QED BY <2>1, <2>2 DEF GlobalsOf
<1> QED BY <1>1, <1>6, <1>7 DEF list, node

\* The global of a module for a name.
LEMMA GlobalNamed ==
  ASSUME Settled, NEW x \in Mods, NEW name
  PROVE  LET named == { g \in GlobalsOf(SiteOf(x).node) : g.global.name = name }
         IN /\ Named(x, name) = {} <=> named = {}
            /\ Named(x, name) # {} =>
                 /\ globals[x + 1][Min(Named(x, name))].is_public <=> \E g \in named : g.public
                 /\ \A g \in named : ReadAs(globals[x + 1][Min(Named(x, name))], g)
<1> DEFINE list == globals[x + 1]
           node == SiteOf(x).node
           named == { g \in GlobalsOf(node) : g.global.name = name }
           I == Named(x, name)
<1>0. \A global, g : ReadAs(global, g) => global.name = g.global.name /\ global.is_public = g.public
  BY DEF ReadAs, Global
<1>1. /\ \A i \in DOMAIN list : \E g \in GlobalsOf(node) : ReadAs(list[i], g)
      /\ \A g \in GlobalsOf(node) : \E i \in DOMAIN list : ReadAs(list[i], g)
      /\ \A i, j \in DOMAIN list : list[i].name = list[j].name => i = j
  BY GlobalsRead DEF NamesDiffer
<1>2. I = { i \in DOMAIN list : list[i].name = name }
  BY DEF Named
<1> HIDE DEF list, node, I
<1>3. I = {} <=> named = {}
  <2>1. ASSUME NEW i \in I PROVE \E g : g \in named
    BY <1>0, <1>1, <1>2, <2>1
  <2>2. ASSUME NEW g \in named PROVE \E i : i \in I
    BY <1>0, <1>1, <1>2, <2>2
  <2> QED BY <2>1, <2>2
<1>4. ASSUME I # {}
      PROVE  /\ list[Min(I)].is_public <=> \E g \in named : g.public
             /\ \A g \in named : ReadAs(list[Min(I)], g)
  <2>1. PICK i \in I : TRUE
    BY <1>4
  <2>2. I = {i}
    BY <1>1, <1>2
  <2>3. Min(I) = i
    <3>1. list \in Seq(GlobalRecords)
      BY ListKept DEF list
    <3>2. I \subseteq Nat
      BY <1>2, <3>1, LenProperties
    <3>3. Min(I) \in I
      BY <1>4, <3>2, Least
    <3> QED BY <2>2, <3>3
  <2>4. ASSUME NEW g \in named PROVE ReadAs(list[i], g)
    <3>1. PICK j \in DOMAIN list : ReadAs(list[j], g)
      BY <1>1, <2>4
    <3>2. j = i
      BY <1>0, <1>1, <1>2, <2>4, <3>1, <2>2
    <3> QED BY <3>1, <3>2
  <2>5. \E g : g \in named
    BY <1>3, <1>4
  <2> HIDE DEF named
  <2>6. list[i].is_public <=> \E g \in named : g.public
    BY <1>0, <2>4, <2>5
  <2> QED BY <2>3, <2>4, <2>6
<1> QED BY <1>3, <1>4 DEF list, node, I

\* What is private is for the module and those directly below it.
LEMMA SearchPrivate ==
  ASSUME Settled, NEW m \in Mods, NEW x \in Mods
  PROVE  search_private(m, x) <=> PlaceIn(x) = PlaceIn(m) \/ PlaceIn(x) = Front(PlaceIn(m))
<1>1. x = m <=> PlaceIn(x) = PlaceIn(m)
  BY PlacesDiffer
<1>2. CASE ParentOf(m) = NoModule
  <2>1. Front(PlaceIn(m)) = Nowhere /\ PlaceIn(x) # Nowhere
    BY <1>2, PlaceShape
  <2>2. x # NoModule
    BY SettledTyped, Parents
  <2> QED BY <1>1, <1>2, <2>1, <2>2 DEF search_private, ParentOf
<1>3. CASE ParentOf(m) # NoModule
  <2>1. Front(PlaceIn(m)) = PlaceIn(ParentOf(m)) /\ ParentOf(m) \in Mods
    BY <1>3, PlaceShape
  <2>2. x = ParentOf(m) <=> PlaceIn(x) = PlaceIn(ParentOf(m))
    BY <2>1, PlacesDiffer
  <2> QED BY <1>1, <2>1, <2>2 DEF search_private, ParentOf
<1> QED BY <1>2, <1>3

\* The answer for a global of the module at a place.
LEMMA GlobalMatches ==
  ASSUME Settled, NEW m \in Mods, NEW x \in Mods, NEW name
  PROVE  Agree(modules, find_global_in(x, name, search_private(m, x)),
                        TheGlobal(program, PlaceIn(m), To(PlaceIn(x)), name))
<1> DEFINE to == To(PlaceIn(x))
           named == { g \in GlobalsOf(SiteAt(program, to.place).node) : g.global.name = name }
           I == Named(x, name)
           may == search_private(m, x)
           public == globals[x + 1][Min(I)].is_public
           a == find_global_in(x, name, may)
           t == TheGlobal(program, PlaceIn(m), to, name)
<1>1. to.error = "ok" /\ to.place = PlaceIn(x) /\ to # To(Nowhere)
  <2>1. PlaceIn(x) # Nowhere
    BY PlaceShape
  <2> QED BY <2>1 DEF To
<1>2. /\ I = {} <=> named = {}
      /\ I # {} => (public <=> \E g \in named : g.public)
  <2>1. SiteAt(program, to.place) = SiteOf(x)
    BY <1>1 DEF SiteOf, PlaceIn
  <2> QED BY <2>1, GlobalNamed
<1>3. may <=> PlaceIn(x) = PlaceIn(m) \/ PlaceIn(x) = Front(PlaceIn(m))
  BY SearchPrivate
<1>4. /\ I = {} => a = Error("doesnt_exist")
      /\ I # {} /\ ~may /\ ~public => a = Error("private")
      /\ I # {} /\ (may \/ public) => a = Found(x)
  BY DEF find_global_in
<1>5. /\ named = {} => t = No("doesnt_exist")
      /\ named # {} /\ (\A g \in named : ~g.public) /\ to.place # PlaceIn(m) /\ to.place # Front(PlaceIn(m))
           => t = No("private")
      /\ named # {} /\ ~((\A g \in named : ~g.public) /\ to.place # PlaceIn(m) /\ to.place # Front(PlaceIn(m)))
           => t = to
  <2> HIDE DEF to
  <2> QED BY <1>1 DEF TheGlobal
<1> HIDE DEF to, named, I, may, public, a, t
<1>6. CASE named = {}
  <2>1. a = Error("doesnt_exist") /\ t = No("doesnt_exist")
    BY <1>2, <1>4, <1>5, <1>6
  <2>2. Agree(modules, Error("doesnt_exist"), No("doesnt_exist"))
    BY DEF Agree, Error, No
  <2> QED BY <2>1, <2>2 DEF a, t, may, to
<1>7. CASE named # {} /\ ~may /\ (\A g \in named : ~g.public)
  <2>1. a = Error("private") /\ t = No("private")
    BY <1>1, <1>2, <1>3, <1>4, <1>5, <1>7
  <2>2. Agree(modules, Error("private"), No("private"))
    BY DEF Agree, Error, No
  <2> QED BY <2>1, <2>2 DEF a, t, may, to
<1>8. CASE named # {} /\ (may \/ \E g \in named : g.public)
  <2>1. a = Found(x) /\ t = to
    BY <1>1, <1>2, <1>3, <1>4, <1>5, <1>8
  <2>2. Agree(modules, Found(x), to)
    BY DEF Agree, Found, to, To, PlaceIn
  <2> QED BY <2>1, <2>2 DEF a, t, may, to
<1> QED BY <1>6, <1>7, <1>8

\* A path leads to the global of a module: the table has the module and the
\* module the global.
GlobalIn(m, path, x) ==
  /\ x \in Mods /\ get_module_index_for(m, path) = Found(x)
  /\ resolve_global_path(m, path) = Found(x) /\ Named(x, Last(path)) # {}

LEMMA PathMeant ==
  ASSUME Settled, NEW m \in Mods, NEW path \in Seq(Names), path # <<>>
  PROVE  LET answer == resolve_global_path(m, path)
         IN /\ Agree(modules, answer, Meant(program, Known(program, Limit - 1), PlaceIn(m), path))
            /\ answer.error = "ok" => \E x : GlobalIn(m, path, x)
<1> DEFINE known == Known(program, Limit - 1)
           n == Len(path)
           name == path[n]
           h == reached(m, path, resolve_alias[1])[n - 1]
           t == Along(program, known, PlaceIn(m), path)[n - 1]
           s == Supers(path, n - 1)
           answer == resolve_global_path(m, path)
           meant == Meant(program, known, PlaceIn(m), path)
<1>3. HereMatch(h, t, s)
  <2>1. Aligned(resolve_alias[1], known)
    BY AliasesAligned
  <2>2. n - 1 \in 0..(n - 1)
    BY ReachedIs
  <2> HIDE DEF known
  <2> QED BY <2>1, <2>2, PathMatches
<1>2. get_module_index_for(m, path) = h.answer
  <2>1. ~TooDeep(0)
    BY LimitAssumption DEF TooDeep
  <2> QED BY <2>1 DEF get_module_index_for, resolve_path, walk_path, last_module
<1>4. answer = IF h.answer.error # "ok" THEN h.answer
               ELSE find_global_in(h.answer.module, name, search_private(m, h.answer.module))
  BY <1>2 DEF resolve_global_path, global_at
<1>5. meant = TheGlobal(program, PlaceIn(m), t, name)
  BY DEF Meant, Last
<1> HIDE DEF h, t, s, answer, meant, name, known
<1>6. ASSUME NEW e, Failed(h.answer, t, e) PROVE Agree(modules, answer, meant)
  <2>1. h.answer.error = e /\ t.error = e /\ e # "ok"
    BY <1>6 DEF Failed, Error, No
  <2>2. answer = h.answer /\ meant = t
    BY <1>4, <1>5, <2>1 DEF TheGlobal, To
  <2> QED BY <2>1, <2>2 DEF Agree
<1>7. ASSUME t = To(Nowhere), h.answer = Error("panic") PROVE Agree(modules, answer, meant)
  <2>1. h.answer.error = "panic" /\ t.error = "ok"
    BY <1>7 DEF Error, To
  <2>2. answer.error = "panic" /\ meant = No("panic")
    BY <1>4, <1>5, <1>7, <2>1 DEF TheGlobal
  <2> QED BY <2>2 DEF Agree, No
<1>8. ASSUME NEW x, Reaches(h.answer, t, x) PROVE Agree(modules, answer, meant)
  <2>1. x \in Mods /\ t = To(PlaceIn(x)) /\ h.answer.error = "ok" /\ h.answer.module = x
    BY <1>8 DEF Reaches, Found
  <2>2. /\ answer = find_global_in(x, name, search_private(m, x))
        /\ meant = TheGlobal(program, PlaceIn(m), To(PlaceIn(x)), name)
    BY <1>4, <1>5, <2>1
  <2> QED BY <2>1, <2>2, GlobalMatches
<1>9. Agree(modules, answer, meant)
  BY <1>3, <1>6, <1>7, <1>8 DEF HereMatch
<1>10. ASSUME answer.error = "ok"
       PROVE  \E x : GlobalIn(m, path, x)
  <2>1. h.answer.error = "ok"
    BY <1>4, <1>10
  <2>2. \A e : ~Failed(h.answer, t, e) /\ h.answer # Error("panic")
    BY <2>1 DEF Failed, Error
  <2>3. PICK x : Reaches(h.answer, t, x)
    BY <1>3, <2>2 DEF HereMatch
  <2>4. x \in Mods /\ h.answer = Found(x) /\ h.answer.module = x
    BY <2>3 DEF Reaches, Found
  <2>5. answer = find_global_in(x, name, search_private(m, x))
    BY <1>4, <2>1, <2>4
  <2>6. answer = Found(x) /\ Named(x, name) # {}
    BY <1>10, <2>5 DEF find_global_in, Error
  <2>7. name = Last(path)
    BY DEF name, Last
  <2> QED BY <1>2, <2>4, <2>6, <2>7 DEF GlobalIn, answer
<1> QED BY <1>9, <1>10 DEF answer, meant, known

LEMMA PathsImplied ==
  ASSUME SInv, GInv
  PROVE  PathsAgree
<1> SUFFICES ASSUME phase = "resolved", errors = <<>>, Distinct, Count <= NoModule,
                    NEW m \in 0..(Count - 1), NEW path \in Queries
             PROVE  Agree(modules, resolve_global_path(m, path),
                          Meant(program, Known(program, PATH_RESOLUTION_RECURSION_LIMIT - 1),
                                PlaceOf(modules, m), path))
  BY DEF PathsAgree
<1>1. Settled /\ m \in Mods
  BY DEF Settled, SInv, Ready, Good, Mods
<1>2. path \in Seq(Names) /\ path # <<>>
  BY QueriesAssumption
<1> QED BY <1>1, <1>2, PathMeant DEF Limit, PlaceIn

(***************************************************************************)
(* For every program, every module and every path: resolve_global_path     *)
(* answers what the declarations of the program say that the path means,   *)
(* the module it leads to or the error (resolve_path, find_submodule_in,   *)
(* find_global_in, and the table and lists they read).                     *)
(***************************************************************************)
THEOREM PathsMeanWhatIsDeclared == RSpec => []PathsAgree
<1>1. RInit => SInv /\ GInv
  BY SInvInit, GInvInit DEF RInit
<1>2. SInv /\ GInv /\ [RNext]_rvars => SInv' /\ GInv'
  <2> SUFFICES ASSUME SInv, GInv, [RNext]_rvars PROVE SInv' /\ GInv'
    OBVIOUS
  <2>1. [Next]_vars
    BY DEF RNext, rvars, Refer, Dequeue
  <2> QED BY <2>1, SInvStep, GInvStep
<1>3. SInv /\ GInv => PathsAgree
  BY PathsImplied
<1> QED BY <1>1, <1>2, <1>3, PTL DEF RSpec

-----------------------------------------------------------------------------
(***************************************************************************)
(* References: each iteration of clear_remapping_queue follows what the    *)
(* program declares.                                                       *)
(***************************************************************************)
LEMMA DeclaredTyped ==
  ASSUME NEW node \in Nodes, NEW d \in DeclaredGlobals(node)
  PROVE  /\ d.name \in Names /\ d.path \in Seq(Names)
         /\ d.kind = "constructor alias" => d.path # <<>>
<1>1. node.declarations \in Seq(Decls) /\ node.uses \in Seq(Uses)
  BY NodeTyped
<1>2. ASSUME NEW e \in ToSet(node.declarations), d = [name |-> e.name, path |-> e.path, kind |-> e.kind]
      PROVE  /\ d.name \in Names /\ d.path \in Seq(Names)
             /\ d.kind = "constructor alias" => d.path # <<>>
  <2>1. PICK i \in DOMAIN node.declarations : e = node.declarations[i]
    BY DEF ToSet
  <2>2. e \in Decls
    BY <1>1, <2>1, ElementOfSeq, LenProperties
  <2>3. e.kind = "constructor alias" => e.path # <<>>
    BY <2>1, AliasesAssumption
  <2> QED BY <1>2, <2>2, <2>3 DEF Decls
<1>3. ASSUME NEW u \in ToSet(node.uses), d.name = u.name, d.path = Append(u.path, u.name)
      PROVE  d.name \in Names /\ d.path \in Seq(Names) /\ d.path # <<>>
  <2>1. PICK i \in DOMAIN node.uses : u = node.uses[i]
    BY DEF ToSet
  <2>2. u \in Uses
    BY <1>1, <2>1, ElementOfSeq, LenProperties
  <2>3. u.name \in Names /\ u.path \in Seq(Names)
    BY <2>2 DEF Uses
  <2>4. Append(u.path, u.name) \in Seq(Names) /\ Append(u.path, u.name) # <<>>
    BY <2>3, AppendProperties
  <2> QED BY <1>3, <2>3, <2>4
<1>4. \/ \E e \in ToSet(node.declarations) : d = [name |-> e.name, path |-> e.path, kind |-> e.kind]
      \/ \E u \in ToSet(node.uses) : d.name = u.name /\ d.path = Append(u.path, u.name)
  <2> DEFINE kind(u) == IF u.kind = "with" THEN "constructor alias" ELSE "path"
             own == { [name |-> e.name, path |-> e.path, kind |-> e.kind] : e \in ToSet(node.declarations) }
             used == { [name |-> u.name, path |-> Append(u.path, u.name), kind |-> kind(u)] :
                         u \in { u \in ToSet(node.uses) : u.kind # "mod" } }
  <2>1. DeclaredGlobals(node) = own \cup used
    BY DEF DeclaredGlobals
  <2> HIDE DEF kind
  <2> QED BY <2>1
<1> QED BY <1>2, <1>3, <1>4

LEMMA GlobalTyped ==
  ASSUME NEW node \in Nodes, NEW g \in GlobalsOf(node)
  PROVE  /\ g.global.name \in Names /\ g.global.path \in Seq(Names)
         /\ g.global.kind = "constructor alias" => g.global.path # <<>>
<1>1. g.global \in PublicDecls(node) \cup PrivateDecls(node)
  BY DEF GlobalsOf
<1>2. PICK from \in Nodes : g.global \in DeclaredGlobals(from)
  <2>1. \A self \in Selves(node) : self \in Nodes
    <3> SUFFICES ASSUME NEW self \in Selves(node) PROVE self \in Nodes
      OBVIOUS
    <3>1. PICK i \in DOMAIN node.submodules : self = node.submodules[i]
      BY DEF Selves, ToSet
    <3> QED BY <3>1, NodeTyped, ElementOfSeq, LenProperties
  <2>2. \/ g.global \in DeclaredGlobals(node)
        \/ \E self \in Selves(node) : g.global \in DeclaredGlobals(self)
    BY <1>1 DEF PublicDecls, PrivateDecls
  <2> QED BY <2>1, <2>2
<1> QED BY <1>2, DeclaredTyped

\* A single name is a path that ends in the module itself.
LEMMA AsPath ==
  ASSUME NEW m, NEW path \in Seq(Names), path # <<>>
  PROVE  resolve_reference(m, path) = resolve_global_path(m, path)
<1>1. CASE Len(path) = 1
  <2>1. ~TooDeep(0)
    BY LimitAssumption DEF TooDeep
  <2>2. get_module_index_for(m, path) = reached(m, path, resolve_alias[1])[0].answer
    BY <1>1, <2>1 DEF get_module_index_for, resolve_path, walk_path, last_module
  <2>3. reached(m, path, resolve_alias[1])[0] = [answer |-> Found(m), in_root |-> TRUE]
    BY ReachedIs DEF Reached
  <2>4. get_module_index_for(m, path) = Found(m)
    BY <2>2, <2>3
  <2>5. resolve_global_path(m, path) = find_global_in(m, path[1], search_private(m, m))
    BY <1>1, <2>4 DEF resolve_global_path, global_at, Found
  <2>6. search_private(m, m)
    BY DEF search_private
  <2> QED BY <1>1, <2>5, <2>6 DEF resolve_reference, resolve_global, find_global_in
<1>2. CASE Len(path) # 1
  BY <1>2 DEF resolve_reference
<1> QED BY <1>1, <1>2

\* What is read off the table for a path is what its declaration says.
ReadsAs(decl, declared) ==
  /\ decl.name = declared.name /\ decl.path = declared.path /\ decl.kind = declared.kind
  /\ decl.path \in Seq(Names)
  /\ decl.kind = "constructor alias" => decl.path # <<>>

LEMMA ReadsDeclared ==
  ASSUME Settled, NEW m \in Mods, NEW path \in Seq(Names), path # <<>>, NEW x, GlobalIn(m, path, x)
  PROVE  /\ find_global_decl(m, path).module = x /\ x \in Mods
         /\ ReadsAs(globals[x + 1][Min(Named(x, path[Len(path)]))],
                    GlobalAt(program, PlaceIn(x), Last(path)))
<1> DEFINE name == Last(path)
           named == { g \in GlobalsOf(SiteOf(x).node) : g.global.name = name }
           decl == globals[x + 1][Min(Named(x, name))]
           g0 == CHOOSE g \in GlobalsOf(SiteOf(x).node) : g.global.name = name
<1>1. path[Len(path)] = name
  BY DEF Last
<1>2. x \in Mods /\ Named(x, name) # {} /\ get_module_index_for(m, path) = Found(x)
  BY DEF GlobalIn
<1>3. find_global_decl(m, path).module = x
  <2> DEFINE yes == TRUE
  <2>1. find_global_in(x, name, yes) = Found(x)
    BY <1>2 DEF find_global_in
  <2>2. find_global_decl(m, path) =
          IF Found(x).error # "ok" THEN Found(x) ELSE find_global_in(Found(x).module, name, yes)
    BY <1>1, <1>2 DEF find_global_decl
  <2> HIDE DEF yes, name
  <2>3. find_global_decl(m, path) = Found(x)
    BY <2>1, <2>2 DEF Found
  <2> QED BY <2>3 DEF Found
<1>4. named # {} /\ \A g \in named : ReadAs(decl, g)
  BY <1>2, GlobalNamed
<1>5. g0 \in named
  BY <1>4
<1>6. decl.name = g0.global.name /\ decl.path = g0.global.path /\ decl.kind = g0.global.kind
  <2> HIDE DEF g0, decl
  <2> QED BY <1>4, <1>5 DEF ReadAs, Global
<1>7. g0 \in GlobalsOf(SiteOf(x).node) /\ SiteOf(x).node \in Nodes
  BY <1>2, <1>5, AllHeld DEF Held, SubsHeld, DeclsHeld, FileHeld
<1>8. GlobalAt(program, PlaceIn(x), name) = g0.global
  BY DEF GlobalAt, SiteOf, PlaceIn
<1> HIDE DEF g0, decl, name, named
<1>9. /\ g0.global.name \in Names /\ g0.global.path \in Seq(Names)
      /\ g0.global.kind = "constructor alias" => g0.global.path # <<>>
  BY <1>7, GlobalTyped
<1>10. ReadsAs(decl, g0.global)
  BY <1>6, <1>9 DEF ReadsAs
<1> QED BY <1>1, <1>2, <1>3, <1>8, <1>10 DEF decl, name

\* No step but those of references is left when a program is resolved.
LEMMA ResolvedStays == Next => phase # "resolved"
<1>1. Walk => phase \in {"main", "std", "work"}
  BY DEF Walk, SelfModule, RefuseSelf, RefuseFile, RefuseRedeclared, Submodule, Refused, Walking
<1>2. /\ CompileMain => phase = "start"
      /\ CompileStd => phase = "main"
      /\ StartWork => phase = "std"
  BY DEF CompileMain, CompileStd, StartWork
<1>3. /\ ResolveNode => phase = "work"
      /\ ResolveFile => phase = "work"
      /\ FileUnusable => phase = "start" \/ phase = "work"
      /\ TableComplete => phase = "work"
  BY DEF ResolveNode, ResolveFile, FileUnusable, TableComplete, Working
<1>4. ListGlobals \/ GlobalsListed => phase = "globals"
  BY DEF ListGlobals, GlobalsListed
<1>5. Resolve => phase \in {"start", "main", "std", "work"}
  BY <1>2, <1>3 DEF Resolve
<1> QED BY <1>1, <1>4, <1>5 DEF Next

\* A reference that waits is one from a module of the table.
ReferenceHeld ==
  /\ reference.state # "none" => phase = "resolved"
  /\ reference.state = "queued" =>
       reference = [state |-> "queued", module |-> reference.module, path |-> reference.path]
  /\ reference.state = "queued" /\ errors = <<>> /\ Distinct /\ Count <= NoModule =>
       reference.module \in Mods /\ reference.path \in Seq(Names) /\ reference.path # <<>>

LEMMA ReferInv ==
  ASSUME SInv, GInv, Refer
  PROVE  ReferenceHeld'
<1>0. PICK m \in Mods : \E i \in DOMAIN globals[m + 1] :
        reference' = [state |-> "queued", module |-> m, path |-> <<globals[m + 1][i].name>>]
  BY DEF Refer, Mods
<1>1. PICK i \in DOMAIN globals[m + 1] :
        reference' = [state |-> "queued", module |-> m, path |-> <<globals[m + 1][i].name>>]
  BY <1>0
<1>2. phase' = "resolved" /\ phase = "resolved" /\ errors' = errors /\ Mods' = Mods
      /\ (Distinct' <=> Distinct) /\ Count' = Count
  BY DEF Refer, vars, Distinct, Count, Mods
<1>3. ASSUME errors = <<>>, Distinct, Count <= NoModule
      PROVE  globals[m + 1][i].name \in Names
  <2>1. Settled
    BY <1>2, <1>3 DEF Settled, SInv, Ready, Good
  <2>2. PICK g \in GlobalsOf(SiteOf(m).node) : ReadAs(globals[m + 1][i], g)
    BY <2>1, GlobalsRead
  <2>3. SiteOf(m).node \in Nodes
    BY <2>1, AllHeld DEF Held, SubsHeld, DeclsHeld, FileHeld
  <2>4. g.global.name \in Names
    BY <2>2, <2>3, GlobalTyped
  <2> QED BY <2>2, <2>4 DEF ReadAs, Global
<1>4. reference'.state = "queued" /\ reference'.module = m /\ reference'.path = <<globals[m + 1][i].name>>
      /\ reference' = [state |-> "queued", module |-> reference'.module, path |-> reference'.path]
  BY <1>1
<1>5. NoModule' = NoModule
  BY DEF NoModule
<1>6. ASSUME errors' = <<>>, Distinct', Count' <= NoModule'
      PROVE  reference'.path \in Seq(Names) /\ reference'.path # <<>>
  <2>1. globals[m + 1][i].name \in Names
    BY <1>2, <1>3, <1>5, <1>6
  <2> QED BY <1>4, <2>1
<1> QED BY <1>2, <1>4, <1>6 DEF ReferenceHeld

LEMMA DequeueFollows ==
  ASSUME SInv, GInv, ReferenceHeld, Dequeue
  PROVE  Follows /\ ReferenceHeld'
<1> DEFINE m == reference.module
           path == reference.path
           result == resolve_reference(m, path)
           found == find_global_decl(m, path).module
           decl == globals[found + 1][Min(Named(found, path[Len(path)]))]
           isAlias == decl.kind = "constructor alias"
           Sound == errors = <<>> /\ Distinct /\ Count <= NoModule
           meant == Meant(program, Known(program, Limit - 1), PlaceIn(m), path)
           declared == GlobalAt(program, meant.place, Last(path))
           meansAlias == declared.kind = "constructor alias"
<1>1. /\ reference.state = "queued" /\ phase = "resolved"
      /\ reference = [state |-> "queued", module |-> m, path |-> path]
      /\ Sound => m \in Mods /\ path \in Seq(Names) /\ path # <<>>
  BY DEF Dequeue, ReferenceHeld
<1>2. UNCHANGED vars
  BY DEF Dequeue
<1>3. /\ result.error # "ok" => reference' = [reference EXCEPT !.state = "error"]
      /\ result.error = "ok" /\ isAlias =>
           reference' = [reference EXCEPT !.module = searching_from(found), !.path = decl.path]
      /\ result.error = "ok" /\ ~isAlias =>
           reference' = [state |-> "compiled", module |-> found, path |-> <<decl.name>>]
  BY DEF Dequeue
<1> HIDE DEF isAlias, decl, found, result
<1> HIDE DEF m, path
<1>4. /\ result.error # "ok" => reference'.state = "error"
      /\ result.error = "ok" /\ isAlias =>
           reference' = [state |-> "queued", module |-> found, path |-> decl.path]
      /\ result.error = "ok" /\ ~isAlias =>
           reference' = [state |-> "compiled", module |-> found, path |-> <<decl.name>>]
  <2>1. reference = [state |-> "queued", module |-> m, path |-> path]
    BY <1>1
  <2>2. [reference EXCEPT !.state = "error"].state = "error"
    BY <2>1
  <2>3. [reference EXCEPT !.module = searching_from(found), !.path = decl.path] =
          [state |-> "queued", module |-> found, path |-> decl.path]
    <3> DEFINE p2 == decl.path
               q == [reference EXCEPT !.module = found, !.path = p2]
               Waiting == [state : {"queued"}, module : {m, found}, path : {path, p2}]
    <3> HIDE DEF p2
    <3>1. reference \in Waiting
      BY ONLY <2>1
    <3>2. q \in Waiting /\ q.module = found /\ q.path = p2
      BY ONLY <3>1
    <3> HIDE DEF q
    <3>3. q = [state |-> "queued", module |-> found, path |-> p2]
      BY ONLY <3>2
    <3> QED BY <3>3 DEF q, searching_from, p2
  <2> QED BY <1>3, <2>2, <2>3
<1> HIDE DEF meant, meansAlias, declared
<1>5. ASSUME Sound
      PROVE  /\ meant.error # "ok" => result.error # "ok"
             /\ meant.error = "ok" => result.error = "ok"
             /\ result.error = "ok" =>
                  /\ PlaceIn(found) = meant.place /\ found \in Mods
                  /\ decl.name = declared.name /\ decl.path = declared.path /\ decl.path \in Seq(Names)
                  /\ isAlias <=> meansAlias
                  /\ isAlias => decl.path # <<>>
  <2>1. Settled
    BY <1>1, <1>5 DEF Settled, SInv, Ready, Good
  <2>2. m \in Mods /\ path \in Seq(Names) /\ path # <<>>
    BY <1>1, <1>5 DEF m, path
  <2>3. result = resolve_global_path(m, path)
    BY <2>2, AsPath DEF result
  <2>4. Agree(modules, result, meant) /\ (result.error = "ok" => \E x : GlobalIn(m, path, x))
    BY <2>1, <2>2, <2>3, PathMeant DEF meant
  <2>5. /\ meant.error # "ok" => result.error # "ok"
        /\ meant.error = "ok" => result.error = "ok" /\ PlaceIn(result.module) = meant.place
    BY <2>4 DEF Agree, PlaceIn
  <2>6. ASSUME result.error = "ok"
        PROVE  /\ PlaceIn(found) = meant.place /\ found \in Mods
               /\ ReadsAs(decl, declared)
    <3>1. PICK x : GlobalIn(m, path, x)
      BY <2>4, <2>6
    <3>2. result.module = x
      BY <2>3, <3>1 DEF GlobalIn, Found
    <3>3. PlaceIn(x) = meant.place /\ meant.error = "ok"
      BY <2>5, <2>6, <3>2
    <3>4. /\ found = x /\ x \in Mods
          /\ ReadsAs(globals[x + 1][Min(Named(x, path[Len(path)]))],
                     GlobalAt(program, PlaceIn(x), Last(path)))
      BY <2>1, <2>2, <3>1, ReadsDeclared DEF found
    <3> QED BY <3>3, <3>4 DEF decl, declared
  <2>7. ReadsAs(decl, declared) =>
          /\ decl.name = declared.name /\ decl.path = declared.path /\ decl.path \in Seq(Names)
          /\ isAlias <=> meansAlias
          /\ isAlias => decl.path # <<>>
    BY DEF ReadsAs, isAlias, meansAlias
  <2> QED BY <2>5, <2>6, <2>7
<1>6. Follows
  <2>1. ASSUME Sound
        PROVE  /\ meant.error # "ok" => reference'.state = "error"
               /\ meant.error = "ok" => PlaceIn(reference'.module) = meant.place
               /\ meant.error = "ok" /\ meansAlias =>
                    reference'.state = "queued" /\ reference'.path = declared.path
               /\ meant.error = "ok" /\ ~meansAlias =>
                    reference'.state = "compiled" /\ reference'.path = <<declared.name>>
    BY <1>4, <1>5, <2>1
  <2> QED BY <2>1 DEF Follows, meant, declared, meansAlias, m, path, Limit, PlaceIn
<1>7. ReferenceHeld'
  <2>1. phase' = "resolved" /\ Mods' = Mods /\ (Sound' <=> Sound)
    BY <1>1, <1>2 DEF vars, Mods, Count, Distinct, NoModule
  <2>2. reference'.state = "queued" => result.error = "ok" /\ isAlias
    BY <1>4
  <2>3. reference'.state = "queued" /\ Sound =>
          reference'.module \in Mods /\ reference'.path \in Seq(Names) /\ reference'.path # <<>>
    BY <1>4, <1>5, <2>2
  <2> QED BY <1>4, <2>1, <2>2, <2>3 DEF ReferenceHeld
<1> QED BY <1>6, <1>7

LEMMA ReferenceStep ==
  ASSUME SInv, GInv, ReferenceHeld, [RNext]_rvars
  PROVE  [Follows]_rvars /\ ReferenceHeld'
<1>1. CASE UNCHANGED rvars
  BY <1>1 DEF rvars, vars, ReferenceHeld, Mods, Count, Distinct, NoModule
<1>2. CASE Next /\ UNCHANGED reference
  <2>1. phase # "resolved"
    BY <1>2, ResolvedStays
  <2>2. reference.state = "none"
    BY <2>1 DEF ReferenceHeld
  <2> QED BY <1>2, <2>2 DEF ReferenceHeld, Follows
<1>3. CASE Refer
  <2>1. reference.state # "queued"
    BY <1>3 DEF Refer, NoReference
  <2> QED BY <1>3, <2>1, ReferInv DEF Follows
<1>4. CASE Dequeue
  BY <1>4, DequeueFollows
<1> QED BY <1>1, <1>2, <1>3, <1>4 DEF RNext

(***************************************************************************)
(* For every program: an iteration of clear_remapping_queue puts a         *)
(* reference back exactly as one to the path its alias is declared with,   *)
(* in the module that declares it, and compiles or refuses it exactly when *)
(* the declarations say so (resolve_reference, find_global_decl and        *)
(* searching_from_module).                                                 *)
(***************************************************************************)
THEOREM ReferencesFollowDeclarations == RSpec => FollowsDeclarations
<1>1. RInit => SInv /\ GInv /\ ReferenceHeld
  BY SInvInit, GInvInit DEF RInit, ReferenceHeld, NoReference
<1>2. SInv /\ GInv /\ ReferenceHeld /\ [RNext]_rvars => SInv' /\ GInv' /\ ReferenceHeld'
  <2> SUFFICES ASSUME SInv, GInv, ReferenceHeld, [RNext]_rvars PROVE SInv' /\ GInv' /\ ReferenceHeld'
    OBVIOUS
  <2>1. [Next]_vars
    BY DEF RNext, rvars, Refer, Dequeue
  <2> QED BY <2>1, SInvStep, GInvStep, ReferenceStep
<1>3. SInv /\ GInv /\ ReferenceHeld /\ [RNext]_rvars => [Follows]_rvars
  BY ReferenceStep
<1> QED BY <1>1, <1>2, <1>3, PTL DEF RSpec, FollowsDeclarations

-----------------------------------------------------------------------------
(***************************************************************************)
(* References that lead to references: each that follows the declarations  *)
(* stands for what the next one stands for.                                *)
(***************************************************************************)
NothingStands == [place \in Seq(Names) |-> [path \in Seq(Names) |-> No("circle")]]
Longer(prog, known, before) ==
  [place \in Seq(Names) |-> [path \in Seq(Names) |-> Through(prog, known, before, place, path)]]
Lengths(f, prog, known) ==
  /\ f[0] = NothingStands
  /\ \A k \in 1..FollowLimit : f[k] = Longer(prog, known, f[k - 1])

LEMMA BehindIs ==
  ASSUME NEW prog, NEW known
  PROVE  Lengths(Behind(prog, known), prog, known)
<1> DEFINE n == FollowLimit
           At_(f, k) == IF k = 0 THEN NothingStands ELSE Longer(prog, known, f[k - 1])
           Up(f, b) == f = [k \in 0..b |-> At_(f, k)]
           T == { b \in 0..n : \E f : Up(f, b) }
           Is(f) == f = [k \in 0..n |->
                           [place \in Seq(Names) |-> [path \in Seq(Names) |->
                              IF k = 0 THEN No("circle")
                              ELSE Through(prog, known, f[k - 1], place, path)]]]
           behind == CHOOSE f : Is(f)
<1>1. n \in Nat
  BY FollowLimitAssumption
<1> HIDE DEF n
<1>2. 0 \in T
  <2> DEFINE f == [k \in 0..0 |-> NothingStands]
  <2>1. f = [k \in 0..0 |-> At_(f, k)]
    OBVIOUS
  <2>2. Up(f, 0)
    BY <2>1
  <2>3. 0 \in 0..n
    BY <1>1
  <2> QED BY <2>2, <2>3
<1>3. ASSUME NEW b \in 1..n, b - 1 \in T
      PROVE  b \in T
  <2>1. PICK f : Up(f, b - 1)
    BY <1>3
  <2> DEFINE g == [k \in 0..b |-> IF k = b THEN At_(f, b) ELSE f[k]]
  <2>2. \A k \in 0..(b - 1) : f[k] = At_(f, k)
    BY <2>1
  <2>3. \A k \in 0..b : g[k] = IF k = b THEN At_(f, b) ELSE f[k]
    OBVIOUS
  <2>4. g = [k \in 0..b |-> g[k]] /\ b \in 0..n
    OBVIOUS
  <2> HIDE DEF g
  <2>5. ASSUME NEW k \in 0..b
        PROVE  g[k] = At_(g, k)
    <3>1. k = 0 \/ (k - 1 \in 0..b /\ k - 1 # b)
      OBVIOUS
    <3>2. k = 0 \/ g[k - 1] = f[k - 1]
      BY <2>3, <3>1
    <3>3. At_(g, k) = At_(f, k)
      BY <3>2
    <3>4. CASE k = b
      BY <2>3, <3>3, <3>4
    <3>5. CASE k # b
      <4>1. k \in 0..(b - 1)
        BY <3>5
      <4> QED BY <2>2, <2>3, <3>3, <3>5, <4>1
    <3> QED BY <3>4, <3>5
  <2> HIDE DEF At_
  <2>6. [k \in 0..b |-> g[k]] = [k \in 0..b |-> At_(g, k)]
    BY <2>5
  <2>7. Up(g, b)
    BY <2>4, <2>6
  <2> QED BY <2>4, <2>7
<1>4. n \in T
  <2> HIDE DEF T
  <2> QED BY <1>1, <1>2, <1>3, UpTo
<1>5. \E f : Is(f)
  <2>1. PICK f : Up(f, n)
    BY <1>4
  <2> DEFINE entry(k) == [place \in Seq(Names) |-> [path \in Seq(Names) |->
                            IF k = 0 THEN No("circle")
                            ELSE Through(prog, known, f[k - 1], place, path)]]
  <2>2. \A k \in 0..n : entry(k) = At_(f, k)
    <3> SUFFICES ASSUME NEW k \in 0..n PROVE entry(k) = At_(f, k)
      OBVIOUS
    <3>1. CASE k = 0
      BY <3>1 DEF NothingStands
    <3>2. CASE k # 0
      BY <3>2 DEF Longer
    <3> QED BY <3>1, <3>2
  <2>3. f = [k \in 0..n |-> At_(f, k)]
    BY <2>1
  <2> HIDE DEF entry, At_
  <2>4. f = [k \in 0..n |-> entry(k)]
    BY <2>2, <2>3
  <2>5. Is(f)
    BY <2>4 DEF entry
  <2> QED BY <2>5
<1>6. Is(behind)
  BY <1>5, Zenon
<1>7. Behind(prog, known) = behind
  BY DEF Behind, n
<1> HIDE DEF behind
<1>8. behind[0] = NothingStands
  <2>1. 0 \in 0..n
    BY <1>1
  <2>2. behind[0] = [place \in Seq(Names) |-> [path \in Seq(Names) |->
                      IF 0 = 0 THEN No("circle")
                      ELSE Through(prog, known, behind[0 - 1], place, path)]]
    BY <1>6, <2>1
  <2> QED BY <2>2 DEF NothingStands
<1>9. ASSUME NEW k \in 1..n PROVE behind[k] = Longer(prog, known, behind[k - 1])
  <2>1. k \in 0..n /\ k # 0
    OBVIOUS
  <2>2. behind[k] = [place \in Seq(Names) |-> [path \in Seq(Names) |->
                      IF k = 0 THEN No("circle")
                      ELSE Through(prog, known, behind[k - 1], place, path)]]
    BY <1>6, <2>1
  <2> QED BY <2>1, <2>2 DEF Longer
<1> QED BY <1>7, <1>8, <1>9 DEF Lengths, n

LEMMA MeaningKept ==
  ASSUME SInv, GInv, ReferenceHeld, Follows
  PROVE  Follow
<1> DEFINE m == reference.module
           path == reference.path
           place == PlaceOf(modules, m)
           known == Known(program, PATH_RESOLUTION_RECURSION_LIMIT - 1)
           meant == Meant(program, known, place, path)
           declared == GlobalAt(program, meant.place, Last(path))
           isAlias == declared.kind = "constructor alias"
           behind == Behind(program, known)
           place2 == PlaceOf(modules, reference'.module)
           Waits == reference.state = "queued" /\ errors = <<>> /\ Distinct /\ Count <= NoModule
<1>1. Waits =>
        /\ meant.error # "ok" => reference'.state = "error"
        /\ meant.error = "ok" => place2 = meant.place
        /\ meant.error = "ok" /\ isAlias => reference'.state = "queued" /\ reference'.path = declared.path
        /\ meant.error = "ok" /\ ~isAlias => reference'.state = "compiled" /\ reference'.path = <<declared.name>>
  BY DEF Follows
<1>2. Waits => place \in Seq(Names) /\ path \in Seq(Names)
  <2> HIDE DEF place
  <2> SUFFICES ASSUME Waits PROVE place \in Seq(Names) /\ path \in Seq(Names)
    OBVIOUS
  <2>1. m \in Mods /\ path \in Seq(Names)
    BY DEF ReferenceHeld
  <2>2. place \in Seq(Names)
    BY <2>1, PlacesTyped DEF place, SInv, PInv, IInv
  <2> QED BY <2>1, <2>2
<1> DEFINE answer(k) == behind[k][place][path]
<1>3. ASSUME NEW k \in 1..FollowLimit, Waits
      PROVE  answer(k) = Through(program, known, behind[k - 1], place, path)
  <2>1. behind[k] = Longer(program, known, behind[k - 1])
    BY BehindIs DEF Lengths
  <2> QED BY <1>2, <1>3, <2>1 DEF Longer
<1>4. ASSUME NEW k \in 1..FollowLimit, Waits
      PROVE  /\ meant.error # "ok" => answer(k) = meant
             /\ meant.error = "ok" /\ ~isAlias => answer(k) = To(Append(meant.place, declared.name))
             /\ meant.error = "ok" /\ isAlias => answer(k) = behind[k - 1][meant.place][declared.path]
  <2> DEFINE ends == To(Append(meant.place, declared.name))
             on == behind[k - 1][meant.place][declared.path]
  <2> HIDE DEF answer, behind, known, place, path
  <2>1. answer(k) = CASE meant.error # "ok" -> meant
                      [] meant.error = "ok" /\ ~isAlias -> ends
                      [] OTHER -> on
    BY <1>3, <1>4 DEF Through
  <2> HIDE DEF meant, declared, isAlias, ends, on
  <2>2. /\ meant.error # "ok" => answer(k) = meant
        /\ meant.error = "ok" /\ ~isAlias => answer(k) = ends
        /\ meant.error = "ok" /\ isAlias => answer(k) = on
    BY <2>1
  <2> QED BY <2>2 DEF ends, on
<1> HIDE DEF m, path, place, known, meant, declared, isAlias, behind, place2, answer
<1>5. ASSUME NEW k \in 1..FollowLimit, Waits
      PROVE  /\ reference'.state = "error" => answer(k).error # "ok"
             /\ reference'.state = "compiled" => answer(k) = To(Append(place2, reference'.path[1]))
             /\ reference'.state = "queued" => behind[k - 1][place2][reference'.path] = answer(k)
  BY <1>1, <1>4, <1>5
<1> QED BY <1>5 DEF Follow, m, path, place, known, meant, declared, isAlias, behind, place2, answer

(***************************************************************************)
(* For every program: however many aliases of constructors are aliases of  *)
(* aliases, what clear_remapping_queue makes of a reference stands for     *)
(* what the reference did, and what it compiles is that constructor.       *)
(***************************************************************************)
THEOREM ReferencesKeepTheirMeaning == RSpec => FollowKeepsMeaning
<1>1. RInit => SInv /\ GInv /\ ReferenceHeld
  BY SInvInit, GInvInit DEF RInit, ReferenceHeld, NoReference
<1>2. SInv /\ GInv /\ ReferenceHeld /\ [RNext]_rvars => SInv' /\ GInv' /\ ReferenceHeld'
  <2> SUFFICES ASSUME SInv, GInv, ReferenceHeld, [RNext]_rvars PROVE SInv' /\ GInv' /\ ReferenceHeld'
    OBVIOUS
  <2>1. [Next]_vars
    BY DEF RNext, rvars, Refer, Dequeue
  <2> QED BY <2>1, SInvStep, GInvStep, ReferenceStep
<1>3. SInv /\ GInv /\ ReferenceHeld /\ [RNext]_rvars => [Follow]_rvars
  BY ReferenceStep, MeaningKept
<1> QED BY <1>1, <1>2, <1>3, PTL DEF RSpec, FollowKeepsMeaning

=============================================================================
