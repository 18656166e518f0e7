----------------------------- MODULE Soundness -----------------------------
(***************************************************************************)
(* Executing one instruction of code that obeys its layouts keeps what the *)
(* layouts say (GoesOnWell of this module), or ends the execution in a way *)
(* that the code is meant to have (StopsWell).  Here are the facts about   *)
(* frames that this needs, and the instructions that stay within the       *)
(* function that executes them; the others are in MachineProofs.           *)
(***************************************************************************)
EXTENDS Frames, DataLemmas

-----------------------------------------------------------------------------
(* Lists.                                                                  *)
LEMMA ListOver ==
  ASSUME NEW S, NEW s \in Seq(S)
  PROVE  IsList(s)
<1> DEFINE T == { s[i] : i \in DOMAIN s }
<1>1. Len(s) \in Nat /\ DOMAIN s = 1..Len(s) /\ s = [i \in 1..Len(s) |-> s[i]]
  BY LenProperties
<1>2. s \in [1..Len(s) -> T]
  BY <1>1
<1> HIDE DEF T
<1>3. s \in Seq(T)
  BY <1>1, <1>2
<1> QED BY <1>3 DEF IsList, T

\* The places of a list are the numbers up to its length.
LEMMA ListLength ==
  ASSUME NEW s, IsList(s)
  PROVE  Len(s) \in Nat /\ DOMAIN s = 1..Len(s)
BY LenProperties DEF IsList

\* s without its n last elements, and t.
IsReplaced(new, s, n, t) == new = Drop(s, n) \o t

\* Below the words replaced the list is the same, and the new ones lie on it.
LEMMA TopReplaced ==
  ASSUME NEW S, NEW s \in Seq(S), NEW t \in Seq(S), NEW n \in 0..Len(s), NEW new, IsReplaced(new, s, n, t)
  PROVE  /\ new \in Seq(S) /\ Len(s) \in Nat /\ Len(t) \in Nat /\ Len(new) \in Nat
         /\ Len(new) = Len(s) - n + Len(t)
         /\ \A i \in 1..(Len(s) - n) : new[i] = s[i]
         /\ \A i \in 1..Len(t) : new[Len(s) - n + i] = t[i]
<1> DEFINE k == Len(s) - n
           front == SubSeq(s, 1, k)
<1>1. Len(s) \in Nat /\ Len(t) \in Nat /\ k \in Nat /\ k <= Len(s)
  BY LenProperties
<1>2. front \in Seq(S) /\ Len(front) = k /\ \A i \in 1..k : front[i] = s[i]
  BY <1>1, SubSeqProperties
<1>3. IsJoin(new, front, t) /\ new = front \o t
  BY DEF IsReplaced, IsJoin, Drop
<1> HIDE DEF front, k
<1>4. new \in Seq(S) /\ Len(new) = Len(front) + Len(t)
  BY <1>1, <1>2, <1>3, ConcatProperties
<1>5. (\A i \in 1..Len(front) : new[i] = front[i]) /\ (\A i \in 1..Len(t) : new[Len(front) + i] = t[i])
  BY ONLY <1>2, <1>3, t \in Seq(S), Joins, SMTT(20)
<1>6. /\ Len(new) = k + Len(t) /\ Len(new) \in Nat
      /\ \A i \in 1..k : new[i] = s[i]
      /\ \A i \in 1..Len(t) : new[k + i] = t[i]
  BY <1>1, <1>2, <1>4, <1>5, SMTT(20)
<1> QED BY <1>1, <1>4, <1>6 DEF k

(* The last elements of a list.                                            *)
IsEnd(t, s, n) == t = SubSeq(s, Len(s) - n + 1, Len(s))

\* The last so many elements of a list.
LEMMA LastOnes ==
  ASSUME NEW S, NEW s \in Seq(S), NEW n \in 0..Len(s), NEW t, IsEnd(t, s, n)
  PROVE  t \in Seq(S) /\ Len(t) = n /\ \A k \in 1..n : t[k] = s[Len(s) - n + k]
<1> DEFINE last == Len(s)
           first == last - n + 1
<1>1. last \in Nat /\ first \in Int /\ first >= 1 /\ last - first + 1 = n /\ n \in Nat
      /\ (first <= last => n = last - first + 1) /\ (~(first <= last) => n = 0)
      /\ \A k \in 1..n : first + k - 1 = last - n + k
  BY LenProperties
<1>2. \A i \in first..last : s[i] \in S
  <2>1. \A i \in first..last : i \in 1..Len(s)
    BY <1>1
  <2> QED BY <2>1, ElementOfSeq
<1>3. t = SubSeq(s, first, last)
  BY DEF IsEnd
<1> HIDE DEF first, last
<1>4. /\ t \in Seq(S) /\ Len(t) = (IF first <= last THEN last - first + 1 ELSE 0)
      /\ \A k \in 1..(last - first + 1) : t[k] = s[first + k - 1]
  BY ONLY <1>1, <1>2, <1>3, SubSeqProperties
<1>5. Len(t) = n /\ \A k \in 1..n : t[k] = s[last - n + k]
  BY <1>1, <1>4
<1> QED BY <1>4, <1>5 DEF last

(* The same for lists of anything.                                         *)
LEMMA ListReplaced ==
  ASSUME NEW s, IsList(s), NEW t, IsList(t), NEW n \in 0..Len(s), NEW new, IsReplaced(new, s, n, t)
  PROVE  /\ IsList(new) /\ Len(s) \in Nat /\ Len(t) \in Nat /\ Len(new) \in Nat
         /\ Len(new) = Len(s) - n + Len(t)
         /\ \A i \in 1..(Len(s) - n) : new[i] = s[i]
         /\ \A i \in 1..Len(t) : new[Len(s) - n + i] = t[i]
<1> DEFINE S == { s[i] : i \in DOMAIN s }
           T == { t[i] : i \in DOMAIN t }
           U == S \cup T
<1>1. s \in Seq(S) /\ t \in Seq(T)
  BY DEF IsList
<1>2. S \subseteq U /\ T \subseteq U
  OBVIOUS
<1> HIDE DEF S, T, U
<1>3. s \in Seq(U) /\ t \in Seq(U)
  BY ONLY <1>1, <1>2, Widened
<1>4. /\ new \in Seq(U) /\ Len(s) \in Nat /\ Len(t) \in Nat /\ Len(new) \in Nat
      /\ Len(new) = Len(s) - n + Len(t)
      /\ \A i \in 1..(Len(s) - n) : new[i] = s[i]
      /\ \A i \in 1..Len(t) : new[Len(s) - n + i] = t[i]
  BY ONLY <1>3, n \in 0..Len(s), IsReplaced(new, s, n, t), TopReplaced, SMTT(20)
<1>5. IsList(new)
  BY <1>4, ListOver
<1> QED BY <1>4, <1>5

-----------------------------------------------------------------------------
(* What is known of a word.                                                *)
LEMMA KnownLater ==
  ASSUME NEW hp, NEW later, Grows(hp, later), NEW w, NEW k, NEW blow, Known(hp, w, k, blow),
         k.kind # "new" \/ Len(later) = Len(hp)
  PROVE  Known(later, w, k, blow)
BY DEF Known, Grows, IsReference, IsRef

\* Two lists begin with the same n elements.
SameTo(s, t, n) == \A i \in 1..n : s[i] = t[i]
AllLayouts(L) == \A a \in DOMAIN L : IsLayout(L[a])

\* What lies under the words of a function stays there while the heap grows.
LEMMA UnderneathLater ==
  ASSUME NEW hp, NEW later, Grows(hp, later), NEW st, NEW st2, NEW low, NEW base, NEW l,
         Underneath(hp, st, low, base, l), SameTo(st2, st, base)
  PROVE  Underneath(later, st2, low, base, l)
<1>1. CASE l.mode = APPLYING
  <2>1. /\ low \in Nat /\ base \in Nat /\ base > low /\ st[base] = Raw(base - low - 1)
        /\ \A j \in (low + 1)..(base - 1) : IsRef(hp, st[j])
    BY <1>1 DEF Underneath, Arguments
  <2>2. base \in 1..base /\ \A j \in (low + 1)..(base - 1) : j \in 1..base
    BY <2>1
  <2>3. st2[base] = Raw(base - low - 1)
    BY <2>1, <2>2 DEF SameTo
  <2>4. \A j \in (low + 1)..(base - 1) : IsRef(later, st2[j])
    BY <2>1, <2>2 DEF SameTo, IsRef, Grows
  <2> QED BY <1>1, <2>1, <2>3, <2>4 DEF Underneath, Arguments
<1>2. CASE l.mode # APPLYING
  BY <1>2 DEF Underneath
<1> QED BY <1>1, <1>2

(* Words that stay where they were mean what they meant.                   *)
LEMMA WordsLater ==
  ASSUME NEW hp, NEW later, Grows(hp, later), NEW st, NEW st2, NEW base \in Nat, NEW blow, NEW kinds, NEW n \in Nat,
         AreWords(hp, st, base, blow, kinds, n), SameTo(st2, st, base + n),
         (\A i \in 1..n : kinds[i].kind # "new") \/ Len(later) = Len(hp)
  PROVE  AreWords(later, st2, base, blow, kinds, n)
<1> SUFFICES ASSUME NEW i \in 1..n
             PROVE  Known(later, st2[base + i], kinds[i], blow)
  BY DEF AreWords
<1>1. base + i \in 1..(base + n)
  OBVIOUS
<1>2. st2[base + i] = st[base + i]
  BY <1>1 DEF SameTo
<1>3. Known(hp, st[base + i], kinds[i], blow) /\ (kinds[i].kind # "new" \/ Len(later) = Len(hp))
  BY DEF AreWords
<1>4. Known(later, st[base + i], kinds[i], blow)
  BY <1>3, KnownLater
<1> QED BY <1>2, <1>4

\* So do its bindings.
LEMMA BindingsLater ==
  ASSUME NEW hp, NEW later, Grows(hp, later), NEW bs, NEW bs2, NEW blow \in Nat, NEW kinds, IsList(kinds),
         AreBindings(hp, bs, blow, kinds), SameTo(bs2, bs, blow + Len(kinds)),
         (\A i \in DOMAIN kinds : kinds[i].kind # "new") \/ Len(later) = Len(hp)
  PROVE  AreBindings(later, bs2, blow, kinds)
<1> SUFFICES ASSUME NEW i \in DOMAIN kinds
             PROVE  Known(later, Val(bs2[blow + i]), kinds[i], 0)
  BY DEF AreBindings
<1>1. blow + i \in 1..(blow + Len(kinds))
  BY ListLength
<1>2. bs2[blow + i] = bs[blow + i]
  BY <1>1 DEF SameTo
<1>3. Known(hp, Val(bs[blow + i]), kinds[i], 0) /\ (kinds[i].kind # "new" \/ Len(later) = Len(hp))
  BY DEF AreBindings
<1> DEFINE w == Val(bs[blow + i])
<1> HIDE DEF w
<1>4. Known(later, w, kinds[i], 0)
  BY <1>3, KnownLater DEF w
<1> QED BY <1>2, <1>4 DEF w

\* A suspended function has at least the address to return to.
LEMMA FrameBounds ==
  ASSUME NEW L, AllLayouts(L), NEW hp, NEW st, NEW bs, NEW f, Suspended(L, hp, st, bs, f)
  PROVE  /\ f.low \in Nat /\ f.base \in Nat /\ f.top \in Nat /\ f.low <= f.base /\ f.base < f.top
         /\ f.blow \in Nat /\ f.btop \in Nat /\ f.blow <= f.btop
<1> DEFINE l == L[f.at]
           n == Len(l.words)
           k == Len(l.binds)
<1>1. /\ Underneath(hp, st, f.low, f.base, l) /\ f.blow \in Nat
      /\ f.top = f.base + n /\ f.btop = f.blow + k /\ Waits(l)
  BY DEF Suspended
<1>2. IsList(l.words) /\ IsList(l.binds)
  BY DEF Suspended, AllLayouts, IsLayout
<1>3. n \in Nat /\ k \in Nat /\ n >= 1
  BY <1>1, <1>2, ListLength DEF Waits
<1>4. f.low \in Nat /\ f.base \in Nat /\ f.low <= f.base
  BY <1>1 DEF Underneath, Arguments
<1> HIDE DEF l, n, k
<1> QED BY <1>1, <1>3, <1>4

\* A suspended function is not disturbed by what is done above it.
LEMMA SuspendedLater ==
  ASSUME NEW L, AllLayouts(L), NEW hp, NEW later, Grows(hp, later), NEW st, NEW st2, NEW bs, NEW bs2, NEW f,
         Suspended(L, hp, st, bs, f), SameTo(st2, st, f.top), SameTo(bs2, bs, f.btop)
  PROVE  Suspended(L, later, st2, bs2, f)
<1> DEFINE l == L[f.at]
           n == Len(l.words) - 1
<1>1. /\ IsLayout(l) /\ Waits(l) /\ Underneath(hp, st, f.low, f.base, l)
      /\ f.top = f.base + Len(l.words) /\ f.btop = f.blow + Len(l.binds) /\ f.blow \in Nat
      /\ AreWords(hp, st, f.base, f.blow, l.words, n) /\ AreBindings(hp, bs, f.blow, l.binds)
      /\ st[f.top] = Raw(f.at) /\ f.at \in DOMAIN L
  BY DEF Suspended, AllLayouts
<1>2. /\ IsList(l.words) /\ IsList(l.binds) /\ ~IsMade(l.mode)
      /\ \A i \in DOMAIN l.words : l.words[i].kind # "new"
      /\ \A i \in DOMAIN l.binds : l.binds[i].kind # "new"
  BY <1>1 DEF IsLayout, Waits, IsMade, READY, APPLYING, Kind
<1>3. f.base \in Nat /\ f.low \in Nat /\ Len(l.words) \in Nat /\ Len(l.words) >= 1 /\ Len(l.binds) \in Nat
      /\ DOMAIN l.words = 1..Len(l.words)
  BY <1>1, <1>2, ListLength DEF Underneath, Arguments, Waits
<1>4. n \in Nat /\ f.top \in Nat /\ f.top >= 1 /\ f.base <= f.top /\ f.base + n <= f.top
      /\ \A i \in 1..n : i \in DOMAIN l.words
  BY <1>1, <1>3
<1> HIDE DEF l, n
<1>5. SameTo(st2, st, f.base) /\ SameTo(st2, st, f.base + n) /\ st2[f.top] = st[f.top]
  BY <1>3, <1>4 DEF SameTo
<1>6. Underneath(later, st2, f.low, f.base, l)
  BY <1>1, <1>5, UnderneathLater
<1>7. AreWords(later, st2, f.base, f.blow, l.words, n)
  BY <1>1, <1>2, <1>3, <1>4, <1>5, WordsLater
<1>8. AreBindings(later, bs2, f.blow, l.binds)
  BY <1>1, <1>2, BindingsLater
<1> QED BY <1>1, <1>5, <1>6, <1>7, <1>8 DEF Suspended, l, n

\* Nor are all those that have not returned.
LEMMA FramesLater ==
  ASSUME NEW L, AllLayouts(L), NEW hp, NEW later, Grows(hp, later), NEW st, NEW st2, NEW bs, NEW bs2,
         NEW fr, NEW m, NEW low, NEW blow, Stacked(L, hp, st, bs, fr, m, low, blow), low \in Nat, blow \in Nat,
         SameTo(st2, st, low), SameTo(bs2, bs, blow)
  PROVE  Stacked(L, later, st2, bs2, fr, m, low, blow)
<1>1. ASSUME NEW i \in 1..m
      PROVE  Suspended(L, later, st2, bs2, fr[i])
  <2>1. Suspended(L, hp, st, bs, fr[i]) /\ fr[i].top <= low /\ fr[i].btop <= blow
    BY DEF Stacked
  <2> DEFINE f == fr[i]
  <2>2. SameTo(st2, st, f.top) /\ SameTo(bs2, bs, f.btop)
    <3>1. f.top \in Nat /\ f.btop \in Nat
      BY <2>1, FrameBounds
    <3> QED BY <2>1, <3>1 DEF SameTo
  <2> HIDE DEF f
  <2>3. Suspended(L, later, st2, bs2, f)
    BY <2>1, <2>2, SuspendedLater DEF f
  <2> QED BY <2>3 DEF f
<1> QED BY <1>1 DEF Stacked

-----------------------------------------------------------------------------
(* What is known may be forgotten.                                         *)
LEMMA KnownAdmits ==
  ASSUME NEW hp, NEW w, NEW k, NEW known, NEW blow, Known(hp, w, k, blow), Below(k, known)
  PROVE  Known(hp, w, known, blow)
BY DEF Known, Below, VALUE, Kind, IsReference

\* A layout that asks for less holds as well: where two ways meet.
LEMMA CurrentAdmits ==
  ASSUME NEW hp, NEW st, NEW bs, NEW r1, NEW low, NEW base, NEW blow, NEW l, NEW known,
         IsLayout(l), IsLayout(known), Admits(l, known), Len(bs) \in Nat,
         Current(hp, st, bs, r1, low, base, blow, l)
  PROVE  Current(hp, st, bs, r1, low, base, blow, known)
<1>1. /\ Len(l.words) = Len(known.words) /\ AllBelow(l.words, known.words, Len(l.words))
      /\ Len(l.binds) >= Len(known.binds) /\ AllBelow(l.binds, known.binds, Len(known.binds))
      /\ Len(l.binds) = Len(known.binds) \/ known.mode = FAILING
      /\ known.reg = NOTHING \/ Below(l.reg, known.reg)
      /\ l.mode = known.mode \/ (l.mode = READY /\ known.mode = FAILING)
  BY DEF Admits
<1>2. /\ Underneath(hp, st, low, base, l) /\ blow \in Nat /\ Len(st) = base + Len(l.words)
      /\ AreWords(hp, st, base, blow, l.words, Len(l.words))
      /\ IF l.mode = FAILING THEN Len(bs) >= blow + Len(l.binds) ELSE Len(bs) = blow + Len(l.binds)
      /\ AreBindings(hp, bs, blow, l.binds)
      /\ l.reg # NOTHING => Known(hp, r1, l.reg, 0)
  BY DEF Current
<1>3. /\ Len(l.words) \in Nat /\ Len(l.binds) \in Nat /\ Len(known.binds) \in Nat
      /\ DOMAIN l.binds = 1..Len(l.binds) /\ DOMAIN known.binds = 1..Len(known.binds)
  BY ListLength DEF IsLayout
<1>4. Underneath(hp, st, low, base, known)
  BY <1>1, <1>2 DEF Underneath, READY, FAILING, APPLYING, Kind
<1>5. AreWords(hp, st, base, blow, known.words, Len(known.words))
  <2> SUFFICES ASSUME NEW i \in 1..Len(l.words)
               PROVE  Known(hp, st[base + i], known.words[i], blow)
    BY <1>1 DEF AreWords
  <2> DEFINE w == st[base + i]
  <2>1. Known(hp, w, l.words[i], blow) /\ Below(l.words[i], known.words[i])
    BY <1>1, <1>2 DEF AreWords, AllBelow
  <2> HIDE DEF w
  <2>2. Known(hp, w, known.words[i], blow)
    BY <2>1, KnownAdmits
  <2> QED BY <2>2 DEF w
<1>6. AreBindings(hp, bs, blow, known.binds)
  <2> SUFFICES ASSUME NEW i \in DOMAIN known.binds
               PROVE  Known(hp, Val(bs[blow + i]), known.binds[i], 0)
    BY DEF AreBindings
  <2> DEFINE w == Val(bs[blow + i])
  <2>1. i \in DOMAIN l.binds /\ i \in 1..Len(known.binds)
    BY <1>1, <1>3
  <2>2. Known(hp, w, l.binds[i], 0) /\ Below(l.binds[i], known.binds[i])
    BY <1>1, <1>2, <2>1 DEF AreBindings, AllBelow
  <2> HIDE DEF w
  <2>3. Known(hp, w, known.binds[i], 0)
    BY <2>2, KnownAdmits
  <2> QED BY <2>3 DEF w
<1>7. known.reg # NOTHING => Known(hp, r1, known.reg, 0)
  <2> SUFFICES ASSUME known.reg # NOTHING
               PROVE  Known(hp, r1, known.reg, 0)
    OBVIOUS
  <2>1. Below(l.reg, known.reg)
    BY <1>1
  <2>2. l.reg # NOTHING
    BY <2>1 DEF Below, NOTHING, VALUE, Kind, IsReference
  <2>3. Known(hp, r1, l.reg, 0)
    BY <1>2, <2>2
  <2> QED BY <2>1, <2>3, KnownAdmits
<1>8. IF known.mode = FAILING THEN Len(bs) >= blow + Len(known.binds) ELSE Len(bs) = blow + Len(known.binds)
  BY <1>1, <1>2, <1>3 DEF READY, FAILING, Kind
<1>9. known.mode.kind = "tested" =>
       /\ Len(known.words) >= 2
       /\ LET test == st[Len(st)]
              tested == hp[st[Len(st) - 1].n]
          IN  hp[test.n].n = 1 => tested.type = "object" /\ tested.n = known.mode.n
  BY <1>1 DEF Current, READY, FAILING, Kind
<1> QED BY <1>1, <1>2, <1>4, <1>5, <1>6, <1>7, <1>8, <1>9 DEF Current

(* A step within a function: the machine goes on at an address whose       *)
(* layout admits what there is.                                            *)
LEMMA LocalStep ==
  ASSUME NEW c, NEW L, NEW A, AllLayouts(L), NEW hp, NEW st, NEW bs, NEW r1, NEW ex, NEW a,
         NEW fr, NEW m, NEW low, NEW base, NEW blow,
         InFrame(c, L, A, hp, st, bs, r1, ex, a, fr, m, low, base, blow),
         NEW later, NEW st2, NEW bs2, NEW r12, NEW ex2, NEW b, NEW l,
         Goes(L, l, b), IsLayout(l), l.place = L[a].place, l.mode # RETURNING,
         Grows(hp, later), GoodHeap(later, l.mode, c, A), Typed(later, st2, bs2, r12, ex2),
         SameTo(st2, st, low), SameTo(bs2, bs, blow),
         Current(later, st2, bs2, r12, low, base, blow, l)
  PROVE  KeepsTo(c, L, A, later, st2, bs2, r12, ex2, b)
<1>1. b \in DOMAIN L /\ Admits(l, L[b]) /\ IsLayout(L[b])
  BY DEF Goes, AllLayouts
<1>2. Len(bs2) \in Nat
  BY LenProperties DEF Typed
<1>3. Current(later, st2, bs2, r12, low, base, blow, L[b])
  BY <1>1, <1>2, CurrentAdmits
<1>4. L[b].mode # RETURNING /\ L[b].place = L[a].place
  BY <1>1 DEF Admits, RETURNING, FAILING, READY, Kind
<1>5. GoodHeap(later, L[b].mode, c, A)
  <2>1. L[b].mode = l.mode \/ (L[b].mode = FAILING /\ l.mode = READY)
    BY <1>1 DEF Admits
  <2>2. ~IsMade(READY) /\ ~IsMade(FAILING)
    BY DEF IsMade, READY, FAILING, Kind
  <2> QED BY <2>1, <2>2 DEF GoodHeap
<1>6. /\ Stacked(L, hp, st, bs, fr, m, low, blow) /\ low \in Nat /\ blow \in Nat
      /\ IsPlace(L[b], m)
  BY <1>4 DEF InFrame, Current, Underneath, IsPlace
<1>7. Stacked(L, later, st2, bs2, fr, m, low, blow)
  BY <1>6, FramesLater
<1>8. InFrame(c, L, A, later, st2, bs2, r12, ex2, b, fr, m, low, base, blow)
  BY <1>1, <1>3, <1>5, <1>6, <1>7 DEF InFrame
<1> QED BY <1>1, <1>4, <1>8 DEF KeepsTo, Kept

-----------------------------------------------------------------------------
(* Words that replace others on the stack, and what is said of them.       *)
NoneNew(kinds) == \A i \in DOMAIN kinds : kinds[i].kind # "new"
GoodWords(hp, ws, kinds, blow) ==
  /\ ws \in Seq(Words) /\ IsList(kinds) /\ Len(kinds) = Len(ws)
  /\ \A i \in 1..Len(ws) : Known(hp, ws[i], kinds[i], blow) /\ (ws[i].tag => ws[i].n \in DOMAIN hp)

\* A layout whose last words were replaced is a layout.
LEMMA ReplacedLayout ==
  ASSUME NEW l, IsLayout(l), NEW n \in 0..Len(l.words), NEW kinds, IsList(kinds), NEW l2, l2 = Replaced(l, n, kinds),
         IsMade(l.mode) \/ NoneNew(kinds)
  PROVE  /\ IsLayout(l2) /\ IsReplaced(l2.words, l.words, n, kinds)
         /\ l2.binds = l.binds /\ l2.mode = l.mode /\ l2.reg = l.reg /\ l2.place = l.place
<1>1. l = [place |-> l.place, mode |-> l.mode, words |-> l.words, binds |-> l.binds, reg |-> l.reg]
  BY DEF IsLayout
<1>2. l2 = [place |-> l.place, mode |-> l.mode, words |-> Drop(l.words, n) \o kinds, binds |-> l.binds, reg |-> l.reg]
  BY <1>1 DEF Replaced
<1>3. IsReplaced(l2.words, l.words, n, kinds)
  BY <1>2 DEF IsReplaced
<1>4. /\ IsList(l2.words) /\ Len(l.words) \in Nat /\ Len(kinds) \in Nat /\ Len(l2.words) = Len(l.words) - n + Len(kinds)
      /\ \A i \in 1..(Len(l.words) - n) : l2.words[i] = l.words[i]
      /\ \A i \in 1..Len(kinds) : l2.words[Len(l.words) - n + i] = kinds[i]
      /\ DOMAIN l2.words = 1..Len(l2.words) /\ DOMAIN l.words = 1..Len(l.words) /\ DOMAIN kinds = 1..Len(kinds)
  <2> DEFINE new == l2.words
             old == l.words
  <2>1. IsList(old) /\ IsReplaced(new, old, n, kinds) /\ n \in 0..Len(old)
    BY <1>3 DEF IsLayout
  <2> HIDE DEF new, old
  <2>2. /\ IsList(new) /\ Len(old) \in Nat /\ Len(kinds) \in Nat /\ Len(new) = Len(old) - n + Len(kinds)
        /\ \A i \in 1..(Len(old) - n) : new[i] = old[i]
        /\ \A i \in 1..Len(kinds) : new[Len(old) - n + i] = kinds[i]
    BY ONLY <2>1, IsList(kinds), ListReplaced
  <2>3. DOMAIN new = 1..Len(new) /\ DOMAIN old = 1..Len(old) /\ DOMAIN kinds = 1..Len(kinds)
    BY ONLY <2>1, <2>2, IsList(kinds), ListLength
  <2> QED BY <2>2, <2>3 DEF new, old
<1>5. IsMade(l.mode) \/ NoneNew(l2.words)
  <2> SUFFICES ASSUME ~IsMade(l.mode), NEW i \in 1..Len(l2.words)
               PROVE  l2.words[i].kind # "new"
    BY <1>4 DEF NoneNew
  <2> DEFINE j == i - (Len(l.words) - n)
  <2>1. i \in 1..(Len(l.words) - n) \/ (j \in 1..Len(kinds) /\ Len(l.words) - n + j = i)
    BY <1>4
  <2>2. CASE i \in 1..(Len(l.words) - n)
    <3>1. i \in 1..Len(l.words)
      BY <1>4, <2>2
    <3>2. l2.words[i] = l.words[i] /\ i \in DOMAIN l.words
      BY <1>4, <2>2, <3>1
    <3> QED BY <3>2 DEF IsLayout
  <2>3. CASE j \in 1..Len(kinds) /\ Len(l.words) - n + j = i
    <3> HIDE DEF j
    <3> QED BY <1>4, <2>3 DEF NoneNew
  <2> QED BY <2>1, <2>2, <2>3
<1> QED BY <1>2, <1>3, <1>4, <1>5 DEF IsLayout, NoneNew

\* Words of a stack are replaced.
Replaces(new, st, n, ws) ==
  st \in Seq(Words) /\ ws \in Seq(Words) /\ n \in 0..Len(st) /\ IsReplaced(new, st, n, ws)

\* What is below stays, what is new lies on it.
Relaid(new, st, n, ws) ==
  /\ new \in Seq(Words) /\ Len(new) = Len(st) - n + Len(ws)
  /\ \A i \in 1..(Len(st) - n) : new[i] = st[i]
  /\ \A i \in 1..Len(ws) : new[Len(st) - n + i] = ws[i]

\* TopReplaced for the stack.
LEMMA StackAfter ==
  ASSUME NEW new, NEW st, NEW n, NEW ws, Replaces(new, st, n, ws)
  PROVE  Relaid(new, st, n, ws) /\ Len(st) \in Nat /\ Len(ws) \in Nat /\ Len(new) \in Nat
<1>1. st \in Seq(Words) /\ ws \in Seq(Words) /\ n \in 0..Len(st) /\ IsReplaced(new, st, n, ws)
  BY DEF Replaces
<1>2. /\ new \in Seq(Words) /\ Len(st) \in Nat /\ Len(ws) \in Nat /\ Len(new) \in Nat
      /\ Len(new) = Len(st) - n + Len(ws)
      /\ \A i \in 1..(Len(st) - n) : new[i] = st[i]
      /\ \A i \in 1..Len(ws) : new[Len(st) - n + i] = ws[i]
  BY ONLY <1>1, TopReplaced
<1> QED BY <1>2 DEF Relaid

\* Words of a function are replaced by words of the kinds that its layout has.
LEMMA WordsReplaced ==
  ASSUME NEW hp, NEW later, Grows(hp, later), NEW st \in Seq(Words), NEW bs, NEW r1, NEW low, NEW base, NEW blow, NEW l,
         IsLayout(l), Current(hp, st, bs, r1, low, base, blow, l), NEW n \in 0..Len(l.words),
         NoneNew(l.words) \/ Len(later) = Len(hp),
         NEW ws, NEW kinds, GoodWords(later, ws, kinds, blow),
         NEW st2, IsReplaced(st2, st, n, ws), NEW words, IsReplaced(words, l.words, n, kinds)
  PROVE  /\ Len(st2) = base + Len(words) /\ AreWords(later, st2, base, blow, words, Len(words))
         /\ st2 \in Seq(Words) /\ SameTo(st2, st, base) /\ Underneath(later, st2, low, base, l)
         /\ low \in Nat /\ base \in Nat /\ low <= base /\ SameTo(st2, st, low)
<1> DEFINE k == Len(l.words)
           kept == k - n
<1>1. /\ Underneath(hp, st, low, base, l) /\ Len(st) = base + k /\ AreWords(hp, st, base, blow, l.words, k)
      /\ IsList(l.words) /\ IsList(kinds) /\ Len(kinds) = Len(ws) /\ ws \in Seq(Words)
  BY DEF Current, IsLayout, GoodWords
<1>2. low \in Nat /\ base \in Nat /\ low <= base
  BY <1>1 DEF Underneath, Arguments
<1>3. /\ k \in Nat /\ DOMAIN l.words = 1..k /\ Len(kinds) \in Nat /\ Len(words) = kept + Len(kinds) /\ kept \in Nat
      /\ \A i \in 1..kept : words[i] = l.words[i]
      /\ \A i \in 1..Len(kinds) : words[kept + i] = kinds[i]
  <2> DEFINE old == l.words
  <2>1. IsList(old) /\ IsList(kinds) /\ IsReplaced(words, old, n, kinds) /\ n \in 0..Len(old)
    BY <1>1
  <2> HIDE DEF old
  <2>2. /\ Len(old) \in Nat /\ Len(kinds) \in Nat /\ Len(words) = Len(old) - n + Len(kinds)
        /\ \A i \in 1..(Len(old) - n) : words[i] = old[i]
        /\ \A i \in 1..Len(kinds) : words[Len(old) - n + i] = kinds[i]
    BY ONLY <2>1, ListReplaced
  <2>3. DOMAIN old = 1..Len(old)
    BY ONLY <2>1, ListLength
  <2>4. Len(old) - n \in Nat
    BY <2>1, <2>2
  <2>5. k = Len(old) /\ kept = Len(old) - n
    BY DEF old
  <2> HIDE DEF k, kept
  <2>6. /\ k \in Nat /\ Len(kinds) \in Nat /\ Len(words) = kept + Len(kinds) /\ kept \in Nat
        /\ \A i \in 1..kept : words[i] = old[i]
        /\ \A i \in 1..Len(kinds) : words[kept + i] = kinds[i]
        /\ DOMAIN old = 1..k
    BY ONLY <2>2, <2>3, <2>4, <2>5
  <2> QED BY <2>6 DEF old
<1>4. n \in 0..Len(st) /\ Len(st) - n = base + kept
  BY <1>1, <1>2, <1>3
<1>5. /\ st2 \in Seq(Words) /\ Len(st2) = base + kept + Len(ws)
      /\ \A i \in 1..(base + kept) : st2[i] = st[i]
      /\ \A i \in 1..Len(ws) : st2[base + kept + i] = ws[i]
  <2>1. /\ st2 \in Seq(Words) /\ Len(st2) = Len(st) - n + Len(ws)
        /\ \A i \in 1..(Len(st) - n) : st2[i] = st[i]
        /\ \A i \in 1..Len(ws) : st2[Len(st) - n + i] = ws[i]
    <3>1. Replaces(st2, st, n, ws)
      BY <1>1, <1>4 DEF Replaces
    <3>2. Relaid(st2, st, n, ws)
      BY ONLY <3>1, StackAfter
    <3> QED BY ONLY <3>2 DEF Relaid
  <2> HIDE DEF kept, k
  <2> QED BY ONLY <1>4, <2>1
<1> HIDE DEF k, kept
<1>6. SameTo(st2, st, base + kept) /\ SameTo(st2, st, base) /\ SameTo(st2, st, low)
  BY <1>2, <1>3, <1>5, SMTT(20) DEF SameTo
<1>7. AreWords(hp, st, base, blow, l.words, kept) /\ \A i \in 1..kept : i \in DOMAIN l.words
  <2>1. \A i \in 1..kept : i \in 1..k
    BY <1>3 DEF kept
  <2> QED BY <1>1, <1>3, <2>1 DEF AreWords
<1>8. AreWords(later, st2, base, blow, l.words, kept)
  <2>1. (\A i \in 1..kept : l.words[i].kind # "new") \/ Len(later) = Len(hp)
    BY <1>7 DEF NoneNew
  <2> QED BY <1>2, <1>3, <1>6, <1>7, <2>1, WordsLater
<1>9. AreWords(later, st2, base, blow, words, Len(words))
  <2> SUFFICES ASSUME NEW i \in 1..Len(words)
               PROVE  Known(later, st2[base + i], words[i], blow)
    BY DEF AreWords
  <2>1. CASE i \in 1..kept
    BY <1>3, <1>8, <2>1 DEF AreWords
  <2>2. CASE i \notin 1..kept
    <3> DEFINE j == i - kept
    <3>1. j \in 1..Len(kinds) /\ kept + j = i /\ base + kept + j = base + i
      BY <1>2, <1>3, <2>2
    <3> HIDE DEF j
    <3>2. words[i] = kinds[j] /\ st2[base + i] = ws[j]
      <4>1. st2[base + kept + j] = ws[j] /\ words[kept + j] = kinds[j]
        BY <1>1, <1>3, <1>5, <3>1
      <4> QED BY <3>1, <4>1
    <3>3. Known(later, ws[j], kinds[j], blow)
      BY <1>1, <3>1 DEF GoodWords
    <3> QED BY <3>2, <3>3
  <2> QED BY <2>1, <2>2
<1>10. Underneath(later, st2, low, base, l)
  BY <1>1, <1>6, UnderneathLater
<1>11. Len(st2) = base + Len(words)
  BY <1>1, <1>2, <1>3, <1>5
<1> QED BY <1>2, <1>5, <1>6, <1>9, <1>10, <1>11

\* The stack stays one of words, and every reference on it one to an object.
LEMMA TypedReplaced ==
  ASSUME NEW hp, NEW later, Grows(hp, later), NEW st, NEW bs, NEW r1, NEW ex, Typed(hp, st, bs, r1, ex),
         NEW n \in 0..Len(st), NEW ws, NEW kinds, NEW blow, GoodWords(later, ws, kinds, blow),
         NEW st2, IsReplaced(st2, st, n, ws)
  PROVE  Typed(later, st2, bs, r1, ex)
<1>1. /\ st \in Seq(Words) /\ ws \in Seq(Words)
      /\ \A i \in DOMAIN st : st[i].tag => st[i].n \in DOMAIN hp
      /\ \A i \in 1..Len(ws) : ws[i].tag => ws[i].n \in DOMAIN later
      /\ \A i \in DOMAIN hp : i \in DOMAIN later
  BY DEF Typed, GoodWords, Grows
<1> DEFINE k == Len(st) - n
<1>2. /\ st2 \in Seq(Words) /\ Len(st) \in Nat /\ Len(ws) \in Nat /\ Len(st2) = k + Len(ws)
      /\ \A i \in 1..k : st2[i] = st[i]
      /\ \A i \in 1..Len(ws) : st2[k + i] = ws[i]
      /\ DOMAIN st2 = 1..Len(st2) /\ DOMAIN st = 1..Len(st)
  <2>1. /\ st2 \in Seq(Words) /\ Len(st) \in Nat /\ Len(ws) \in Nat /\ Len(st2) = Len(st) - n + Len(ws)
        /\ \A i \in 1..(Len(st) - n) : st2[i] = st[i]
        /\ \A i \in 1..Len(ws) : st2[Len(st) - n + i] = ws[i]
    BY ONLY <1>1, n \in 0..Len(st), IsReplaced(st2, st, n, ws), TopReplaced
  <2>2. DOMAIN st2 = 1..Len(st2) /\ DOMAIN st = 1..Len(st)
    BY ONLY <1>1, <2>1, LenProperties
  <2> QED BY <2>1, <2>2
<1>3. ASSUME NEW i \in DOMAIN st2, st2[i].tag
      PROVE  st2[i].n \in DOMAIN later
  <2>1. CASE i \in 1..k
    <3>1. i \in 1..Len(st)
      BY <1>2, <2>1
    <3>2. i \in DOMAIN st /\ st2[i] = st[i]
      BY ONLY <1>2, <2>1, <3>1
    <3> QED BY <1>1, <1>3, <3>2
  <2>2. CASE i \notin 1..k
    <3> DEFINE j == i - k
    <3>1. j \in 1..Len(ws) /\ k + j = i
      BY <1>2, <2>2
    <3> HIDE DEF j, k
    <3>2. st2[i] = ws[j]
      BY <1>2, <3>1
    <3> QED BY <1>1, <1>3, <3>1, <3>2
  <2> QED BY <2>1, <2>2
<1> HIDE DEF k
<1>4. /\ bs \in Seq(Nat) /\ \A i \in DOMAIN bs : bs[i] \in DOMAIN later
      /\ r1 \in Words /\ (r1.tag => r1.n \in DOMAIN later)
      /\ ex \in Words /\ IsRef(later, ex)
  BY <1>1 DEF Typed, IsRef
<1> QED BY <1>2, <1>3, <1>4 DEF Typed

-----------------------------------------------------------------------------
(* A step within a function, from what it does to the words, the bindings, *)
(* the registers and the heap.                                             *)
GoodBindings(hp, bs2, bs, blow, mode, binds) ==
  /\ bs2 \in Seq(Nat) /\ \A n \in DOMAIN bs2 : bs2[n] \in DOMAIN hp
  /\ SameTo(bs2, bs, blow)
  /\ IF mode = FAILING THEN Len(bs2) >= blow + Len(binds) ELSE Len(bs2) = blow + Len(binds)
  /\ AreBindings(hp, bs2, blow, binds)
GoodReg(hp, r, reg) ==
  /\ r \in Words /\ (r.tag => r.n \in DOMAIN hp)
  /\ reg # NOTHING => Known(hp, r, reg, 0)
GoodTest(hp, st, l) ==
  l.mode.kind = "tested" =>
    /\ Len(l.words) >= 2
    /\ LET test == st[Len(st)]
           tested == hp[st[Len(st) - 1].n]
       IN  hp[test.n].n = 1 => tested.type = "object" /\ tested.n = l.mode.n

\* A step within a function: n words, the bindings and REG_1 become what l2 says.
Steps(l, hp, st, bs, blow, later, n, ws, kinds, st2, l2, bs2, r12, ex2) ==
  /\ Grows(hp, later) /\ (NoneNew(l.words) \/ Len(later) = Len(hp))
  /\ n \in 0..Len(l.words) /\ GoodWords(later, ws, kinds, blow)
  /\ IsReplaced(st2, st, n, ws) /\ IsReplaced(l2.words, l.words, n, kinds)
  /\ (l.mode = APPLYING) <=> (l2.mode = APPLYING)
  /\ GoodBindings(later, bs2, bs, blow, l2.mode, l2.binds)
  /\ GoodReg(later, r12, l2.reg) /\ ex2 \in Words /\ IsRef(later, ex2) /\ GoodTest(later, st2, l2)

\* What such a step makes of the state is laid out as l2 says.
LEMMA StepCurrent ==
  ASSUME NEW c, NEW L, NEW A, AllLayouts(L), NEW hp, NEW st, NEW bs, NEW r1, NEW ex, NEW a,
         NEW fr, NEW m, NEW low, NEW base, NEW blow,
         InFrame(c, L, A, hp, st, bs, r1, ex, a, fr, m, low, base, blow),
         NEW later, NEW n, NEW ws, NEW kinds, NEW st2, NEW l2, NEW bs2, NEW r12, NEW ex2,
         Steps(L[a], hp, st, bs, blow, later, n, ws, kinds, st2, l2, bs2, r12, ex2)
  PROVE  /\ Typed(later, st2, bs2, r12, ex2) /\ SameTo(st2, st, low) /\ SameTo(bs2, bs, blow)
         /\ Current(later, st2, bs2, r12, low, base, blow, l2)
<1> DEFINE l == L[a]
           words == l2.words
<1>0. /\ Grows(hp, later) /\ (NoneNew(l.words) \/ Len(later) = Len(hp))
      /\ n \in 0..Len(l.words) /\ GoodWords(later, ws, kinds, blow)
      /\ IsReplaced(st2, st, n, ws) /\ IsReplaced(words, l.words, n, kinds)
      /\ ((l.mode = APPLYING) <=> (l2.mode = APPLYING))
      /\ GoodBindings(later, bs2, bs, blow, l2.mode, l2.binds)
      /\ GoodReg(later, r12, l2.reg) /\ ex2 \in Words /\ IsRef(later, ex2) /\ GoodTest(later, st2, l2)
  BY DEF Steps
<1>1. /\ IsLayout(l) /\ Typed(hp, st, bs, r1, ex) /\ Current(hp, st, bs, r1, low, base, blow, l) /\ st \in Seq(Words)
      /\ n \in 0..Len(l.words) /\ (NoneNew(l.words) \/ Len(later) = Len(hp))
      /\ IsReplaced(words, l.words, n, kinds)
  BY <1>0 DEF InFrame, AllLayouts, Typed
<1> HIDE DEF l, words
<1>2. /\ Len(st2) = base + Len(words) /\ AreWords(later, st2, base, blow, words, Len(words))
      /\ SameTo(st2, st, low) /\ Underneath(later, st2, low, base, l)
  BY <1>0, <1>1, WordsReplaced, SMTT(20)
<1>3. Typed(later, st2, bs, r1, ex)
  <2>1. n \in 0..Len(st)
    BY <1>0, <1>1, ListLength DEF Current, Underneath, Arguments, IsLayout
  <2> QED BY <1>0, <1>1, <2>1, TypedReplaced
<1>4. Typed(later, st2, bs2, r12, ex2)
  BY <1>0, <1>3 DEF Typed, GoodBindings, GoodReg
<1>5. Underneath(later, st2, low, base, l2)
  BY <1>0, <1>2 DEF Underneath, l
<1>6. Current(later, st2, bs2, r12, low, base, blow, l2)
  <2>1. blow \in Nat
    BY <1>1 DEF Current
  <2> QED BY <1>0, <1>2, <1>5, <2>1 DEF Current, GoodBindings, GoodReg, GoodTest, words
<1>7. SameTo(bs2, bs, blow)
  BY <1>0 DEF GoodBindings
<1> QED BY <1>2, <1>4, <1>6, <1>7

\* A step to an address whose layout admits what was made.
LEMMA StepTo ==
  ASSUME NEW c, NEW L, NEW A, AllLayouts(L), NEW hp, NEW st, NEW bs, NEW r1, NEW ex, NEW a,
         NEW fr, NEW m, NEW low, NEW base, NEW blow,
         InFrame(c, L, A, hp, st, bs, r1, ex, a, fr, m, low, base, blow),
         NEW later, Grows(hp, later), NEW n \in 0..Len(L[a].words),
         NoneNew(L[a].words) \/ Len(later) = Len(hp),
         NEW ws, NEW kinds, GoodWords(later, ws, kinds, blow), NEW st2, IsReplaced(st2, st, n, ws),
         NEW l2, IsLayout(l2), IsReplaced(l2.words, L[a].words, n, kinds), l2.place = L[a].place,
         l2.mode # RETURNING, (L[a].mode = APPLYING) <=> (l2.mode = APPLYING),
         NEW bs2, GoodBindings(later, bs2, bs, blow, l2.mode, l2.binds),
         NEW r12, GoodReg(later, r12, l2.reg), NEW ex2 \in Words, IsRef(later, ex2),
         GoodHeap(later, l2.mode, c, A), GoodTest(later, st2, l2), NEW b, Goes(L, l2, b)
  PROVE  KeepsTo(c, L, A, later, st2, bs2, r12, ex2, b)
<1>1. /\ Typed(later, st2, bs2, r12, ex2) /\ SameTo(st2, st, low) /\ SameTo(bs2, bs, blow)
      /\ Current(later, st2, bs2, r12, low, base, blow, l2)
  <2>1. Steps(L[a], hp, st, bs, blow, later, n, ws, kinds, st2, l2, bs2, r12, ex2)
    BY DEF Steps
  <2> QED BY <2>1, StepCurrent
<1> QED BY <1>1, LocalStep

(* What is left alone.                                                     *)
LEMMA BindingsStay ==
  ASSUME NEW c, NEW L, NEW A, AllLayouts(L), NEW hp, NEW st, NEW bs, NEW r1, NEW ex, NEW a,
         NEW fr, NEW m, NEW low, NEW base, NEW blow,
         InFrame(c, L, A, hp, st, bs, r1, ex, a, fr, m, low, base, blow),
         NEW later, Grows(hp, later), NoneNew(L[a].binds) \/ Len(later) = Len(hp),
         NEW mode, (mode = FAILING) <=> (L[a].mode = FAILING)
  PROVE  GoodBindings(later, bs, bs, blow, mode, L[a].binds)
<1> DEFINE binds == L[a].binds
<1>1. /\ bs \in Seq(Nat) /\ \A n \in DOMAIN bs : bs[n] \in DOMAIN later
      /\ IF mode = FAILING THEN Len(bs) >= blow + Len(binds) ELSE Len(bs) = blow + Len(binds)
      /\ AreBindings(hp, bs, blow, binds) /\ blow \in Nat /\ IsList(binds)
  BY DEF InFrame, Typed, Grows, Current, AllLayouts, IsLayout
<1>2. SameTo(bs, bs, blow) /\ SameTo(bs, bs, blow + Len(binds))
  BY DEF SameTo
<1>3. (\A i \in DOMAIN binds : binds[i].kind # "new") \/ Len(later) = Len(hp)
  BY DEF NoneNew
<1> HIDE DEF binds
<1>4. AreBindings(later, bs, blow, binds)
  BY <1>1, <1>2, <1>3, BindingsLater
<1> QED BY <1>1, <1>2, <1>4 DEF GoodBindings, binds

\* REG_1 and EXCEPTION_REG are as good in a heap that grew.
LEMMA RegStays ==
  ASSUME NEW c, NEW L, NEW A, AllLayouts(L), NEW hp, NEW st, NEW bs, NEW r1, NEW ex, NEW a,
         NEW fr, NEW m, NEW low, NEW base, NEW blow,
         InFrame(c, L, A, hp, st, bs, r1, ex, a, fr, m, low, base, blow),
         NEW later, Grows(hp, later)
  PROVE  /\ GoodReg(later, r1, L[a].reg) /\ GoodReg(later, r1, NOTHING)
         /\ ex \in Words /\ IsRef(later, ex)
<1> DEFINE reg == L[a].reg
<1>1. /\ r1 \in Words /\ (r1.tag => r1.n \in DOMAIN later) /\ ex \in Words /\ IsRef(later, ex)
      /\ reg # NOTHING => Known(hp, r1, reg, 0)
      /\ reg = NOTHING \/ reg.kind # "new"
  BY DEF InFrame, Typed, Grows, Current, AllLayouts, IsLayout, IsRef
<1> HIDE DEF reg
<1>2. reg # NOTHING => Known(later, r1, reg, 0)
  BY <1>1, KnownLater
<1> QED BY <1>1, <1>2 DEF GoodReg, reg

-----------------------------------------------------------------------------
(* What instructions do to the heap.                                       *)
LEMMA HeapKept ==
  ASSUME NEW hp
  PROVE  Grows(hp, hp)
BY DEF Grows, Filled

\* Once captures are written the heap is good in any mode.
LEMMA ModeForgotten ==
  ASSUME NEW hp, NEW c, NEW A, NEW mode, GoodHeap(hp, mode, c, A), ~IsMade(mode), NEW mode2, ~IsMade(mode2)
  PROVE  GoodHeap(hp, mode2, c, A)
BY DEF GoodHeap

\* What may be added to a heap.
Fits(object, later, c, A, mode) ==
  /\ Shaped(object, later, c, A)
  /\ \A k \in DOMAIN object.fields : object.fields[k] \in {0} \cup DOMAIN later
  /\ IF IsMade(mode) THEN object.type = mode.kind /\ object.n = mode.n ELSE Filled(object, later)

IsAppended(t, s, x) == t = Append(s, x)

\* A list with one element more.
LEMMA Appended ==
  ASSUME NEW s, IsList(s), NEW x, NEW t, IsAppended(t, s, x)
  PROVE  /\ IsList(t) /\ Len(s) \in Nat /\ Len(t) = Len(s) + 1 /\ DOMAIN s = 1..Len(s) /\ DOMAIN t = 1..(Len(s) + 1)
         /\ t[Len(s) + 1] = x /\ \A i \in DOMAIN s : t[i] = s[i]
<1> DEFINE S == { s[i] : i \in DOMAIN s }
           T == S \cup {x}
<1>1. s \in Seq(S) /\ S \subseteq T /\ x \in T
  BY DEF IsList
<1> HIDE DEF S, T
<1>2. s \in Seq(T)
  BY ONLY <1>1, Widened
<1>3. /\ t \in Seq(T) /\ Len(t) = Len(s) + 1 /\ t[Len(s) + 1] = x
      /\ \A i \in 1..Len(s) : t[i] = s[i]
  BY <1>1, <1>2, AppendProperties DEF IsAppended
<1>4. Len(s) \in Nat /\ DOMAIN s = 1..Len(s) /\ DOMAIN t = 1..(Len(s) + 1)
  BY <1>2, <1>3, LenProperties
<1>5. IsList(t)
  BY <1>3, ListOver
<1> QED BY <1>3, <1>4, <1>5

\* An object is made: no other is moved or changed by it.
LEMMA HeapAppended ==
  ASSUME NEW hp, NEW c, NEW A, NEW mode, GoodHeap(hp, mode, c, A), ~IsMade(mode),
         NEW object, NEW later, IsAppended(later, hp, object), NEW mode2, Fits(object, later, c, A, mode2)
  PROVE  /\ GoodHeap(later, mode2, c, A) /\ Grows(hp, later)
         /\ Len(later) = Len(hp) + 1 /\ Len(hp) \in Nat /\ Len(later) \in DOMAIN later
         /\ later[Len(later)] = object /\ \A i \in DOMAIN hp : i \in DOMAIN later
<1>1. /\ IsList(hp) /\ FALSE_BOX \in DOMAIN hp /\ hp[TRUE_BOX].n = 1 /\ hp[FALSE_BOX].n = 0
      /\ \A i \in DOMAIN hp : /\ Shaped(hp[i], hp, c, A) /\ Filled(hp[i], hp)
                              /\ \A k \in DOMAIN hp[i].fields : hp[i].fields[k] \in {0} \cup DOMAIN hp
  BY DEF GoodHeap
<1> DEFINE n == Len(hp)
<1>2. /\ IsList(later) /\ n \in Nat /\ Len(later) = n + 1 /\ DOMAIN hp = 1..n /\ DOMAIN later = 1..(n + 1)
      /\ later[n + 1] = object /\ \A i \in DOMAIN hp : later[i] = hp[i]
  BY <1>1, Appended
<1> HIDE DEF n
<1>3. DOMAIN hp \subseteq DOMAIN later /\ Len(later) \in DOMAIN later /\ later[Len(later)] = object
  BY <1>2
<1>4. Grows(hp, later)
  <2>1. ASSUME NEW i \in DOMAIN hp, Filled(hp[i], hp)
        PROVE  Filled(hp[i], later)
    BY <1>3, <2>1 DEF Filled
  <2>2. Len(hp) = n
    BY DEF n
  <2>3. Len(hp) <= Len(later)
    BY <1>2, <2>2
  <2> QED BY <1>2, <1>3, <2>1, <2>3 DEF Grows
<1>5. FALSE_BOX \in DOMAIN later /\ later[TRUE_BOX].n = 1 /\ later[FALSE_BOX].n = 0
  BY <1>1, <1>2, <1>3 DEF TRUE_BOX, FALSE_BOX
<1>6. ASSUME NEW i \in DOMAIN hp
      PROVE  /\ Shaped(later[i], later, c, A) /\ Filled(later[i], later)
             /\ \A k \in DOMAIN later[i].fields : later[i].fields[k] \in {0} \cup DOMAIN later
  <2>1. later[i] = hp[i]
    BY <1>2
  <2>2. /\ Shaped(hp[i], hp, c, A) /\ Filled(hp[i], hp)
        /\ \A k \in DOMAIN hp[i].fields : hp[i].fields[k] \in {0} \cup DOMAIN hp
    BY <1>1
  <2>3. hp[i].link \in {0} \cup DOMAIN later /\ (hp[i].link # 0 => later[hp[i].link] = hp[hp[i].link])
    BY <1>2, <1>3, <2>2 DEF Shaped
  <2> QED BY <1>3, <2>1, <2>2, <2>3 DEF Shaped, Filled
<1>7. ASSUME NEW i \in DOMAIN later, i \notin DOMAIN hp
      PROVE  i = Len(later) /\ later[i] = object
  BY <1>2, <1>7
<1>8. ASSUME NEW i \in DOMAIN later
      PROVE  /\ Shaped(later[i], later, c, A)
             /\ Filled(later[i], later) \/ (IsMade(mode2) /\ i = Len(later))
             /\ \A k \in DOMAIN later[i].fields : later[i].fields[k] \in {0} \cup DOMAIN later
  BY <1>6, <1>7 DEF Fits
<1>9. IsMade(mode2) => later[Len(later)].type = mode2.kind /\ later[Len(later)].n = mode2.n
  BY <1>3 DEF Fits
<1>11. DOMAIN c.constants \subseteq DOMAIN later
  BY <1>3 DEF GoodHeap
<1>10. GoodHeap(later, mode2, c, A)
  BY <1>2, <1>5, <1>8, <1>9, <1>11 DEF GoodHeap
<1> QED BY <1>2, <1>3, <1>4, <1>10 DEF n

-----------------------------------------------------------------------------
(* An instruction that takes n references and leaves others.               *)
References(hp, ws) == ws \in Seq(Words) /\ \A i \in 1..Len(ws) : IsRef(hp, ws[i])

\* The kinds of so many values.
LEMMA AllValues ==
  ASSUME NEW k \in Nat
  PROVE  /\ IsList(Values(k)) /\ Len(Values(k)) = k /\ NoneNew(Values(k))
         /\ \A i \in 1..k : Values(k)[i] = VALUE
<1> DEFINE v == Values(k)
<1>1. v = [i \in 1..k |-> VALUE]
  BY DEF Values
<1>2. v \in Seq({VALUE}) /\ DOMAIN v = 1..k /\ \A i \in 1..k : v[i] = VALUE
  BY <1>1
<1> HIDE DEF v
<1>3. Len(v) = k /\ IsList(v)
  BY <1>2, LenProperties, ListOver
<1> QED BY <1>2, <1>3 DEF v, NoneNew, VALUE, Kind

\* References to objects are values.
LEMMA ReferencesAreGood ==
  ASSUME NEW hp, NEW ws, References(hp, ws), NEW blow, NEW k \in Nat, Len(ws) = k
  PROVE  GoodWords(hp, ws, Values(k), blow)
<1>1. /\ IsList(Values(k)) /\ Len(Values(k)) = k /\ \A i \in 1..k : Values(k)[i] = VALUE
  BY AllValues
<1>2. \A i \in 1..k : Known(hp, ws[i], VALUE, blow) /\ ws[i].n \in DOMAIN hp
  BY DEF References, Known, IsRef, VALUE, Kind
<1> QED BY <1>1, <1>2 DEF GoodWords, References

\* Values are taken and values are left, at an address that is ready.
LEMMA PlainStep ==
  ASSUME NEW c, NEW L, NEW A, AllLayouts(L), NEW hp, NEW st, NEW bs, NEW r1, NEW ex, NEW a,
         NEW fr, NEW m, NEW low, NEW base, NEW blow,
         InFrame(c, L, A, hp, st, bs, r1, ex, a, fr, m, low, base, blow),
         L[a].mode = READY, NEW n \in Nat, HasReferences(L[a], n), NEW k \in Nat,
         NEW later, Grows(hp, later), GoodHeap(later, READY, c, A),
         NEW ws, References(later, ws), Len(ws) = k, NEW st2, IsReplaced(st2, st, n, ws),
         NEW ex2 \in Words, IsRef(later, ex2), NEW b, Goes(L, Replaced(L[a], n, Values(k)), b)
  PROVE  KeepsTo(c, L, A, later, st2, bs, r1, ex2, b)
<1> DEFINE l == L[a]
           kinds == Values(k)
           l2 == Replaced(l, n, kinds)
<1>1. IsLayout(l) /\ l.mode = READY /\ n \in 0..Len(l.words)
  BY ListLength DEF InFrame, AllLayouts, IsLayout, HasReferences
<1>2. IsList(kinds) /\ NoneNew(kinds)
  BY AllValues
<1>3. GoodWords(later, ws, kinds, blow)
  BY ReferencesAreGood
<1>4. NoneNew(l.words) /\ NoneNew(l.binds)
  BY <1>1 DEF IsLayout, NoneNew, IsMade, READY, Kind
<1>9. l2 = Replaced(l, n, kinds)
  OBVIOUS
<1> HIDE DEF kinds, l2, l
<1>5. /\ IsLayout(l2) /\ IsReplaced(l2.words, l.words, n, kinds)
      /\ l2.binds = l.binds /\ l2.mode = READY /\ l2.reg = l.reg /\ l2.place = l.place
  BY <1>1, <1>2, <1>9, ReplacedLayout
<1>6. GoodBindings(later, bs, bs, blow, READY, l.binds)
  BY <1>1, <1>4, BindingsStay DEF l
<1>7. GoodReg(later, r1, l.reg)
  BY RegStays DEF l
<1>8. GoodTest(later, st2, l2) /\ READY # RETURNING
  BY <1>5 DEF GoodTest, READY, RETURNING, Kind
<1>10. Goes(L, l2, b)
  BY DEF l2, kinds, l
<1> QED BY <1>1, <1>3, <1>4, <1>5, <1>6, <1>7, <1>8, <1>10, StepTo DEF l

-----------------------------------------------------------------------------
(* What there is on top of the stack.                                      *)
LEMMA OnTop ==
  ASSUME NEW c, NEW L, NEW A, AllLayouts(L), NEW hp, NEW st, NEW bs, NEW r1, NEW ex, NEW a,
         NEW fr, NEW m, NEW low, NEW base, NEW blow,
         InFrame(c, L, A, hp, st, bs, r1, ex, a, fr, m, low, base, blow),
         NEW i \in Nat, i < Len(L[a].words)
  PROVE  /\ Len(st) \in Nat /\ i < Len(st) /\ Len(st) - i \in DOMAIN st /\ st[Len(st) - i] \in Words
         /\ Known(hp, st[Len(st) - i], FromTop(L[a].words, i), blow)
<1> DEFINE words == L[a].words
<1>1. /\ base \in Nat /\ Len(st) = base + Len(words) /\ AreWords(hp, st, base, blow, words, Len(words))
      /\ st \in Seq(Words) /\ IsList(words)
  BY DEF InFrame, Current, Underneath, Arguments, Typed, AllLayouts, IsLayout
<1>2. Len(words) \in Nat /\ i < Len(words)
  BY <1>1, ListLength
<1> HIDE DEF words
<1>3. Len(st) \in Nat /\ DOMAIN st = 1..Len(st)
  BY <1>1, LenProperties
<1> DEFINE j == Len(words) - i
<1>4. j \in 1..Len(words) /\ base + j = Len(st) - i /\ Len(st) - i \in 1..Len(st)
  BY <1>1, <1>2, <1>3
<1>5. Known(hp, st[base + j], words[j], blow)
  <2> HIDE DEF j
  <2> QED BY <1>1, <1>4 DEF AreWords
<1>6. Known(hp, st[Len(st) - i], FromTop(words, i), blow)
  BY <1>4, <1>5 DEF FromTop
<1>7. st[Len(st) - i] \in Words
  BY <1>1, <1>3, <1>4, ElementOfSeq
<1> QED BY <1>2, <1>3, <1>4, <1>6, <1>7 DEF words

\* The operands of an instruction are references to objects.
LEMMA ReferencesOnTop ==
  ASSUME NEW c, NEW L, NEW A, AllLayouts(L), NEW hp, NEW st, NEW bs, NEW r1, NEW ex, NEW a,
         NEW fr, NEW m, NEW low, NEW base, NEW blow,
         InFrame(c, L, A, hp, st, bs, r1, ex, a, fr, m, low, base, blow),
         NEW n \in Nat, HasReferences(L[a], n)
  PROVE  /\ Len(st) \in Nat /\ Len(st) >= n
         /\ \A i \in 0..(n - 1) : /\ Len(st) - i \in DOMAIN st /\ st[Len(st) - i] \in Words
                                  /\ IsRef(hp, st[Len(st) - i])
<1>1. /\ st \in Seq(Words) /\ IsList(L[a].words)
  BY DEF InFrame, Typed, AllLayouts, IsLayout
<1>2. Len(st) \in Nat /\ Len(L[a].words) \in Nat /\ Len(L[a].words) >= n
  BY <1>1, LenProperties, ListLength DEF HasReferences
<1>3. Len(st) >= n
  <2>1. CASE n = 0
    BY <1>2, <2>1
  <2>2. CASE n # 0
    <3> DEFINE i == n - 1
    <3>1. i \in Nat /\ i < Len(L[a].words) /\ n = i + 1
      BY <1>2, <2>2
    <3> HIDE DEF i
    <3>2. i < Len(st)
      BY <3>1, OnTop
    <3> QED BY <1>2, <3>1, <3>2
  <2> QED BY <2>1, <2>2
<1>4. ASSUME NEW i \in 0..(n - 1)
      PROVE  /\ Len(st) - i \in DOMAIN st /\ st[Len(st) - i] \in Words /\ IsRef(hp, st[Len(st) - i])
  <2>1. i \in Nat /\ i < Len(L[a].words)
    BY <1>2
  <2>2. IsReference(FromTop(L[a].words, i))
    BY DEF HasReferences
  <2>3. /\ Len(st) - i \in DOMAIN st /\ st[Len(st) - i] \in Words
        /\ Known(hp, st[Len(st) - i], FromTop(L[a].words, i), blow)
    BY <2>1, OnTop
  <2> QED BY <2>2, <2>3 DEF Known
<1> QED BY <1>2, <1>3, <1>4

-----------------------------------------------------------------------------
(* The instructions that take references and leave references.             *)
LEMMA Sizes ==
  ASSUME NEW i, IsPlain(i), i.op = "PARTIAL_APPLY" => i.arg \in Nat
  PROVE  Taken(i) \in Nat /\ Left(i) \in Nat
<1>1. Operands(i.op) \in Nat
  BY DEF Operands
<1>2. ExternOperands(i.arg) \in Nat
  BY DEF ExternOperands
<1> QED BY <1>1, <1>2 DEF Taken, Left

\* An instruction that computes goes on at the next address.
LEMMA Computed ==
  ASSUME NEW c, NEW L, NEW A, AllLayouts(L), NEW hp, NEW st, NEW bs, NEW r1, NEW ex, NEW a,
         NEW fr, NEW m, NEW low, NEW base, NEW blow,
         InFrame(c, L, A, hp, st, bs, r1, ex, a, fr, m, low, base, blow), Computes(c, L, A, a),
         NEW later, Grows(hp, later), GoodHeap(later, READY, c, A),
         NEW ws, References(later, ws), Len(ws) = Left(Instr(c, a)),
         NEW st2, IsReplaced(st2, st, Taken(Instr(c, a)), ws),
         NEW ex2 \in Words, IsRef(later, ex2)
  PROVE  KeepsTo(c, L, A, later, st2, bs, r1, ex2, Beyond(c, a))
<1> DEFINE n == Taken(Instr(c, a))
           k == Left(Instr(c, a))
           b == Beyond(c, a)
<1>1. n \in Nat /\ k \in Nat
  BY Sizes DEF Computes
<1>2. L[a].mode = READY /\ HasReferences(L[a], n) /\ Goes(L, Replaced(L[a], n, Values(k)), b)
  BY DEF Computes, GoesOn
<1>3. IsReplaced(st2, st, n, ws) /\ Len(ws) = k
  OBVIOUS
<1> HIDE DEF n, k, b
<1>4. KeepsTo(c, L, A, later, st2, bs, r1, ex2, b)
  BY <1>1, <1>2, <1>3, PlainStep
<1> QED BY <1>4 DEF b

\* One word that refers to an object.
LEMMA OneReference ==
  ASSUME NEW hp, NEW w \in Words, IsRef(hp, w), NEW ws, ws = <<w>>
  PROVE  References(hp, ws) /\ Len(ws) = 1
<1>1. ws \in Seq(Words) /\ Len(ws) = 1 /\ ws[1] = w
  OBVIOUS
<1> QED BY <1>1 DEF References

(* A new object is left.                                                   *)
LEMMA Allocated ==
  ASSUME NEW c, NEW L, NEW A, AllLayouts(L), NEW hp, NEW st, NEW bs, NEW r1, NEW ex, NEW a,
         NEW fr, NEW m, NEW low, NEW base, NEW blow,
         InFrame(c, L, A, hp, st, bs, r1, ex, a, fr, m, low, base, blow), Computes(c, L, A, a),
         Left(Instr(c, a)) = 1,
         NEW object, NEW later, IsAppended(later, hp, object), Fits(object, later, c, A, READY),
         NEW st2, IsReplaced(st2, st, Taken(Instr(c, a)), <<Val(Len(hp) + 1)>>)
  PROVE  KeepsTo(c, L, A, later, st2, bs, r1, ex, Beyond(c, a))
<1>1. /\ L[a].mode = READY /\ GoodHeap(hp, L[a].mode, c, A) /\ ~IsMade(READY)
  BY DEF Computes, InFrame, IsMade, READY, Kind
<1>2. /\ GoodHeap(later, READY, c, A) /\ Grows(hp, later)
      /\ Len(later) = Len(hp) + 1 /\ Len(hp) \in Nat /\ Len(later) \in DOMAIN later
  BY <1>1, HeapAppended
<1> DEFINE w == Val(Len(hp) + 1)
           ws == <<w>>
<1>3. w \in Words /\ IsRef(later, w) /\ ws = <<w>>
  BY <1>2 DEF Val, Words, IsRef
<1>4. ex \in Words /\ IsRef(later, ex)
  BY <1>2, RegStays
<1>5. IsReplaced(st2, st, Taken(Instr(c, a)), ws)
  OBVIOUS
<1> HIDE DEF w, ws
<1>6. References(later, ws) /\ Len(ws) = 1
  BY <1>3, OneReference
<1> QED BY <1>2, <1>4, <1>5, <1>6, Computed

(* A number, a text, a handle fits.                                        *)
LEMMA BoxFits ==
  ASSUME NEW c, NEW A, NEW later, NEW type, type \notin {"closure", "thunk", "application", "cons", "object"},
         NEW n, NEW whnf, NEW object, object = Object(type, n, <<>>, 0, whnf)
  PROVE  Fits(object, later, c, A, READY)
<1>1. /\ IsObject(object) /\ object.type = type /\ object.fields = <<>> /\ object.link = 0
  BY DEF Object, IsObject
<1>2. <<>> \in Seq(Nat) /\ DOMAIN <<>> = {}
  OBVIOUS
<1>3. ~IsMade(READY)
  BY DEF IsMade, READY, Kind
<1> QED BY <1>1, <1>2, <1>3 DEF Fits, Shaped, Filled

-----------------------------------------------------------------------------
(* The instruction of an address is of one sort.                           *)
PlainOps ==
  {"PUSH_CONST", "TRUE", "FALSE", "CREATE_CONS", "HEAD", "TAIL", "ADD", "SUBTRACT",
   "MULTIPLY", "DIVIDE", "LESS", "GREATER", "EQUAL", "NEGATE", "NOT", "PARTIAL_APPLY",
   "CREATE_OBJECT", "CALL_EXTERN", "IS_CONS", "IS_OBJ", "IS_INT", "IS_BOOL", "IS_UNIT"}
RegisterOps == {"PUSH_REG_STACK", "TRANSFER_STACK_REG"}
MoveOps == {"COPY_STACK_REG", "SWAP", "COPY", "POP_U64", "U64_ADD", "JUMP_REL"}
BindOps == {"READ_BINDING", "CREATE_BINDING", "REMOVE_BINDING", "REMOVE_BINDINGS", "CAPTURE_READ"}
MakeOps == {"CREATE_CLOSURE", "CREATE_THUNK", "WRITE_CLOSURE", "WRITE_THUNK", "IS_VARIANT", "OBJECT_READ"}
EnterOps == {"EVAL", "JUMP_GLOBALS", "UPDATE_THUNK", "HANDLE_CONTINUATION"}

\* Which rule of Obeys an instruction falls under.
LEMMA Sorts ==
  ASSUME NEW c, NEW L, NEW A, NEW a, Obeys(c, L, A, a)
  PROVE  LET i == Instr(c, a)
         IN  /\ i.op \in PlainOps => Computes(c, L, A, a)
             /\ i.op \in RegisterOps /\ i.arg = "EXCEPTION_REG" => Computes(c, L, A, a)
             /\ i.op \in RegisterOps /\ i.arg # "EXCEPTION_REG" => Moves(c, L, a)
             /\ i.op \in MoveOps => Moves(c, L, a) \/ (i.op = "SWAP" /\ Leaves(c, L, a))
             /\ i.op = "JUMP_REL_CONDITIONAL" => Forks(c, L, a)
             /\ i.op \in BindOps => Binds(c, L, a)
             /\ i.op \in MakeOps => Makes(c, L, A, a)
             /\ i.op \in EnterOps => Enters(c, L, a)
             /\ i.op = "JUMP" => L[a].mode = RETURNING
             /\ L[a].mode = RETURNING => i.op \in {"JUMP", "PATTERN_MATCH_FAIL", "END"}
<1> DEFINE i == Instr(c, a)
<1>1. Computes(c, L, A, a) => (i.op \in PlainOps \/ (i.op \in RegisterOps /\ i.arg = "EXCEPTION_REG")) /\ L[a].mode = READY
  BY DEF Computes, IsPlain, PlainOps, RegisterOps
<1>2. Moves(c, L, a) => /\ i.op \in MoveOps \/ (i.op \in RegisterOps /\ i.arg # "EXCEPTION_REG")
                        /\ L[a].mode \in {READY, FAILING}
  BY DEF Moves, MoveOps, RegisterOps
<1>3. Forks(c, L, a) => i.op = "JUMP_REL_CONDITIONAL" /\ L[a].mode # RETURNING
  BY DEF Forks, READY, RETURNING, Kind
<1>4. Binds(c, L, a) => i.op \in BindOps /\ L[a].mode # RETURNING
  BY DEF Binds, BindOps, IsMade, READY, RETURNING, Kind
<1>5. Makes(c, L, A, a) => i.op \in MakeOps /\ L[a].mode # RETURNING
  BY DEF Makes, MakeOps, READY, RETURNING, Kind
<1>6. Enters(c, L, a) => i.op \in EnterOps /\ L[a].mode # RETURNING
  <2>1. Enters(c, L, a) => \/ i.op = "EVAL" /\ Waits(L[a])
                           \/ i.op = "JUMP_GLOBALS" /\ L[a].mode = READY
                           \/ i.op = "UPDATE_THUNK" /\ L[a].mode = READY
                           \/ i.op = "HANDLE_CONTINUATION" /\ L[a].mode = APPLYING
    BY Zenon DEF Enters
  <2>2. READY # RETURNING /\ APPLYING # RETURNING
    BY DEF READY, APPLYING, RETURNING, Kind
  <2>3. Waits(L[a]) => L[a].mode \in {READY, APPLYING}
    BY DEF Waits
  <2> QED BY <2>1, <2>2, <2>3 DEF EnterOps
<1>7. Leaves(c, L, a) => \/ i.op = "SWAP" /\ L[a].mode = READY
                         \/ i.op = "JUMP" /\ L[a].mode = RETURNING
                         \/ i.op \in {"PATTERN_MATCH_FAIL", "END"}
  BY DEF Leaves
<1>8. \/ Computes(c, L, A, a) \/ Moves(c, L, a) \/ Forks(c, L, a) \/ Binds(c, L, a)
      \/ Makes(c, L, A, a) \/ Enters(c, L, a) \/ Leaves(c, L, a)
  BY DEF Obeys
<1>9. READY # RETURNING /\ FAILING # RETURNING
  BY DEF READY, FAILING, RETURNING, Kind
<1> HIDE DEF i
<1>10. /\ i.op \in PlainOps => Computes(c, L, A, a)
       /\ i.op \in RegisterOps /\ i.arg = "EXCEPTION_REG" => Computes(c, L, A, a)
       /\ i.op \in RegisterOps /\ i.arg # "EXCEPTION_REG" => Moves(c, L, a)
       /\ i.op \in MoveOps => Moves(c, L, a) \/ (i.op = "SWAP" /\ Leaves(c, L, a))
  BY <1>1, <1>2, <1>3, <1>4, <1>5, <1>6, <1>7, <1>8
     DEF PlainOps, RegisterOps, MoveOps, BindOps, MakeOps, EnterOps
<1>11. /\ i.op = "JUMP_REL_CONDITIONAL" => Forks(c, L, a)
       /\ i.op \in BindOps => Binds(c, L, a)
       /\ i.op \in MakeOps => Makes(c, L, A, a)
       /\ i.op \in EnterOps => Enters(c, L, a)
       /\ i.op = "JUMP" => L[a].mode = RETURNING
  BY <1>1, <1>2, <1>3, <1>4, <1>5, <1>6, <1>7, <1>8
     DEF PlainOps, RegisterOps, MoveOps, BindOps, MakeOps, EnterOps
<1>12. L[a].mode = RETURNING => i.op \in {"JUMP", "PATTERN_MATCH_FAIL", "END"}
  BY <1>1, <1>2, <1>3, <1>4, <1>5, <1>6, <1>7, <1>8, <1>9
<1> QED BY <1>10, <1>11, <1>12 DEF i

-----------------------------------------------------------------------------
(* The machine within a function, and what a step makes of it.             *)
Running(L, A, fr, m, low, base, blow) ==
  /\ AllLayouts(L)
  /\ InFrame(chunk, L, A, heap, stack, bindings, reg_1, exception_reg, ip, fr, m, low, base, blow)
GoesOnWell(L, A) ==
  /\ KeepsTo(chunk, L, A, heap', stack', bindings', reg_1', exception_reg', ip')
  /\ status' = "running"
StopsWell ==
  /\ UNCHANGED <<ip, stack, bindings, reg_1, heap, exception_reg>>
  /\ \/ status' = "error"
     \/ status' = "ok" /\ op = "END"
     \/ status' = "fault" /\ op \in {"DIVIDE", "CALL_EXTERN"}
Sound(L, A) == GoesOnWell(L, A) \/ StopsWell
Here == Instr(chunk, ip)
ObeysHere(L, A) == Obeys(chunk, L, A, ip)

\* The instruction that is executed.
LEMMA HereIs == Here.op = op /\ Here.arg = arg /\ Beyond(chunk, ip) = next
BY DEF Here, op, arg, Instr, At, Beyond, next

\* runtime_error ends the execution.
LEMMA ErrorHere ==
  ASSUME NEW L, NEW A, runtime_error
  PROVE  Sound(L, A)
BY DEF runtime_error, Stop, Sound, StopsWell, outside

\* A panic of these instructions is one of the values, not of the layouts.
LEMMA PanicHere ==
  ASSUME NEW L, NEW A, Panic, op \in {"DIVIDE", "CALL_EXTERN"}
  PROVE  Sound(L, A)
BY DEF Panic, Stop, Sound, StopsWell, outside

\* An instruction that makes one object of its operands.
LEMMA AllocatedHere ==
  ASSUME NEW L, NEW A, NEW fr, NEW m, NEW low, NEW base, NEW blow, Running(L, A, fr, m, low, base, blow),
         Computes(chunk, L, A, ip), Left(Here) = 1, NEW n, Taken(Here) = n,
         NEW object, Fits(object, heap', chunk, A, READY),
         Allocate(n, object), Advance, UNCHANGED <<bindings, reg_1, exception_reg>>
  PROVE  Sound(L, A)
<1>1. IsAppended(heap', heap, object) /\ IsReplaced(stack', stack, Taken(Here), <<Val(Len(heap) + 1)>>)
  BY DEF Allocate, Replace, IsAppended, IsReplaced
<1>2. KeepsTo(chunk, L, A, heap', stack', bindings, reg_1, exception_reg, Beyond(chunk, ip))
  BY <1>1, Allocated DEF Running, Here
<1> QED BY <1>2, HereIs DEF Advance, Sound, GoesOnWell

\* An instruction that leaves a reference for its operands.
LEMMA ReplacedHere ==
  ASSUME NEW L, NEW A, NEW fr, NEW m, NEW low, NEW base, NEW blow, Running(L, A, fr, m, low, base, blow),
         Computes(chunk, L, A, ip), Left(Here) = 1, NEW n, Taken(Here) = n,
         NEW w \in Words, IsRef(heap, w),
         Replace(n, <<w>>), Advance, UNCHANGED <<bindings, reg_1, heap, exception_reg>>
  PROVE  Sound(L, A)
<1> DEFINE ws == <<w>>
<1>1. IsReplaced(stack', stack, Taken(Here), ws)
  BY DEF Replace, IsReplaced
<1>2. Grows(heap, heap) /\ exception_reg \in Words /\ IsRef(heap, exception_reg) /\ AllLayouts(L)
  BY HeapKept, RegStays DEF Running
<1>3. GoodHeap(heap, READY, chunk, A)
  BY DEF Running, InFrame, Computes
<1>4. ws = <<w>>
  OBVIOUS
<1> HIDE DEF ws
<1>5. References(heap, ws) /\ Len(ws) = 1
  BY <1>4, OneReference
<1>6. KeepsTo(chunk, L, A, heap, stack', bindings, reg_1, exception_reg, Beyond(chunk, ip))
  BY <1>1, <1>2, <1>3, <1>5, Computed DEF Running, Here
<1> QED BY <1>6, HereIs DEF Advance, Sound, GoesOnWell

\* The boxed truth values are objects, made before the first instruction.
LEMMA Boxed ==
  ASSUME NEW L, NEW A, NEW fr, NEW m, NEW low, NEW base, NEW blow, Running(L, A, fr, m, low, base, blow),
         NEW condition
  PROVE  Box(condition) \in Words /\ IsRef(heap, Box(condition))
<1>1. IsList(heap) /\ 3 \in DOMAIN heap
  BY DEF Running, InFrame, GoodHeap, FALSE_BOX
<1>2. 2 \in DOMAIN heap
  BY <1>1, ListLength
<1> QED BY <1>1, <1>2 DEF Box, Val, Words, IsRef, TRUE_BOX, FALSE_BOX

(* The operands of an instruction are references.                          *)
LEMMA OperandsHere ==
  ASSUME NEW L, NEW A, NEW fr, NEW m, NEW low, NEW base, NEW blow, Running(L, A, fr, m, low, base, blow),
         Computes(chunk, L, A, ip), NEW i \in Nat, i < Taken(Here)
  PROVE  /\ i < Len(stack) /\ Word(i) \in Words /\ IsRef(heap, Word(i)) /\ Ref(i) \in DOMAIN heap
         /\ Shaped(Obj(i), heap, chunk, A) /\ Filled(Obj(i), heap)
         /\ \A k \in DOMAIN Obj(i).fields : Obj(i).fields[k] \in DOMAIN heap
<1> DEFINE n == Taken(Here)
<1>1. n \in Nat /\ HasReferences(L[ip], n) /\ L[ip].mode = READY
  BY Sizes DEF Computes, Here
<1>2. i \in 0..(n - 1)
  BY <1>1
<1>3. /\ Len(stack) \in Nat /\ Len(stack) >= n
      /\ Len(stack) - i \in DOMAIN stack /\ stack[Len(stack) - i] \in Words /\ IsRef(heap, stack[Len(stack) - i])
  BY <1>1, <1>2, ReferencesOnTop DEF Running
<1>4. i < Len(stack) /\ Word(i) \in Words /\ IsRef(heap, Word(i)) /\ Ref(i) \in DOMAIN heap
  BY <1>1, <1>2, <1>3 DEF Word, Ref, IsRef
<1>5. GoodHeap(heap, READY, chunk, A) /\ ~IsMade(READY)
  BY <1>1 DEF Running, InFrame, IsMade, READY, Kind
<1>6. Shaped(Obj(i), heap, chunk, A) /\ Filled(Obj(i), heap)
  BY <1>4, <1>5 DEF GoodHeap, Obj
<1> QED BY <1>4, <1>6 DEF Filled

-----------------------------------------------------------------------------
(* Arithmetic.                                                             *)
TestOps == {"IS_CONS", "IS_OBJ", "IS_INT", "IS_BOOL", "IS_UNIT"}
\* How many values a plain instruction takes and leaves.
LEMMA PlainHere ==
  ASSUME NEW L, NEW A, ObeysHere(L, A), op \in PlainOps
  PROVE  /\ Computes(chunk, L, A, ip)
         /\ op \notin {"CALL_EXTERN", "PARTIAL_APPLY"} => Taken(Here) = Operands(op)
         /\ op \notin TestOps \cup {"CALL_EXTERN"} => Left(Here) = 1
         /\ op \in TestOps => Left(Here) = 2
<1>1. Computes(chunk, L, A, ip)
  BY HereIs, Sorts DEF ObeysHere, Here
<1>2. op \notin {"CALL_EXTERN", "PARTIAL_APPLY"} => Taken(Here) = Operands(op)
  BY HereIs DEF Taken, PlainOps
<1>3. op \notin TestOps \cup {"CALL_EXTERN"} => Left(Here) = 1
  BY HereIs DEF Left, PlainOps, TestOps
<1>4. op \in TestOps => Left(Here) = 2
  BY HereIs DEF Left, TestOps
<1> QED BY <1>1, <1>2, <1>3, <1>4

\* An instruction that makes a number of its operands.
LEMMA NumberHere ==
  ASSUME NEW L, NEW A, NEW fr, NEW m, NEW low, NEW base, NEW blow, Running(L, A, fr, m, low, base, blow),
         Computes(chunk, L, A, ip), Left(Here) = 1, NEW n, Taken(Here) = n, NEW k,
         Allocate(n, Object("int", k, <<>>, 0, TRUE)), Continue, UNCHANGED <<bindings, reg_1>>
  PROVE  Sound(L, A)
<1> DEFINE object == Object("int", k, <<>>, 0, TRUE)
           int == "int"
<1>1. object = Object(int, k, <<>>, 0, TRUE) /\ int \notin {"closure", "thunk", "application", "cons", "object"}
  OBVIOUS
<1>2. Allocate(n, object)
  OBVIOUS
<1> HIDE DEF object, int
<1>3. Fits(object, heap', chunk, A, READY)
  BY <1>1, BoxFits
<1> QED BY <1>2, <1>3, AllocatedHere DEF Continue, outside

\* A number for a number.
LEMMA NEGATE_Sound ==
  ASSUME NEW L, NEW A, NEW fr, NEW m, NEW low, NEW base, NEW blow, Running(L, A, fr, m, low, base, blow),
         ObeysHere(L, A), NEGATE
  PROVE  Sound(L, A)
<1>1. op = "NEGATE"
  BY DEF NEGATE, Op
<1>2. Computes(chunk, L, A, ip) /\ Taken(Here) = 1 /\ Left(Here) = 1
  BY <1>1, PlainHere DEF PlainOps, TestOps, Operands
<1>3. runtime_error \/ (Allocate(1, Object("int", -Obj(0).n, <<>>, 0, TRUE)) /\ Continue /\ UNCHANGED <<bindings, reg_1>>)
  BY DEF NEGATE
<1> QED BY <1>2, <1>3, NumberHere, ErrorHere

\* A truth value for a truth value.
LEMMA NOT_Sound ==
  ASSUME NEW L, NEW A, NEW fr, NEW m, NEW low, NEW base, NEW blow, Running(L, A, fr, m, low, base, blow),
         ObeysHere(L, A), NOT
  PROVE  Sound(L, A)
<1>1. op = "NOT"
  BY DEF NOT, Op
<1>2. Computes(chunk, L, A, ip) /\ Taken(Here) = 1 /\ Left(Here) = 1
  BY <1>1, PlainHere DEF PlainOps, TestOps, Operands
<1> DEFINE w == Box(Obj(0).n = 0)
<1>3. runtime_error \/ (Replace(1, <<w>>) /\ Continue /\ UNCHANGED <<bindings, reg_1, heap>>)
  BY DEF NOT
<1>4. w \in Words /\ IsRef(heap, w)
  BY Boxed
<1> HIDE DEF w
<1> QED BY <1>2, <1>3, <1>4, ReplacedHere, ErrorHere DEF Continue, outside

\* A truth value for two numbers.
LEMMA COMPARISON_Sound ==
  ASSUME NEW L, NEW A, NEW fr, NEW m, NEW low, NEW base, NEW blow, Running(L, A, fr, m, low, base, blow),
         ObeysHere(L, A), COMPARISON_BIN_OP
  PROVE  Sound(L, A)
<1>1. op \in {"LESS", "GREATER"}
  BY DEF COMPARISON_BIN_OP, Op
<1>2. Computes(chunk, L, A, ip) /\ Taken(Here) = 2 /\ Left(Here) = 1
  BY <1>1, PlainHere DEF PlainOps, TestOps, Operands
<1> DEFINE w == Box(IF op = "LESS" THEN Obj(1).n < Obj(0).n ELSE Obj(1).n > Obj(0).n)
<1>3. runtime_error \/ (Replace(2, <<w>>) /\ Continue /\ UNCHANGED <<bindings, reg_1, heap>>)
  BY DEF COMPARISON_BIN_OP
<1>4. w \in Words /\ IsRef(heap, w)
  BY Boxed
<1> HIDE DEF w
<1> QED BY <1>2, <1>3, <1>4, ReplacedHere, ErrorHere DEF Continue, outside

\* A truth value for two values.
LEMMA EQUAL_Sound ==
  ASSUME NEW L, NEW A, NEW fr, NEW m, NEW low, NEW base, NEW blow, Running(L, A, fr, m, low, base, blow),
         ObeysHere(L, A), EQUAL
  PROVE  Sound(L, A)
<1>1. op = "EQUAL"
  BY DEF EQUAL, Op
<1>2. Computes(chunk, L, A, ip) /\ Taken(Here) = 2 /\ Left(Here) = 1
  BY <1>1, PlainHere DEF PlainOps, TestOps, Operands
<1> DEFINE w == Box(Obj(0).n = Obj(1).n)
<1>3. runtime_error \/ (Replace(2, <<w>>) /\ Continue /\ UNCHANGED <<bindings, reg_1, heap>>)
  BY DEF EQUAL
<1>4. w \in Words /\ IsRef(heap, w)
  BY Boxed
<1> HIDE DEF w
<1> QED BY <1>2, <1>3, <1>4, ReplacedHere, ErrorHere DEF Continue, outside

\* A number for two; of DIVIDE by zero nothing is said.
LEMMA NUM_BIN_OP_Sound ==
  ASSUME NEW L, NEW A, NEW fr, NEW m, NEW low, NEW base, NEW blow, Running(L, A, fr, m, low, base, blow),
         ObeysHere(L, A), NUM_BIN_OP
  PROVE  Sound(L, A)
<1>1. op \in {"ADD", "SUBTRACT", "MULTIPLY", "DIVIDE"}
  BY DEF NUM_BIN_OP, Op
<1>2. Computes(chunk, L, A, ip) /\ Taken(Here) = 2 /\ Left(Here) = 1
  BY <1>1, PlainHere DEF PlainOps, TestOps, Operands
<1> DEFINE result == LET r == Obj(0).n
                         l == Obj(1).n
                     IN  CASE op = "ADD" -> l + r
                           [] op = "SUBTRACT" -> l - r
                           [] op = "MULTIPLY" -> l * r
                           [] op = "DIVIDE" -> Quotient(l, r)
<1>3. \/ op = "DIVIDE" /\ Panic
      \/ runtime_error
      \/ Allocate(2, Object("int", result, <<>>, 0, TRUE)) /\ Continue /\ UNCHANGED <<bindings, reg_1>>
  BY DEF NUM_BIN_OP
<1> HIDE DEF result
<1> QED BY <1>2, <1>3, NumberHere, ErrorHere, PanicHere

(* Constants.                                                              *)
LEMMA PUSH_CONST_Sound ==
  ASSUME NEW L, NEW A, NEW fr, NEW m, NEW low, NEW base, NEW blow, Running(L, A, fr, m, low, base, blow),
         ObeysHere(L, A), PUSH_CONST
  PROVE  Sound(L, A)
<1>1. op = "PUSH_CONST"
  BY DEF PUSH_CONST, Op
<1>2. Computes(chunk, L, A, ip) /\ Taken(Here) = 0 /\ Left(Here) = 1
  BY <1>1, PlainHere DEF PlainOps, TestOps, Operands
<1>3. arg \in DOMAIN chunk.constants
  BY <1>1, <1>2, HereIs DEF Computes, Here
<1> DEFINE w == Val(arg)
<1>4. Replace(0, <<w>>) /\ Continue /\ UNCHANGED <<bindings, reg_1, heap>>
  BY <1>3 DEF PUSH_CONST
<1>5. w \in Words /\ IsRef(heap, w)
  <2>1. arg \in DOMAIN heap /\ IsList(heap)
    BY <1>3 DEF Running, InFrame, GoodHeap
  <2>2. arg \in Int
    BY <2>1, ListLength
  <2> QED BY <2>1, <2>2 DEF Val, Words, IsRef
<1> HIDE DEF w
<1> QED BY <1>2, <1>4, <1>5, ReplacedHere DEF Continue, outside

\* A boxed truth value.
LEMMA PUSH_BOOL_Sound ==
  ASSUME NEW L, NEW A, NEW fr, NEW m, NEW low, NEW base, NEW blow, Running(L, A, fr, m, low, base, blow),
         ObeysHere(L, A), PUSH_BOOL
  PROVE  Sound(L, A)
<1>1. op \in {"TRUE", "FALSE"}
  BY DEF PUSH_BOOL, Op
<1>2. Computes(chunk, L, A, ip) /\ Taken(Here) = 0 /\ Left(Here) = 1
  BY <1>1, PlainHere DEF PlainOps, TestOps, Operands
<1> DEFINE w == Box(op = "TRUE")
<1>3. Replace(0, <<w>>) /\ Continue /\ UNCHANGED <<bindings, reg_1, heap>>
  BY DEF PUSH_BOOL
<1>4. w \in Words /\ IsRef(heap, w)
  BY Boxed
<1> HIDE DEF w
<1> QED BY <1>2, <1>3, <1>4, ReplacedHere DEF Continue, outside

(* Objects.                                                                *)
LEMMA HeapHere ==
  ASSUME NEW L, NEW A, NEW fr, NEW m, NEW low, NEW base, NEW blow, Running(L, A, fr, m, low, base, blow),
         NEW n, NEW object, Allocate(n, object)
  PROVE  /\ \A i \in DOMAIN heap : i \in DOMAIN heap' /\ i \in Nat \ {0} /\ heap'[i] = heap[i]
         /\ DOMAIN heap = 1..Len(heap) /\ Len(heap) \in Nat
<1>1. IsList(heap) /\ IsAppended(heap', heap, object)
  BY DEF Running, InFrame, GoodHeap, Allocate, IsAppended
<1>2. /\ Len(heap) \in Nat /\ DOMAIN heap = 1..Len(heap) /\ DOMAIN heap' = 1..(Len(heap) + 1)
      /\ \A i \in DOMAIN heap : heap'[i] = heap[i]
  BY <1>1, Appended
<1> QED BY <1>2

\* One part of a pair.
LEMMA READ_CONS_Sound ==
  ASSUME NEW L, NEW A, NEW fr, NEW m, NEW low, NEW base, NEW blow, Running(L, A, fr, m, low, base, blow),
         ObeysHere(L, A), READ_CONS
  PROVE  Sound(L, A)
<1>1. op \in {"HEAD", "TAIL"}
  BY DEF READ_CONS, Op
<1>2. Computes(chunk, L, A, ip) /\ Taken(Here) = 1 /\ Left(Here) = 1
  BY <1>1, PlainHere DEF PlainOps, TestOps, Operands
<1> DEFINE w == Val(Obj(0).fields[IF op = "HEAD" THEN 1 ELSE 2])
<1>3. runtime_error \/ (Obj(0).type = "cons" /\ Replace(1, <<w>>) /\ Continue /\ UNCHANGED <<bindings, reg_1, heap>>)
  BY DEF READ_CONS
<1>4. ASSUME Obj(0).type = "cons"
      PROVE  w \in Words /\ IsRef(heap, w)
  <2> DEFINE fields == Obj(0).fields
             k == IF op = "HEAD" THEN 1 ELSE 2
  <2>1. /\ Shaped(Obj(0), heap, chunk, A)
        /\ \A j \in DOMAIN fields : fields[j] \in DOMAIN heap
    BY <1>2, OperandsHere
  <2>2. fields \in Seq(Nat) /\ Len(fields) = 2
    BY <1>4, <2>1 DEF Shaped
  <2>3. k \in DOMAIN fields
    BY <2>2, LenProperties
  <2>4. fields[k] \in Nat /\ fields[k] \in DOMAIN heap
    BY <2>1, <2>2, <2>3, ElementOfSeq, LenProperties
  <2> QED BY <2>4 DEF Val, Words, IsRef
<1> HIDE DEF w
<1> QED BY <1>2, <1>3, <1>4, ReplacedHere, ErrorHere DEF Continue, outside

\* A pair of two values.
LEMMA CREATE_CONS_Sound ==
  ASSUME NEW L, NEW A, NEW fr, NEW m, NEW low, NEW base, NEW blow, Running(L, A, fr, m, low, base, blow),
         ObeysHere(L, A), CREATE_CONS
  PROVE  Sound(L, A)
<1>1. op = "CREATE_CONS"
  BY DEF CREATE_CONS, Op
<1>2. Computes(chunk, L, A, ip) /\ Taken(Here) = 2 /\ Left(Here) = 1
  BY <1>1, PlainHere DEF PlainOps, TestOps, Operands
<1> DEFINE fields == <<Ref(0), Ref(1)>>
           object == Object("cons", 0, fields, 0, TRUE)
<1>3. Allocate(2, object) /\ Continue /\ UNCHANGED <<bindings, reg_1>>
  BY DEF CREATE_CONS
<1>4. Ref(0) \in DOMAIN heap /\ Ref(1) \in DOMAIN heap
  BY <1>2, OperandsHere
<1>5. \A i \in DOMAIN heap : i \in DOMAIN heap' /\ i \in Nat
  <2> HIDE DEF object
  <2> QED BY <1>3, HeapHere
<1>6. fields \in Seq(Nat) /\ Len(fields) = 2 /\ \A k \in DOMAIN fields : fields[k] \in DOMAIN heap'
  BY <1>4, <1>5
<1>7. Fits(object, heap', chunk, A, READY)
  <2> HIDE DEF fields
  <2>1. IsObject(object) /\ object.type = "cons" /\ object.fields = fields /\ object.link = 0
    BY DEF Object, IsObject
  <2> HIDE DEF object
  <2> QED BY <1>6, <2>1 DEF Fits, Shaped, Filled, IsMade, READY, Kind
<1> HIDE DEF object
<1> QED BY <1>2, <1>3, <1>7, AllocatedHere DEF Continue, outside

\* The bindings of the function that is executed are the last ones.
LEMMA BindingsHere ==
  ASSUME NEW L, NEW A, NEW fr, NEW m, NEW low, NEW base, NEW blow, Running(L, A, fr, m, low, base, blow),
         L[ip].mode # FAILING
  PROVE  /\ bindings \in Seq(Nat) /\ Len(bindings) \in Nat /\ DOMAIN bindings = 1..Len(bindings)
         /\ \A n \in DOMAIN bindings : bindings[n] \in DOMAIN heap /\ bindings[n] \in Nat
         /\ blow \in Nat /\ Len(L[ip].binds) \in Nat /\ DOMAIN L[ip].binds = 1..Len(L[ip].binds)
         /\ Len(bindings) = blow + Len(L[ip].binds)
<1>1. /\ bindings \in Seq(Nat) /\ \A n \in DOMAIN bindings : bindings[n] \in DOMAIN heap
      /\ blow \in Nat /\ Len(bindings) = blow + Len(L[ip].binds) /\ IsList(L[ip].binds)
  BY DEF Running, InFrame, Typed, Current, AllLayouts, IsLayout
<1>2. Len(bindings) \in Nat /\ DOMAIN bindings = 1..Len(bindings)
  BY <1>1, LenProperties
<1>3. \A n \in DOMAIN bindings : bindings[n] \in Nat
  BY <1>1, <1>2, ElementOfSeq
<1> QED BY <1>1, <1>2, <1>3, ListLength

\* An object of as many fields as its constructor has arguments.
LEMMA CREATE_OBJECT_Sound ==
  ASSUME NEW L, NEW A, NEW fr, NEW m, NEW low, NEW base, NEW blow, Running(L, A, fr, m, low, base, blow),
         ObeysHere(L, A), CREATE_OBJECT
  PROVE  Sound(L, A)
<1>1. op = "CREATE_OBJECT"
  BY DEF CREATE_OBJECT, Op
<1>2. Computes(chunk, L, A, ip) /\ Taken(Here) = 0 /\ Left(Here) = 1
  BY <1>1, PlainHere DEF PlainOps, TestOps, Operands
<1>3. /\ arg.arg_count \in 0..Len(L[ip].binds) /\ arg.variant \in DOMAIN A /\ A[arg.variant] = arg.arg_count
      /\ L[ip].mode # FAILING
  BY <1>1, <1>2, HereIs DEF Computes, Here, READY, FAILING, Kind
<1>4. /\ bindings \in Seq(Nat) /\ Len(bindings) \in Nat /\ DOMAIN bindings = 1..Len(bindings)
      /\ \A n \in DOMAIN bindings : bindings[n] \in DOMAIN heap
      /\ Len(bindings) >= Len(L[ip].binds) /\ Len(L[ip].binds) \in Nat
  BY <1>3, BindingsHere
<1> DEFINE n == Len(bindings)
           count == arg.arg_count
           fields == SubSeq(bindings, n - count + 1, n)
           object == Object("object", arg.variant, fields, 0, TRUE)
<1>5. Allocate(0, object) /\ Continue /\ UNCHANGED <<bindings, reg_1>>
  <2>1. ~(arg.arg_count > Len(bindings))
    BY <1>3, <1>4
  <2> QED BY <2>1, Zenon DEF CREATE_OBJECT
<1>6. \A i \in DOMAIN heap : i \in DOMAIN heap' /\ i \in Nat
  <2> HIDE DEF object
  <2> QED BY <1>5, HeapHere
<1>7. fields \in Seq(Nat) /\ Len(fields) = count /\ \A k \in DOMAIN fields : fields[k] \in DOMAIN heap'
  <2>1. count \in 0..n /\ n - count + 1 \in 1..(n + 1) /\ n \in 0..n /\ n \in Nat
    BY <1>3, <1>4
  <2>2. /\ fields \in Seq(Nat) /\ Len(fields) = count
        /\ \A k \in 1..count : fields[k] = bindings[n - count + k]
    <3>1. IsEnd(fields, bindings, count)
      BY DEF IsEnd
    <3>2. bindings \in Seq(Nat) /\ count \in 0..Len(bindings)
      BY <1>4, <2>1
    <3> HIDE DEF fields, count
    <3>3. /\ fields \in Seq(Nat) /\ Len(fields) = count
          /\ \A k \in 1..count : fields[k] = bindings[Len(bindings) - count + k]
      BY ONLY <3>1, <3>2, LastOnes
    <3> QED BY <3>3
  <2>3. DOMAIN fields = 1..count
    BY <2>2, LenProperties
  <2>4. \A k \in 1..count : n - count + k \in DOMAIN bindings
    <3>1. DOMAIN bindings = 1..n
      BY <1>4
    <3> HIDE DEF n, count
    <3>2. \A k \in 1..count : n - count + k \in 1..n
      BY ONLY <2>1
    <3> QED BY ONLY <3>1, <3>2
  <2> QED BY <1>4, <1>6, <2>2, <2>3, <2>4
<1>8. Fits(object, heap', chunk, A, READY)
  <2> HIDE DEF fields
  <2>1. IsObject(object) /\ object.type = "object" /\ object.n = arg.variant /\ object.fields = fields /\ object.link = 0
    BY DEF Object, IsObject
  <2> HIDE DEF object
  <2> QED BY <1>3, <1>7, <2>1 DEF Fits, Shaped, Filled, IsMade, READY, Kind
<1> HIDE DEF object
<1> QED BY <1>2, <1>5, <1>8, AllocatedHere DEF Continue, outside

(* An operand that is kept is taken and left.                              *)
LEMMA KeptOnTop ==
  ASSUME NEW S, NEW s \in Seq(S), 1 \in 0..Len(s), NEW w \in S, NEW new, IsReplaced(new, s, 0, <<w>>),
         NEW ws, ws = <<s[Len(s)], w>>
  PROVE  IsReplaced(new, s, 1, ws) /\ ws \in Seq(S) /\ Len(ws) = 2 /\ ws[1] = s[Len(s)] /\ ws[2] = w
<1> DEFINE n == Len(s)
           one == <<w>>
           other == Drop(s, 1) \o ws
           none == 0
           single == 1
<1>1. n \in Nat /\ n >= 1 /\ s[n] \in S
  BY LenProperties, ElementOfSeq
<1>2. /\ one \in Seq(S) /\ Len(one) = 1 /\ one[1] = w
      /\ ws \in Seq(S) /\ Len(ws) = 2 /\ ws[1] = s[n] /\ ws[2] = w
  BY <1>1
<1>3. /\ IsReplaced(new, s, none, one) /\ IsReplaced(other, s, single, ws) /\ none \in 0..n /\ single \in 0..n
      /\ none = 0 /\ single = 1
  BY <1>1 DEF IsReplaced
<1>10. n = Len(s) /\ other = Drop(s, 1) \o ws
  OBVIOUS
<1> HIDE DEF n, one, other, none, single
<1>4. /\ new \in Seq(S) /\ Len(new) = n - none + Len(one)
      /\ \A i \in 1..(n - none) : new[i] = s[i]
      /\ \A i \in 1..Len(one) : new[n - none + i] = one[i]
  <2>1. one \in Seq(S) /\ none \in 0..Len(s) /\ IsReplaced(new, s, none, one)
    BY ONLY <1>2, <1>3, <1>10
  <2>2. /\ new \in Seq(S) /\ Len(new) = Len(s) - none + Len(one)
        /\ \A i \in 1..(Len(s) - none) : new[i] = s[i]
        /\ \A i \in 1..Len(one) : new[Len(s) - none + i] = one[i]
    BY ONLY <2>1, s \in Seq(S), TopReplaced
  <2> QED BY ONLY <2>2, <1>10
<1>5. /\ other \in Seq(S) /\ Len(other) = n - single + Len(ws)
      /\ \A i \in 1..(n - single) : other[i] = s[i]
      /\ \A i \in 1..Len(ws) : other[n - single + i] = ws[i]
  <2>1. ws \in Seq(S) /\ single \in 0..Len(s) /\ IsReplaced(other, s, single, ws)
    BY ONLY <1>2, <1>3, <1>10
  <2>2. /\ other \in Seq(S) /\ Len(other) = Len(s) - single + Len(ws)
        /\ \A i \in 1..(Len(s) - single) : other[i] = s[i]
        /\ \A i \in 1..Len(ws) : other[Len(s) - single + i] = ws[i]
    BY ONLY <2>1, s \in Seq(S), TopReplaced
  <2> QED BY ONLY <2>2, <1>10
<1>6. /\ Len(new) = n + 1 /\ Len(other) = n + 1 /\ new[n + 1] = w /\ other[n] = s[n] /\ other[n + 1] = w
      /\ \A i \in 1..n : new[i] = s[i]
      /\ \A i \in 1..(n - 1) : other[i] = s[i]
  <2>1. 1 \in 1..Len(ws) /\ 2 \in 1..Len(ws) /\ 1 \in 1..Len(one) /\ n - single + 1 = n /\ n - single + 2 = n + 1
        /\ n - none + 1 = n + 1
    BY <1>1, <1>2, <1>3
  <2>2. new[n - none + 1] = one[1] /\ other[n - single + 1] = ws[1] /\ other[n - single + 2] = ws[2]
    BY <1>4, <1>5, <2>1
  <2> QED BY <1>1, <1>2, <1>3, <1>4, <1>5, <2>1, <2>2
<1>7. ASSUME NEW i \in 1..(n + 1)
      PROVE  new[i] = other[i]
  <2>1. i \in 1..(n - 1) \/ i = n \/ i = n + 1
    BY <1>1
  <2>2. n \in 1..n /\ \A j \in 1..(n - 1) : j \in 1..n
    BY <1>1
  <2> QED BY <1>6, <2>1, <2>2
<1> DEFINE k == n + 1
<1>8. k \in Nat /\ Len(new) = k /\ Len(other) = k /\ \A i \in 1..k : new[i] = other[i]
  BY <1>1, <1>6, <1>7
<1> HIDE DEF k
<1>9. new = other
  BY <1>4, <1>5, <1>8, SameSeq
<1> QED BY <1>2, <1>9, <1>10 DEF IsReplaced

\* A truth value above the value that was tested.
LEMMA IS_TYPE_Sound ==
  ASSUME NEW L, NEW A, NEW fr, NEW m, NEW low, NEW base, NEW blow, Running(L, A, fr, m, low, base, blow),
         ObeysHere(L, A), IS_TYPE
  PROVE  Sound(L, A)
<1>1. op \in TestOps
  BY DEF IS_TYPE, Op, TestOps
<1>2. Computes(chunk, L, A, ip) /\ Taken(Here) = 1 /\ Left(Here) = 2
  BY <1>1, PlainHere DEF PlainOps, TestOps, Operands
<1>3. PICK condition : Test(condition)
  BY DEF IS_TYPE
<1> DEFINE w == Box(condition)
           ws == <<Word(0), w>>
<1>4. Replace(0, <<w>>) /\ Continue /\ UNCHANGED <<bindings, reg_1, heap>>
  BY <1>3 DEF Test
<1>5. w \in Words /\ IsRef(heap, w)
  BY Boxed
<1>6. /\ 0 < Len(stack) /\ Word(0) \in Words /\ IsRef(heap, Word(0)) /\ stack \in Seq(Words)
      /\ Word(0) = stack[Len(stack)]
  <2>1. stack \in Seq(Words)
    BY DEF Running, InFrame, Typed
  <2>2. Len(stack) - 0 = Len(stack)
    BY <2>1, LenProperties
  <2> QED BY <1>2, <2>1, <2>2, OperandsHere DEF Word
<1>7. 1 \in 0..Len(stack)
  BY <1>6, LenProperties
<1>8. ws = <<stack[Len(stack)], w>> /\ IsReplaced(stack', stack, 0, <<w>>)
  BY <1>4, <1>6 DEF Replace, IsReplaced
<1> HIDE DEF w, ws
<1>9. IsReplaced(stack', stack, 1, ws) /\ ws \in Seq(Words) /\ Len(ws) = 2 /\ ws[1] = Word(0) /\ ws[2] = w
  BY <1>5, <1>6, <1>7, <1>8, KeptOnTop
<1>10. References(heap, ws)
  <2>1. 1..2 = {1, 2}
    OBVIOUS
  <2> QED BY <1>5, <1>6, <1>9, <2>1 DEF References
<1>11. GoodHeap(heap, READY, chunk, A)
  BY <1>2 DEF Running, InFrame, Computes
<1>12. Grows(heap, heap) /\ exception_reg \in Words /\ IsRef(heap, exception_reg) /\ AllLayouts(L)
  BY HeapKept, RegStays DEF Running
<1>13. KeepsTo(chunk, L, A, heap, stack', bindings, reg_1, exception_reg, Beyond(chunk, ip))
  BY <1>2, <1>9, <1>10, <1>11, <1>12, Computed DEF Running, Here
<1> QED BY <1>4, <1>13, HereIs DEF Advance, Continue, outside, Sound, GoesOnWell

\* A function and its arguments become an application.
LEMMA PARTIAL_APPLY_Sound ==
  ASSUME NEW L, NEW A, NEW fr, NEW m, NEW low, NEW base, NEW blow, Running(L, A, fr, m, low, base, blow),
         ObeysHere(L, A), PARTIAL_APPLY
  PROVE  Sound(L, A)
<1>1. op = "PARTIAL_APPLY"
  BY DEF PARTIAL_APPLY, Op
<1>2. Computes(chunk, L, A, ip) /\ Left(Here) = 1
  BY <1>1, PlainHere DEF PlainOps, TestOps
<1>3. arg \in Nat /\ Taken(Here) = arg + 1
  BY <1>1, <1>2, HereIs DEF Computes, Here, Taken
<1>4. ASSUME NEW i \in 0..arg
      PROVE  Word(i).tag /\ Ref(i) \in DOMAIN heap
  <2>1. i \in Nat /\ i < Taken(Here)
    BY <1>3
  <2> QED BY <1>2, <2>1, OperandsHere DEF IsRef
<1>5. /\ Shaped(Obj(0), heap, chunk, A) /\ Ref(0) \in DOMAIN heap
      /\ \A k \in DOMAIN Obj(0).fields : Obj(0).fields[k] \in DOMAIN heap
  BY <1>2, <1>3, OperandsHere
<1> DEFINE partial == Obj(0).type = "application"
           held == IF partial THEN Obj(0).fields ELSE <<>>
           closure == IF partial THEN Obj(0).link ELSE Ref(0)
           given == [n \in 1..arg |-> Ref(n)]
           fields == held \o given
           object == Object("application", 0, fields, closure, FALSE)
<1>6. \/ runtime_error
      \/ /\ Obj(0).type \in {"closure", "application"}
         /\ Allocate(arg + 1, object) /\ Continue /\ UNCHANGED <<bindings, reg_1>>
  <2>1. ~(\E n \in 1..arg : ~Word(n).tag)
    BY <1>3, <1>4
  <2> QED BY <2>1, Zenon DEF PARTIAL_APPLY
<1>7. ASSUME Obj(0).type \in {"closure", "application"}, Allocate(arg + 1, object)
      PROVE  Fits(object, heap', chunk, A, READY)
  <2>1. \A i \in DOMAIN heap : i \in DOMAIN heap' /\ i \in Nat \ {0} /\ heap'[i] = heap[i]
    <3> HIDE DEF object
    <3> QED BY <1>7, HeapHere
  <2> DEFINE S == DOMAIN heap
  <2>2. held \in Seq(S)
    <3>1. CASE partial
      <4> DEFINE f == Obj(0).fields
      <4>1. f \in Seq(Nat) /\ \A k \in DOMAIN f : f[k] \in S
        BY <1>5 DEF Shaped
      <4> HIDE DEF f, S
      <4>2. Len(f) \in Nat /\ DOMAIN f = 1..Len(f) /\ f = [k \in 1..Len(f) |-> f[k]]
        BY <4>1, LenProperties
      <4>3. f \in [1..Len(f) -> S]
        BY <4>1, <4>2
      <4>4. f \in Seq(S)
        BY <4>2, <4>3
      <4> QED BY <3>1, <4>4 DEF f
    <3>2. CASE ~partial
      BY <3>2
    <3> QED BY <3>1, <3>2
  <2>3. given \in Seq(S)
    <3>1. \A n \in 1..arg : Ref(n) \in S
      BY <1>3, <1>4
    <3> HIDE DEF S
    <3> QED BY <1>3, <3>1
  <2> HIDE DEF held, given
  <2>4. fields \in Seq(S)
    BY <2>2, <2>3, ConcatProperties
  <2>5. S \subseteq Nat /\ S \subseteq DOMAIN heap'
    BY <2>1
  <2> HIDE DEF fields, S
  <2>6. fields \in Seq(Nat) /\ \A k \in DOMAIN fields : fields[k] \in DOMAIN heap'
    BY <2>4, <2>5, Widened, ElementOfSeq, LenProperties
  <2>7. closure \in DOMAIN heap /\ closure # 0 /\ heap[closure].type = "closure"
    <3>1. CASE partial
      <4>1. Obj(0).link \in {0} \cup DOMAIN heap /\ Obj(0).link # 0 /\ heap[Obj(0).link].type = "closure"
        BY <1>5, <3>1 DEF Shaped
      <4> QED BY <3>1, <4>1
    <3>2. CASE ~partial
      <4>1. Obj(0).type = "closure" /\ closure = Ref(0)
        BY <1>7, <3>2
      <4> QED BY <1>5, <2>1, <4>1 DEF Obj
    <3> QED BY <3>1, <3>2
  <2> HIDE DEF closure
  <2>8. closure \in DOMAIN heap' /\ closure # 0 /\ heap'[closure].type = "closure"
    BY <2>1, <2>7
  <2>9. /\ IsObject(object) /\ object.type = "application" /\ object.n = 0 /\ object.fields = fields
        /\ object.link = closure
    BY DEF Object, IsObject
  <2> HIDE DEF object
  <2> QED BY <2>6, <2>8, <2>9 DEF Fits, Shaped, Filled, IsMade, READY, Kind
<1> HIDE DEF object
<1> QED BY <1>2, <1>3, <1>6, <1>7, AllocatedHere, ErrorHere DEF Continue, outside

(* The exception register.                                                 *)
LEMMA TRANSFER_STACK_EXCEPTION_Sound ==
  ASSUME NEW L, NEW A, NEW fr, NEW m, NEW low, NEW base, NEW blow, Running(L, A, fr, m, low, base, blow),
         ObeysHere(L, A), TRANSFER_STACK_EXCEPTION
  PROVE  Sound(L, A)
<1>1. op = "TRANSFER_STACK_REG" /\ arg = "EXCEPTION_REG"
  BY DEF TRANSFER_STACK_EXCEPTION, Op
<1>2. Computes(chunk, L, A, ip)
  BY <1>1, HereIs, Sorts DEF ObeysHere, Here, RegisterOps
<1>3. Taken(Here) = 1 /\ Left(Here) = 0
  BY <1>1, HereIs DEF Taken, Left
<1> DEFINE ws == <<>>
<1>4. /\ exception_reg' = Word(0) /\ Replace(1, ws) /\ Advance /\ UNCHANGED <<bindings, reg_1, heap>>
  BY DEF TRANSFER_STACK_EXCEPTION
<1>5. References(heap, ws) /\ Len(ws) = 0
  BY DEF References
<1>6. IsReplaced(stack', stack, Taken(Here), ws)
  BY <1>3, <1>4 DEF Replace, IsReplaced
<1> HIDE DEF ws
<1>7. Word(0) \in Words /\ IsRef(heap, Word(0))
  BY <1>2, <1>3, OperandsHere
<1>8. GoodHeap(heap, READY, chunk, A)
  BY <1>2 DEF Running, InFrame, Computes
<1>9. Grows(heap, heap) /\ AllLayouts(L)
  BY HeapKept DEF Running
<1>10. KeepsTo(chunk, L, A, heap, stack', bindings, reg_1, Word(0), Beyond(chunk, ip))
  BY <1>2, <1>3, <1>5, <1>6, <1>7, <1>8, <1>9, Computed DEF Running, Here
<1> QED BY <1>4, <1>10, HereIs DEF Advance, Sound, GoesOnWell

\* The value of EXCEPTION_REG.
LEMMA PUSH_EXCEPTION_Sound ==
  ASSUME NEW L, NEW A, NEW fr, NEW m, NEW low, NEW base, NEW blow, Running(L, A, fr, m, low, base, blow),
         ObeysHere(L, A), PUSH_REG_STACK, arg = "EXCEPTION_REG"
  PROVE  Sound(L, A)
<1>1. op = "PUSH_REG_STACK"
  BY DEF PUSH_REG_STACK, Op
<1>2. Computes(chunk, L, A, ip)
  BY <1>1, HereIs, Sorts DEF ObeysHere, Here, RegisterOps
<1>3. Taken(Here) = 0 /\ Left(Here) = 1
  BY <1>1, HereIs DEF Taken, Left, Operands
<1>4. Replace(0, <<exception_reg>>) /\ Continue /\ UNCHANGED <<bindings, reg_1, heap>>
  BY DEF PUSH_REG_STACK
<1>5. exception_reg \in Words /\ IsRef(heap, exception_reg)
  BY DEF Running, InFrame, Typed
<1> QED BY <1>2, <1>3, <1>4, <1>5, ReplacedHere DEF Continue, outside

(* Extern functions.                                                       *)
LEMMA ExternHere ==
  ASSUME NEW L, NEW A, ObeysHere(L, A), op = "CALL_EXTERN"
  PROVE  /\ Computes(chunk, L, A, ip) /\ Taken(Here) = ExternOperands(arg)
         /\ arg # "WRITE" => Left(Here) = 1
         /\ arg = "WRITE" => Left(Here) = 0
<1>1. Computes(chunk, L, A, ip)
  BY PlainHere DEF PlainOps
<1>2. Taken(Here) = ExternOperands(arg)
  BY HereIs DEF Taken
<1>3. (arg # "WRITE" => Left(Here) = 1) /\ (arg = "WRITE" => Left(Here) = 0)
  BY HereIs DEF Left
<1> QED BY <1>1, <1>2, <1>3

\* An extern function that answers with an object.
LEMMA AnswerHere ==
  ASSUME NEW L, NEW A, NEW fr, NEW m, NEW low, NEW base, NEW blow, Running(L, A, fr, m, low, base, blow),
         Computes(chunk, L, A, ip), Left(Here) = 1, NEW n, Taken(Here) = n,
         NEW type, type \notin {"closure", "thunk", "application", "cons", "object"}, NEW k, NEW w,
         Answer(n, Object(type, k, <<>>, 0, TRUE), w)
  PROVE  Sound(L, A)
<1> DEFINE object == Object(type, k, <<>>, 0, TRUE)
<1>1. object = Object(type, k, <<>>, 0, TRUE)
  OBVIOUS
<1>2. Allocate(n, object) /\ Advance /\ UNCHANGED <<bindings, reg_1, exception_reg>>
  BY DEF Answer
<1> HIDE DEF object
<1>3. Fits(object, heap', chunk, A, READY)
  BY <1>1, BoxFits
<1> QED BY <1>2, <1>3, AllocatedHere

\* An extern function that answers with the unit.
LEMMA LeaveHere ==
  ASSUME NEW L, NEW A, NEW fr, NEW m, NEW low, NEW base, NEW blow, Running(L, A, fr, m, low, base, blow),
         Computes(chunk, L, A, ip), Left(Here) = 1, NEW n, Taken(Here) = n, NEW w,
         Leave(n, <<Val(UNIT_BOX)>>, w)
  PROVE  Sound(L, A)
<1> DEFINE v == Val(UNIT_BOX)
<1>1. Replace(n, <<v>>) /\ Advance /\ UNCHANGED <<bindings, reg_1, heap, exception_reg>>
  BY DEF Leave
<1>2. v \in Words /\ IsRef(heap, v)
  <2>1. IsList(heap) /\ 3 \in DOMAIN heap
    BY DEF Running, InFrame, GoodHeap, FALSE_BOX
  <2>2. 1 \in DOMAIN heap
    BY <2>1, ListLength
  <2> QED BY <2>2 DEF Val, Words, IsRef, UNIT_BOX
<1> HIDE DEF v
<1> QED BY <1>1, <1>2, ReplacedHere

\* A handle of stdin, stdout or stderr.
LEMMA STD_STREAM_Sound ==
  ASSUME NEW L, NEW A, NEW fr, NEW m, NEW low, NEW base, NEW blow, Running(L, A, fr, m, low, base, blow),
         ObeysHere(L, A), STD_STREAM
  PROVE  Sound(L, A)
<1>1. op = "CALL_EXTERN" /\ arg \in {"STDIN", "STDOUT", "STDERR"}
  BY DEF STD_STREAM, CallExtern, Op
<1>2. Computes(chunk, L, A, ip) /\ Taken(Here) = 0 /\ Left(Here) = 1
  BY <1>1, ExternHere DEF ExternOperands
<1> DEFINE k == CASE arg = "STDIN" -> STDIN [] arg = "STDOUT" -> STDOUT [] arg = "STDERR" -> STDERR
           type == "file"
<1>3. Answer(0, Object(type, k, <<>>, 0, TRUE), world)
  BY DEF STD_STREAM, FileHandle
<1>4. type \notin {"closure", "thunk", "application", "cons", "object"}
  OBVIOUS
<1> HIDE DEF k, type
<1> QED BY <1>2, <1>3, <1>4, AnswerHere

\* A handle of the file that was opened.
LEMMA OPEN_FILE_Sound ==
  ASSUME NEW L, NEW A, NEW fr, NEW m, NEW low, NEW base, NEW blow, Running(L, A, fr, m, low, base, blow),
         ObeysHere(L, A), OPEN_FILE
  PROVE  Sound(L, A)
<1>1. op = "CALL_EXTERN" /\ arg = "OPEN_FILE"
  BY DEF OPEN_FILE, CallExtern, Op
<1>2. Computes(chunk, L, A, ip) /\ Taken(Here) = 2 /\ Left(Here) = 1
  BY <1>1, ExternHere DEF ExternOperands
<1> DEFINE w == fopen(world, Obj(0).n, Obj(1).n)
           type == "file"
           k == Len(w.streams)
<1>3. runtime_error \/ Answer(2, Object(type, k, <<>>, 0, TRUE), w) \/ Leave(2, <<Val(UNIT_BOX)>>, w)
  BY Zenon DEF OPEN_FILE, FileHandle
<1>4. type \notin {"closure", "thunk", "application", "cons", "object"}
  OBVIOUS
<1> HIDE DEF k, type, w
<1> QED BY <1>2, <1>3, <1>4, AnswerHere, LeaveHere, ErrorHere

\* The unit, for a stream.
LEMMA CLOSE_FILE_Sound ==
  ASSUME NEW L, NEW A, NEW fr, NEW m, NEW low, NEW base, NEW blow, Running(L, A, fr, m, low, base, blow),
         ObeysHere(L, A), CLOSE_FILE
  PROVE  Sound(L, A)
<1>1. op = "CALL_EXTERN" /\ arg = "CLOSE_FILE"
  BY DEF CLOSE_FILE, CallExtern, Op
<1>2. Computes(chunk, L, A, ip) /\ Taken(Here) = 1 /\ Left(Here) = 1
  BY <1>1, ExternHere DEF ExternOperands
<1> DEFINE w == fclose(world, stream)
<1>3. runtime_error \/ Panic \/ Leave(1, <<Val(UNIT_BOX)>>, w)
  BY Zenon DEF CLOSE_FILE, OnStream
<1> HIDE DEF w
<1> QED BY <1>1, <1>2, <1>3, LeaveHere, ErrorHere, PanicHere

\* A truth value, for a stream.
LEMMA STREAM_ERRORS_Sound ==
  ASSUME NEW L, NEW A, NEW fr, NEW m, NEW low, NEW base, NEW blow, Running(L, A, fr, m, low, base, blow),
         ObeysHere(L, A), STREAM_ERRORS
  PROVE  Sound(L, A)
<1>1. op = "CALL_EXTERN" /\ arg = "STREAM_ERRORS"
  BY DEF STREAM_ERRORS, CallExtern, Op
<1>2. Computes(chunk, L, A, ip) /\ Taken(Here) = 1 /\ Left(Here) = 1
  BY <1>1, ExternHere DEF ExternOperands
<1> DEFINE w == clearerr(world, stream)
           type == "bool"
           k == IF ferror(world, stream) THEN 1 ELSE 0
<1>3. runtime_error \/ Panic \/ Answer(1, Object(type, k, <<>>, 0, TRUE), w)
  BY Zenon DEF STREAM_ERRORS, OnStream
<1>4. type \notin {"closure", "thunk", "application", "cons", "object"}
  OBVIOUS
<1> HIDE DEF k, type, w
<1> QED BY <1>1, <1>2, <1>3, <1>4, AnswerHere, ErrorHere, PanicHere

\* What was read, for a stream.
LEMMA READ_Sound ==
  ASSUME NEW L, NEW A, NEW fr, NEW m, NEW low, NEW base, NEW blow, Running(L, A, fr, m, low, base, blow),
         ObeysHere(L, A), READ_LINE \/ READ_CONTENTS
  PROVE  Sound(L, A)
<1>1. op = "CALL_EXTERN" /\ arg \in {"READ_LINE", "READ_CONTENTS"}
  BY DEF READ_LINE, READ_CONTENTS, CallExtern, Op
<1>2. Computes(chunk, L, A, ip) /\ Taken(Here) = 1 /\ Left(Here) = 1
  BY <1>1, ExternHere DEF ExternOperands
<1> DEFINE type == "array"
<1>3. runtime_error \/ Panic \/ \E k, w : Answer(1, Object(type, k, <<>>, 0, TRUE), w)
  BY Zenon DEF READ_LINE, READ_CONTENTS, OnStream, Array
<1>4. type \notin {"closure", "thunk", "application", "cons", "object"}
  OBVIOUS
<1> HIDE DEF type
<1> QED BY <1>1, <1>2, <1>3, <1>4, AnswerHere, ErrorHere, PanicHere

\* The unit, for a stream and what is written to it.
LEMMA WRITE_VALUE_Sound ==
  ASSUME NEW L, NEW A, NEW fr, NEW m, NEW low, NEW base, NEW blow, Running(L, A, fr, m, low, base, blow),
         ObeysHere(L, A), WRITE_VALUE
  PROVE  Sound(L, A)
<1>1. op = "CALL_EXTERN" /\ arg = "WRITE"
  BY DEF WRITE_VALUE, CallExtern, Op
<1>2. Computes(chunk, L, A, ip) /\ Taken(Here) = 2 /\ Left(Here) = 0
  BY <1>1, ExternHere DEF ExternOperands
<1> DEFINE ws == <<>>
<1>3. runtime_error \/ Panic \/ (Replace(2, ws) /\ Advance /\ UNCHANGED <<bindings, reg_1, heap, exception_reg>>)
  BY Zenon DEF WRITE_VALUE, OnStream, Leave
<1> SUFFICES ASSUME Replace(2, ws), Advance, UNCHANGED <<bindings, reg_1, heap, exception_reg>>
             PROVE  Sound(L, A)
  BY <1>1, <1>3, ErrorHere, PanicHere
<1>4. References(heap, ws) /\ Len(ws) = 0
  BY DEF References
<1>5. IsReplaced(stack', stack, Taken(Here), ws)
  BY <1>2 DEF Replace, IsReplaced
<1> HIDE DEF ws
<1>6. GoodHeap(heap, READY, chunk, A)
  BY <1>2 DEF Running, InFrame, Computes
<1>7. Grows(heap, heap) /\ exception_reg \in Words /\ IsRef(heap, exception_reg) /\ AllLayouts(L)
  BY HeapKept, RegStays DEF Running
<1>8. KeepsTo(chunk, L, A, heap, stack', bindings, reg_1, exception_reg, Beyond(chunk, ip))
  BY <1>2, <1>4, <1>5, <1>6, <1>7, Computed DEF Running, Here
<1> QED BY <1>8, HereIs DEF Advance, Sound, GoesOnWell

-----------------------------------------------------------------------------
(* Moving words.                                                           *)
LEMMA MoveStep ==
  ASSUME NEW c, NEW L, NEW A, AllLayouts(L), NEW hp, NEW st, NEW bs, NEW r1, NEW ex, NEW a,
         NEW fr, NEW m, NEW low, NEW base, NEW blow,
         InFrame(c, L, A, hp, st, bs, r1, ex, a, fr, m, low, base, blow),
         NEW n \in 0..Len(L[a].words), L[a].mode # RETURNING, L[a].mode.kind # "tested",
         NEW ws, NEW kinds, GoodWords(hp, ws, kinds, blow), IsMade(L[a].mode) \/ NoneNew(kinds),
         NEW st2, IsReplaced(st2, st, n, ws), NEW b, Goes(L, Replaced(L[a], n, kinds), b)
  PROVE  KeepsTo(c, L, A, hp, st2, bs, r1, ex, b)
<1> DEFINE l == L[a]
           l2 == Replaced(l, n, kinds)
<1>1. IsLayout(l) /\ n \in 0..Len(l.words) /\ IsList(kinds) /\ l2 = Replaced(l, n, kinds)
      /\ (IsMade(l.mode) \/ NoneNew(kinds))
  BY DEF InFrame, AllLayouts, GoodWords
<1>2. Goes(L, l2, b)
  OBVIOUS
<1> HIDE DEF l, l2
<1>3. /\ IsLayout(l2) /\ IsReplaced(l2.words, l.words, n, kinds)
      /\ l2.binds = l.binds /\ l2.mode = l.mode /\ l2.reg = l.reg /\ l2.place = l.place
  BY ONLY <1>1, ReplacedLayout
<1>4. Grows(hp, hp)
  BY HeapKept
<1>5. GoodBindings(hp, bs, bs, blow, l.mode, l.binds)
  BY <1>4, BindingsStay DEF l
<1>6. GoodReg(hp, r1, l.reg) /\ ex \in Words /\ IsRef(hp, ex)
  BY <1>4, RegStays DEF l
<1>7. GoodTest(hp, st2, l2)
  BY <1>3 DEF GoodTest, l
<1>8. GoodHeap(hp, l.mode, c, A)
  BY DEF InFrame, l
<1> QED BY <1>2, <1>3, <1>4, <1>5, <1>6, <1>7, <1>8, StepTo DEF l

\* One word, or two.
LEMMA OneWord ==
  ASSUME NEW hp, NEW w \in Words, w.tag => w.n \in DOMAIN hp, NEW k, NEW blow, Known(hp, w, k, blow),
         NEW ws, ws = <<w>>, NEW kinds, kinds = <<k>>
  PROVE  GoodWords(hp, ws, kinds, blow) /\ (k.kind # "new" => NoneNew(kinds))
<1>1. ws \in Seq(Words) /\ Len(ws) = 1 /\ ws[1] = w
  OBVIOUS
<1>2. kinds \in Seq({k}) /\ Len(kinds) = 1 /\ kinds[1] = k /\ DOMAIN kinds = {1}
  OBVIOUS
<1>3. IsList(kinds)
  BY <1>2, ListOver
<1>4. 1..1 = {1}
  OBVIOUS
<1> QED BY <1>1, <1>2, <1>3, <1>4 DEF GoodWords, NoneNew

\* Two words and their kinds.
LEMMA TwoWords ==
  ASSUME NEW hp, NEW blow, NEW w \in Words, w.tag => w.n \in DOMAIN hp, NEW k, Known(hp, w, k, blow),
         NEW v \in Words, v.tag => v.n \in DOMAIN hp, NEW j, Known(hp, v, j, blow),
         NEW ws, ws = <<w, v>>, NEW kinds, kinds = <<k, j>>
  PROVE  GoodWords(hp, ws, kinds, blow) /\ (k.kind # "new" /\ j.kind # "new" => NoneNew(kinds))
<1>1. ws \in Seq(Words) /\ Len(ws) = 2 /\ ws[1] = w /\ ws[2] = v
  OBVIOUS
<1>2. kinds \in Seq({k, j}) /\ Len(kinds) = 2 /\ kinds[1] = k /\ kinds[2] = j /\ DOMAIN kinds = {1, 2}
  OBVIOUS
<1>3. IsList(kinds)
  BY <1>2, ListOver
<1>4. 1..2 = {1, 2}
  OBVIOUS
<1> QED BY <1>1, <1>2, <1>3, <1>4 DEF GoodWords, NoneNew

\* No word is left.
LEMMA NoWords ==
  ASSUME NEW hp, NEW blow, NEW none, none = <<>>
  PROVE  GoodWords(hp, none, none, blow) /\ NoneNew(none)
<1>1. none \in Seq(Words) /\ Len(none) = 0 /\ DOMAIN none = {}
  OBVIOUS
<1>2. IsList(none)
  BY <1>1, ListOver
<1> QED BY <1>1, <1>2 DEF GoodWords, NoneNew

\* Between the instructions of the machine and those steps.
LEMMA MovedHere ==
  ASSUME NEW L, NEW A, NEW fr, NEW m, NEW low, NEW base, NEW blow, Running(L, A, fr, m, low, base, blow),
         L[ip].mode # RETURNING, L[ip].mode.kind # "tested",
         NEW n \in 0..Len(L[ip].words), NEW ws, NEW kinds, GoodWords(heap, ws, kinds, blow),
         IsMade(L[ip].mode) \/ NoneNew(kinds),
         Replace(n, ws), Continue, UNCHANGED <<bindings, reg_1, heap>>,
         GoesOn(chunk, L, ip, Replaced(L[ip], n, kinds))
  PROVE  Sound(L, A)
<1>1. IsReplaced(stack', stack, n, ws)
  BY DEF Replace, IsReplaced
<1> DEFINE b == Beyond(chunk, ip)
<1>2. Goes(L, Replaced(L[ip], n, kinds), b)
  BY DEF GoesOn
<1> HIDE DEF b
<1>3. KeepsTo(chunk, L, A, heap, stack', bindings, reg_1, exception_reg, b)
  BY <1>1, <1>2, MoveStep DEF Running
<1> QED BY <1>3, HereIs DEF b, Continue, outside, Advance, Sound, GoesOnWell

\* A word of the frame.
LEMMA WordHere ==
  ASSUME NEW L, NEW A, NEW fr, NEW m, NEW low, NEW base, NEW blow, Running(L, A, fr, m, low, base, blow),
         NEW i \in Nat, i < Len(L[ip].words)
  PROVE  /\ Len(stack) \in Nat /\ i < Len(stack) /\ Word(i) \in Words /\ (Word(i).tag => Word(i).n \in DOMAIN heap)
         /\ Known(heap, Word(i), FromTop(L[ip].words, i), blow)
         /\ ~IsMade(L[ip].mode) => FromTop(L[ip].words, i).kind # "new"
<1>1. /\ i < Len(stack) /\ Len(stack) - i \in DOMAIN stack /\ stack[Len(stack) - i] \in Words
      /\ Known(heap, stack[Len(stack) - i], FromTop(L[ip].words, i), blow) /\ Len(stack) \in Nat
  BY OnTop DEF Running
<1>2. Word(i).tag => Word(i).n \in DOMAIN heap
  BY <1>1 DEF Running, InFrame, Typed, Word
<1>3. ASSUME ~IsMade(L[ip].mode)
      PROVE  FromTop(L[ip].words, i).kind # "new"
  <2>1. IsLayout(L[ip]) /\ IsList(L[ip].words)
    BY DEF Running, InFrame, AllLayouts, IsLayout
  <2>2. Len(L[ip].words) \in Nat /\ DOMAIN L[ip].words = 1..Len(L[ip].words)
    BY <2>1, ListLength
  <2>3. Len(L[ip].words) - i \in DOMAIN L[ip].words
    BY <2>2
  <2> QED BY <1>3, <2>1, <2>3 DEF IsLayout, FromTop
<1> QED BY <1>1, <1>2, <1>3 DEF Word

\* An instruction that moves words is at an address that is ready, or failing.
LEMMA MovesHere ==
  ASSUME NEW L, NEW A, ObeysHere(L, A), op \in MoveOps \ {"SWAP"}
  PROVE  Moves(chunk, L, ip) /\ L[ip].mode \in {READY, FAILING}
<1>1. Moves(chunk, L, ip)
  BY HereIs, Sorts DEF ObeysHere, Here, MoveOps
<1> QED BY <1>1 DEF Moves

\* In these modes nothing is waited for.
LEMMA CalmModes ==
  ASSUME NEW mode \in {READY, FAILING}
  PROVE  mode # RETURNING /\ mode.kind # "tested" /\ ~IsMade(mode) /\ mode # APPLYING
BY DEF READY, FAILING, RETURNING, APPLYING, IsMade, Kind

\* The addresses of this instruction and of the next are numbers.
LEMMA NextIsAddress ==
  ASSUME NEW L, NEW A, ObeysHere(L, A)
  PROVE  next \in Nat /\ ip \in Nat
<1>1. ip \in Nat
  BY DEF ObeysHere, Obeys
<1>2. OperandSize(op) \in Nat
  BY DEF OperandSize
<1> QED BY <1>1, <1>2 DEF next

\* A register becomes a word of the kind the layout has of it.
LEMMA PUSH_REG_STACK_Sound ==
  ASSUME NEW L, NEW A, NEW fr, NEW m, NEW low, NEW base, NEW blow, Running(L, A, fr, m, low, base, blow),
         ObeysHere(L, A), PUSH_REG_STACK
  PROVE  Sound(L, A)
<1>1. op = "PUSH_REG_STACK"
  BY DEF PUSH_REG_STACK, Op
<1>2. SUFFICES ASSUME arg # "EXCEPTION_REG"
               PROVE  Sound(L, A)
  BY PUSH_EXCEPTION_Sound
<1>3. Moves(chunk, L, ip)
  BY <1>1, <1>2, HereIs, Sorts DEF ObeysHere, Here, RegisterOps
<1>4. /\ L[ip].mode = READY
      /\ \/ arg = "INSTRUCTION_PTR" /\ GoesOn(chunk, L, ip, Replaced(L[ip], 0, <<ADDRESS(next)>>))
         \/ arg = "BINDING_PTR" /\ GoesOn(chunk, L, ip, Replaced(L[ip], 0, <<DEPTH(Len(L[ip].binds))>>))
         \/ arg = "REG_1" /\ L[ip].reg # NOTHING /\ GoesOn(chunk, L, ip, Replaced(L[ip], 0, <<L[ip].reg>>))
  BY <1>1, <1>3, HereIs DEF Moves, Here
<1>5. L[ip].mode # RETURNING /\ L[ip].mode.kind # "tested" /\ 0 \in 0..Len(L[ip].words) /\ ~IsMade(L[ip].mode)
      /\ L[ip].mode # FAILING
  <2>1. Len(L[ip].words) \in Nat
    BY ListLength DEF Running, InFrame, AllLayouts, IsLayout
  <2> QED BY <1>4, <2>1 DEF READY, FAILING, RETURNING, IsMade, Kind
<1>6. CASE arg = "INSTRUCTION_PTR"
  <2> DEFINE w == Raw(next)
             k == ADDRESS(next)
             ws == <<w>>
             kinds == <<k>>
  <2>1. Replace(0, ws) /\ Continue /\ UNCHANGED <<bindings, reg_1, heap>>
    BY <1>6 DEF PUSH_REG_STACK
  <2>2. GoesOn(chunk, L, ip, Replaced(L[ip], 0, kinds))
    BY <1>4, <1>6
  <2>3. w \in Words /\ (w.tag => w.n \in DOMAIN heap) /\ Known(heap, w, k, blow) /\ k.kind # "new"
    BY NextIsAddress DEF Raw, Words, Known, ADDRESS, Kind, IsReference
  <2>4. ws = <<w>> /\ kinds = <<k>>
    OBVIOUS
  <2> HIDE DEF w, k, ws, kinds
  <2>5. GoodWords(heap, ws, kinds, blow) /\ NoneNew(kinds)
    BY <2>3, <2>4, OneWord
  <2> QED BY <1>5, <2>1, <2>2, <2>5, MovedHere
<1>7. CASE arg = "BINDING_PTR"
  <2> DEFINE w == Raw(Len(bindings))
             n == Len(L[ip].binds)
             k == DEPTH(n)
             ws == <<w>>
             kinds == <<k>>
  <2>1. Replace(0, ws) /\ Continue /\ UNCHANGED <<bindings, reg_1, heap>>
    BY <1>7 DEF PUSH_REG_STACK
  <2>2. GoesOn(chunk, L, ip, Replaced(L[ip], 0, kinds))
    BY <1>4, <1>7
  <2>3. w \in Words /\ (w.tag => w.n \in DOMAIN heap) /\ Known(heap, w, k, blow) /\ k.kind # "new"
    <3>1. Len(bindings) \in Nat /\ Len(bindings) = blow + n
      BY <1>5, BindingsHere
    <3> QED BY <3>1 DEF Raw, Words, Known, DEPTH, Kind, IsReference
  <2>4. ws = <<w>> /\ kinds = <<k>>
    OBVIOUS
  <2> HIDE DEF w, k, ws, kinds
  <2>5. GoodWords(heap, ws, kinds, blow) /\ NoneNew(kinds)
    BY <2>3, <2>4, OneWord
  <2> QED BY <1>5, <2>1, <2>2, <2>5, MovedHere
<1>8. CASE arg = "REG_1"
  <2> DEFINE k == L[ip].reg
             ws == <<reg_1>>
             kinds == <<k>>
  <2>1. Replace(0, ws) /\ Continue /\ UNCHANGED <<bindings, reg_1, heap>>
    BY <1>8 DEF PUSH_REG_STACK
  <2>2. GoesOn(chunk, L, ip, Replaced(L[ip], 0, kinds)) /\ k # NOTHING
    BY <1>4, <1>8
  <2>3. reg_1 \in Words /\ (reg_1.tag => reg_1.n \in DOMAIN heap) /\ Known(heap, reg_1, k, 0) /\ k.kind # "new"
        /\ IsReference(k)
    BY <2>2 DEF Running, InFrame, Typed, Current, AllLayouts, IsLayout
  <2>4. ws = <<reg_1>> /\ kinds = <<k>>
    OBVIOUS
  <2> HIDE DEF k, ws, kinds
  <2>5. Known(heap, reg_1, k, blow)
    BY <2>3 DEF Known, IsReference
  <2>6. GoodWords(heap, ws, kinds, blow) /\ NoneNew(kinds)
    BY <2>3, <2>4, <2>5, OneWord
  <2> QED BY <1>5, <2>1, <2>2, <2>6, MovedHere
<1> QED BY <1>4, <1>6, <1>7, <1>8

\* The word on top, twice.
LEMMA COPY_Sound ==
  ASSUME NEW L, NEW A, NEW fr, NEW m, NEW low, NEW base, NEW blow, Running(L, A, fr, m, low, base, blow),
         ObeysHere(L, A), COPY
  PROVE  Sound(L, A)
<1>1. op = "COPY"
  BY DEF COPY, Op
<1>2. Moves(chunk, L, ip) /\ L[ip].mode \in {READY, FAILING}
  BY <1>1, MovesHere DEF MoveOps
<1> DEFINE k == FromTop(L[ip].words, 0)
           ws == <<Word(0)>>
           kinds == <<k>>
<1>3. Len(L[ip].words) >= 1 /\ GoesOn(chunk, L, ip, Replaced(L[ip], 0, kinds))
  BY <1>1, <1>2, HereIs DEF Moves, Here
<1>4. 0 < Len(L[ip].words) /\ 0 \in 0..Len(L[ip].words)
  <2>1. Len(L[ip].words) \in Nat
    BY ListLength DEF Running, InFrame, AllLayouts, IsLayout
  <2> QED BY <1>3, <2>1
<1>5. L[ip].mode # RETURNING /\ L[ip].mode.kind # "tested" /\ ~IsMade(L[ip].mode)
  BY <1>2, CalmModes
<1>6. Word(0) \in Words /\ (Word(0).tag => Word(0).n \in DOMAIN heap) /\ Known(heap, Word(0), k, blow) /\ k.kind # "new"
  BY <1>4, <1>5, WordHere
<1>7. ws = <<Word(0)>> /\ kinds = <<k>>
  OBVIOUS
<1>8. Replace(0, ws) /\ Continue /\ UNCHANGED <<bindings, reg_1, heap>>
  BY DEF COPY
<1> HIDE DEF k, ws, kinds
<1>9. GoodWords(heap, ws, kinds, blow) /\ NoneNew(kinds)
  BY <1>6, <1>7, OneWord
<1> QED BY <1>3, <1>4, <1>5, <1>8, <1>9, MovedHere

\* The word on top goes.
LEMMA POP_U64_Sound ==
  ASSUME NEW L, NEW A, NEW fr, NEW m, NEW low, NEW base, NEW blow, Running(L, A, fr, m, low, base, blow),
         ObeysHere(L, A), POP_U64
  PROVE  Sound(L, A)
<1>1. op = "POP_U64"
  BY DEF POP_U64, Op
<1>2. Moves(chunk, L, ip) /\ L[ip].mode \in {READY, FAILING}
  BY <1>1, MovesHere DEF MoveOps
<1> DEFINE none == <<>>
<1>3. Len(L[ip].words) >= 1 /\ GoesOn(chunk, L, ip, Replaced(L[ip], 1, none))
  BY <1>1, <1>2, HereIs DEF Moves, Here
<1>4. 1 \in 0..Len(L[ip].words)
  <2>1. Len(L[ip].words) \in Nat
    BY ListLength DEF Running, InFrame, AllLayouts, IsLayout
  <2> QED BY <1>3, <2>1
<1>5. L[ip].mode # RETURNING /\ L[ip].mode.kind # "tested" /\ ~IsMade(L[ip].mode)
  BY <1>2, CalmModes
<1>6. Replace(1, none) /\ Continue /\ UNCHANGED <<bindings, reg_1, heap>>
  BY DEF POP_U64
<1>7. none = <<>>
  OBVIOUS
<1> HIDE DEF none
<1>8. GoodWords(heap, none, none, blow) /\ NoneNew(none)
  BY <1>7, NoWords
<1> QED BY <1>3, <1>4, <1>5, <1>6, <1>8, MovedHere

\* An address becomes the one that many bytes further.
LEMMA U64_ADD_Sound ==
  ASSUME NEW L, NEW A, NEW fr, NEW m, NEW low, NEW base, NEW blow, Running(L, A, fr, m, low, base, blow),
         ObeysHere(L, A), U64_ADD
  PROVE  Sound(L, A)
<1>1. op = "U64_ADD"
  BY DEF U64_ADD, Op
<1>2. Moves(chunk, L, ip) /\ L[ip].mode \in {READY, FAILING}
  BY <1>1, MovesHere DEF MoveOps
<1> DEFINE top == FromTop(L[ip].words, 0)
           w == Raw(Word(0).n + arg)
           k == ADDRESS(top.n + arg)
           ws == <<w>>
           kinds == <<k>>
<1>3. /\ Len(L[ip].words) >= 1 /\ top.kind = "address" /\ arg \in Nat
      /\ GoesOn(chunk, L, ip, Replaced(L[ip], 1, kinds))
  BY <1>1, <1>2, HereIs DEF Moves, Here
<1>4. 0 < Len(L[ip].words) /\ 1 \in 0..Len(L[ip].words)
  <2>1. Len(L[ip].words) \in Nat
    BY ListLength DEF Running, InFrame, AllLayouts, IsLayout
  <2> QED BY <1>3, <2>1
<1>5. L[ip].mode # RETURNING /\ L[ip].mode.kind # "tested" /\ ~IsMade(L[ip].mode)
  BY <1>2, CalmModes
<1>6. Word(0) \in Words /\ Known(heap, Word(0), top, blow)
  BY <1>4, <1>5, WordHere
<1>7. w \in Words /\ (w.tag => w.n \in DOMAIN heap) /\ Known(heap, w, k, blow) /\ k.kind # "new"
  <2>1. Word(0) = Raw(top.n)
    BY <1>3, <1>6 DEF Known
  <2>2. Word(0).n = top.n /\ Word(0).n \in Int
    BY <1>6, <2>1 DEF Raw, Words
  <2>3. w = Raw(top.n + arg) /\ k = Kind("address", top.n + arg) /\ top.n + arg \in Int
    BY <1>3, <2>2 DEF ADDRESS
  <2> HIDE DEF w, k
  <2>4. w \in Words /\ ~w.tag
    BY <2>3 DEF Raw, Words
  <2>5. k.kind = "address" /\ k.n = top.n + arg
    BY <2>3 DEF Kind
  <2> QED BY <2>3, <2>4, <2>5 DEF Known, IsReference
<1>8. ws = <<w>> /\ kinds = <<k>>
  OBVIOUS
<1>9. Replace(1, ws) /\ Continue /\ UNCHANGED <<bindings, reg_1, heap>>
  BY DEF U64_ADD
<1> HIDE DEF top, w, k, ws, kinds
<1>10. GoodWords(heap, ws, kinds, blow) /\ NoneNew(kinds)
  BY <1>7, <1>8, OneWord
<1> QED BY <1>3, <1>4, <1>5, <1>9, <1>10, MovedHere

(* A swap within a frame.                                                  *)
LEMMA LocalSwap ==
  ASSUME NEW L, NEW A, NEW fr, NEW m, NEW low, NEW base, NEW blow, Running(L, A, fr, m, low, base, blow),
         ObeysHere(L, A), SWAP, Moves(chunk, L, ip)
  PROVE  Sound(L, A)
<1>1. op = "SWAP"
  BY DEF SWAP, Op
<1> DEFINE k == FromTop(L[ip].words, 0)
           j == FromTop(L[ip].words, 1)
           ws == <<Word(0), Word(1)>>
           kinds == <<k, j>>
<1>2. /\ L[ip].mode \in {READY, FAILING} /\ Len(L[ip].words) >= 2
      /\ GoesOn(chunk, L, ip, Replaced(L[ip], 2, kinds))
  BY <1>1, HereIs DEF Moves, Here
<1>4. 0 < Len(L[ip].words) /\ 1 < Len(L[ip].words) /\ 2 \in 0..Len(L[ip].words)
  <2>1. Len(L[ip].words) \in Nat
    BY ListLength DEF Running, InFrame, AllLayouts, IsLayout
  <2> QED BY <1>2, <2>1
<1>5. L[ip].mode # RETURNING /\ L[ip].mode.kind # "tested" /\ ~IsMade(L[ip].mode)
  BY <1>2, CalmModes
<1>6. /\ Word(0) \in Words /\ (Word(0).tag => Word(0).n \in DOMAIN heap) /\ Known(heap, Word(0), k, blow) /\ k.kind # "new"
      /\ Word(1) \in Words /\ (Word(1).tag => Word(1).n \in DOMAIN heap) /\ Known(heap, Word(1), j, blow) /\ j.kind # "new"
  BY <1>4, <1>5, WordHere
<1>7. ws = <<Word(0), Word(1)>> /\ kinds = <<k, j>>
  OBVIOUS
<1>8. Replace(2, ws) /\ Continue /\ UNCHANGED <<bindings, reg_1, heap>>
  BY DEF SWAP
<1> HIDE DEF k, j, ws, kinds
<1>9. GoodWords(heap, ws, kinds, blow) /\ NoneNew(kinds)
  BY <1>6, <1>7, TwoWords
<1> QED BY <1>2, <1>4, <1>5, <1>8, <1>9, MovedHere

\* Only the place in the code, and what is said of it, changes.
LEMMA TypedHere ==
  ASSUME NEW L, NEW A, NEW fr, NEW m, NEW low, NEW base, NEW blow, Running(L, A, fr, m, low, base, blow)
  PROVE  /\ Typed(heap, stack, bindings, reg_1, exception_reg) /\ Grows(heap, heap) /\ IsLayout(L[ip])
         /\ GoodHeap(heap, L[ip].mode, chunk, A) /\ low \in Nat /\ base \in Nat /\ blow \in Nat
         /\ Current(heap, stack, bindings, reg_1, low, base, blow, L[ip])
         /\ Len(L[ip].words) \in Nat /\ DOMAIN L[ip].words = 1..Len(L[ip].words)
         /\ Len(L[ip].binds) \in Nat /\ DOMAIN L[ip].binds = 1..Len(L[ip].binds)
         /\ Len(stack) \in Nat /\ Len(bindings) \in Nat
<1>1. /\ Typed(heap, stack, bindings, reg_1, exception_reg) /\ IsLayout(L[ip])
      /\ GoodHeap(heap, L[ip].mode, chunk, A)
      /\ Current(heap, stack, bindings, reg_1, low, base, blow, L[ip])
  BY DEF Running, InFrame, AllLayouts
<1>2. low \in Nat /\ base \in Nat /\ blow \in Nat
  BY <1>1 DEF Current, Underneath, Arguments
<1>3. Len(stack) \in Nat /\ Len(bindings) \in Nat
  BY <1>1, LenProperties DEF Typed
<1> QED BY <1>1, <1>2, <1>3, ListLength, HeapKept DEF IsLayout

\* On with the layout that is known there.
LEMMA JUMP_REL_Sound ==
  ASSUME NEW L, NEW A, NEW fr, NEW m, NEW low, NEW base, NEW blow, Running(L, A, fr, m, low, base, blow),
         ObeysHere(L, A), JUMP_REL
  PROVE  Sound(L, A)
<1>1. op = "JUMP_REL"
  BY DEF JUMP_REL, Op
<1>2. Moves(chunk, L, ip) /\ L[ip].mode \in {READY, FAILING}
  BY <1>1, MovesHere DEF MoveOps
<1> DEFINE b == next + arg
<1>3. Goes(L, L[ip], b)
  BY <1>1, <1>2, HereIs DEF Moves, Here
<1>4. JumpTo(b) /\ UNCHANGED <<stack, bindings, reg_1, heap>>
  BY DEF JUMP_REL
<1> HIDE DEF b
<1>5. L[ip].mode # RETURNING
  BY <1>2, CalmModes
<1>6. SameTo(stack, stack, low) /\ SameTo(bindings, bindings, blow)
  BY DEF SameTo
<1>7. KeepsTo(chunk, L, A, heap, stack, bindings, reg_1, exception_reg, b)
  BY <1>3, <1>5, <1>6, TypedHere, LocalStep DEF Running
<1> QED BY <1>4, <1>7 DEF JumpTo, outside, Sound, GoesOnWell

\* A word goes to a register.
LEMMA TRANSFER_STACK_REG_Sound ==
  ASSUME NEW L, NEW A, NEW fr, NEW m, NEW low, NEW base, NEW blow, Running(L, A, fr, m, low, base, blow),
         ObeysHere(L, A), TRANSFER_STACK_REG
  PROVE  Sound(L, A)
<1>1. op = "TRANSFER_STACK_REG" /\ arg = "REG_1"
  BY DEF TRANSFER_STACK_REG, Op
<1>2. Moves(chunk, L, ip)
  BY <1>1, HereIs, Sorts DEF ObeysHere, Here, RegisterOps
<1> DEFINE top == FromTop(L[ip].words, 0)
           none == <<>>
           l1 == Replaced(L[ip], 1, none)
           l2 == [l1 EXCEPT !.reg = top]
           b == Beyond(chunk, ip)
<1>3. L[ip].mode = READY /\ HasReferences(L[ip], 1) /\ GoesOn(chunk, L, ip, l2)
  BY <1>1, <1>2, HereIs DEF Moves, Here
<1>4. 1 \in 0..Len(L[ip].words) /\ 0 < Len(L[ip].words) /\ IsReference(top)
  <2>1. 0 \in 0..(1 - 1)
    OBVIOUS
  <2> QED BY <1>3, <2>1, TypedHere DEF HasReferences
<1>5. L[ip].mode # RETURNING /\ L[ip].mode.kind # "tested" /\ ~IsMade(L[ip].mode) /\ L[ip].mode # APPLYING
  BY <1>3, CalmModes
<1>6. Word(0) \in Words /\ (Word(0).tag => Word(0).n \in DOMAIN heap) /\ Known(heap, Word(0), top, blow) /\ top.kind # "new"
  BY <1>4, <1>5, WordHere
<1>7. none = <<>> /\ l1 = Replaced(L[ip], 1, none) /\ Goes(L, l2, b) /\ l2 = [l1 EXCEPT !.reg = top]
  BY <1>3 DEF GoesOn
<1>8. Replace(1, none) /\ reg_1' = Word(0) /\ Continue /\ UNCHANGED <<bindings, heap>>
  BY DEF TRANSFER_STACK_REG
<1>9. b = next
  BY HereIs
<1> HIDE DEF top, none, l1, l2, b
<1>10. GoodWords(heap, none, none, blow) /\ NoneNew(none) /\ IsList(none)
  BY <1>7, NoWords DEF GoodWords
<1>11. /\ IsLayout(l1) /\ IsReplaced(l1.words, L[ip].words, 1, none)
       /\ l1.binds = L[ip].binds /\ l1.mode = READY /\ l1.place = L[ip].place
  BY <1>3, <1>4, <1>7, <1>10, TypedHere, ReplacedLayout, SMTT(20)
<1>12. /\ l2.words = l1.words /\ l2.binds = l1.binds /\ l2.mode = l1.mode /\ l2.place = l1.place /\ l2.reg = top
       /\ l2 = [place |-> l1.place, mode |-> l1.mode, words |-> l1.words, binds |-> l1.binds, reg |-> top]
  BY <1>7, <1>11 DEF IsLayout
<1>13. IsLayout(l2)
  BY <1>4, <1>5, <1>6, <1>11, <1>12, <1>3 DEF IsLayout
<1>14. GoodBindings(heap, bindings, bindings, blow, READY, L[ip].binds)
  BY <1>3, <1>5, TypedHere, BindingsStay DEF Running, NoneNew, IsLayout
<1>15. GoodReg(heap, Word(0), top)
  BY <1>4, <1>6 DEF GoodReg, Known, IsReference
<1>16. exception_reg \in Words /\ IsRef(heap, exception_reg) /\ Grows(heap, heap)
  BY TypedHere DEF Typed
<1>17. GoodTest(heap, stack', l2) /\ READY # RETURNING /\ READY # APPLYING
  BY <1>3, <1>5, <1>11, <1>12 DEF GoodTest
<1>18. IsReplaced(stack', stack, 1, none)
  BY <1>8 DEF Replace, IsReplaced
<1>19. KeepsTo(chunk, L, A, heap, stack', bindings, Word(0), exception_reg, b)
  BY <1>3, <1>4, <1>5, <1>7, <1>10, <1>11, <1>12, <1>13, <1>14, <1>15, <1>16, <1>17, <1>18, TypedHere, StepTo DEF Running
<1> QED BY <1>8, <1>9, <1>19 DEF Continue, outside, Advance, Sound, GoesOnWell

-----------------------------------------------------------------------------
(* Bindings.                                                               *)
\* The words stay, the bindings do not.
LEMMA BindingsStep ==
  ASSUME NEW c, NEW L, NEW A, AllLayouts(L), NEW hp, NEW st, NEW bs, NEW r1, NEW ex, NEW a,
         NEW fr, NEW m, NEW low, NEW base, NEW blow,
         InFrame(c, L, A, hp, st, bs, r1, ex, a, fr, m, low, base, blow),
         NEW l2, IsLayout(l2), l2.words = L[a].words, l2.place = L[a].place, l2.reg = L[a].reg, l2.mode = READY,
         L[a].mode # APPLYING, ~IsMade(L[a].mode),
         NEW bs2, GoodBindings(hp, bs2, bs, blow, READY, l2.binds), NEW b, Goes(L, l2, b)
  PROVE  KeepsTo(c, L, A, hp, st, bs2, r1, ex, b)
<1>1. /\ Typed(hp, st, bs, r1, ex) /\ GoodHeap(hp, L[a].mode, c, A)
      /\ Current(hp, st, bs, r1, low, base, blow, L[a])
  BY DEF InFrame
<1>2. ~IsMade(READY) /\ READY # APPLYING /\ READY # RETURNING /\ READY # FAILING /\ READY.kind # "tested"
  BY DEF READY, APPLYING, RETURNING, FAILING, IsMade, Kind
<1>3. GoodHeap(hp, READY, c, A) /\ Grows(hp, hp)
  BY <1>1, <1>2, ModeForgotten, HeapKept
<1>4. Typed(hp, st, bs2, r1, ex) /\ SameTo(bs2, bs, blow) /\ SameTo(st, st, low)
  BY <1>1 DEF Typed, GoodBindings, SameTo
<1>5. Current(hp, st, bs2, r1, low, base, blow, l2)
  BY <1>1, <1>2 DEF Current, Underneath, GoodBindings
<1> QED BY <1>2, <1>3, <1>4, <1>5, LocalStep

\* The first n elements of a list.
IsCut(t, s, n) == t = SubSeq(s, 1, n)

\* The first so many elements of a list.
LEMMA ListCutTo ==
  ASSUME NEW s, IsList(s), NEW n \in 0..Len(s), NEW t, IsCut(t, s, n)
  PROVE  /\ IsList(t) /\ Len(t) = n /\ DOMAIN t = 1..n /\ \A i \in 1..n : t[i] = s[i]
         /\ \A i \in 1..n : i \in DOMAIN s
<1> DEFINE S == { s[i] : i \in DOMAIN s }
<1>1. s \in Seq(S)
  BY DEF IsList
<1> HIDE DEF S
<1>2. n \in Nat /\ n <= Len(s) /\ Len(s) \in Nat /\ DOMAIN s = 1..Len(s) /\ \A i \in 1..n : s[i] \in S
  <2>1. Len(s) \in Nat /\ DOMAIN s = 1..Len(s)
    BY <1>1, LenProperties
  <2>2. \A i \in 1..n : i \in 1..Len(s)
    BY <2>1
  <2> QED BY <1>1, <2>1, <2>2, ElementOfSeq
<1>3. /\ t \in Seq(S) /\ Len(t) = n /\ \A i \in 1..n : t[i] = s[i]
  BY <1>2, SubSeqProperties DEF IsCut
<1>4. IsList(t) /\ DOMAIN t = 1..n
  BY <1>3, ListOver, LenProperties
<1> QED BY <1>2, <1>3, <1>4

Bound(hp, bs) == bs \in Seq(Nat) /\ \A n \in DOMAIN bs : bs[n] \in DOMAIN hp

\* The bindings of a function are cut back to k.
Cuts(hp, st, bs, r1, low, base, blow, l, k, binds, j, bs2) ==
  /\ Bound(hp, bs) /\ blow \in Nat /\ IsLayout(l) /\ Current(hp, st, bs, r1, low, base, blow, l)
  /\ k \in 0..Len(l.binds) /\ IsCut(binds, l.binds, k)
  /\ j = blow + k /\ IsCut(bs2, bs, j)
\* The last bindings of a function are removed, never those of its callers.
LEMMA BindingsCut ==
  ASSUME NEW hp, NEW st, NEW bs, NEW r1, NEW low, NEW base, NEW blow, NEW l, NEW k, NEW binds, NEW j, NEW bs2,
         Cuts(hp, st, bs, r1, low, base, blow, l, k, binds, j, bs2)
  PROVE  /\ GoodBindings(hp, bs2, bs, blow, READY, binds)
         /\ j \in 0..Len(bs)
         /\ IsList(binds) /\ \A i \in DOMAIN binds : i \in DOMAIN l.binds /\ binds[i] = l.binds[i]
<1> SUFFICES ASSUME Bound(hp, bs), blow \in Nat, IsLayout(l), Current(hp, st, bs, r1, low, base, blow, l),
                    k \in 0..Len(l.binds), IsCut(binds, l.binds, k), j = blow + k, IsCut(bs2, bs, j)
             PROVE  /\ GoodBindings(hp, bs2, bs, blow, READY, binds)
                    /\ j \in 0..Len(bs)
                    /\ IsList(binds) /\ \A i \in DOMAIN binds : i \in DOMAIN l.binds /\ binds[i] = l.binds[i]
  BY DEF Cuts
<1> DEFINE n == Len(l.binds)
<1>1. IsList(l.binds) /\ n \in Nat /\ DOMAIN l.binds = 1..n
  BY ListLength DEF IsLayout
<1>2. Len(bs) \in Nat /\ Len(bs) >= blow + n /\ AreBindings(hp, bs, blow, l.binds) /\ DOMAIN bs = 1..Len(bs)
  <2>1. Len(bs) \in Nat /\ DOMAIN bs = 1..Len(bs)
    BY LenProperties DEF Bound
  <2>2. /\ AreBindings(hp, bs, blow, l.binds)
        /\ IF l.mode = FAILING THEN Len(bs) >= blow + n ELSE Len(bs) = blow + n
    BY DEF Current
  <2> HIDE DEF n
  <2>4. Len(bs) >= blow + n \/ Len(bs) = blow + n
    BY ONLY <2>2
  <2>3. Len(bs) >= blow + n
    <3>1. blow + n \in Int
      BY <1>1
    <3> DEFINE sum == blow + n
               have == Len(bs)
    <3>2. sum \in Int /\ have \in Int /\ (have >= sum \/ have = sum)
      BY <2>1, <2>4, <3>1
    <3> HIDE DEF sum, have
    <3>3. have >= sum
      BY ONLY <3>2
    <3> QED BY <3>3 DEF sum, have
  <2> QED BY ONLY <2>1, <2>2, <2>3
<1>3. /\ IsList(binds) /\ Len(binds) = k /\ DOMAIN binds = 1..k /\ \A i \in 1..k : binds[i] = l.binds[i]
      /\ \A i \in 1..k : i \in DOMAIN l.binds
  <2> DEFINE s == l.binds
  <2>1. IsList(s) /\ k \in 0..Len(s) /\ IsCut(binds, s, k)
    BY <1>1
  <2> HIDE DEF s, n
  <2>2. /\ IsList(binds) /\ Len(binds) = k /\ DOMAIN binds = 1..k /\ \A i \in 1..k : binds[i] = s[i]
        /\ \A i \in 1..k : i \in DOMAIN s
    BY ONLY <2>1, ListCutTo
  <2> QED BY <2>2 DEF s
<1>4. j \in 0..Len(bs) /\ j \in Nat /\ k \in Nat /\ IsList(bs)
  BY <1>1, <1>2, ListOver DEF Bound
<1> HIDE DEF n
<1>6. /\ IsList(bs2) /\ Len(bs2) = j /\ DOMAIN bs2 = 1..j /\ \A i \in 1..j : bs2[i] = bs[i]
      /\ \A i \in 1..j : i \in DOMAIN bs
  BY ONLY <1>4, IsCut(bs2, bs, j), ListCutTo
<1>7. bs2 \in Seq(Nat) /\ \A i \in DOMAIN bs2 : bs2[i] \in DOMAIN hp
  <2>1. \A i \in 1..j : bs2[i] \in Nat /\ bs2[i] \in DOMAIN hp
    BY <1>2, <1>6, ElementOfSeq DEF Bound
  <2>2. bs2 = [i \in 1..j |-> bs2[i]]
    <3>1. bs2 \in Seq({ bs2[i] : i \in DOMAIN bs2 })
      BY <1>6 DEF IsList
    <3> QED BY <1>6, <3>1, LenProperties
  <2>3. bs2 \in [1..j -> Nat]
    BY <2>1, <2>2
  <2>4. bs2 \in Seq(Nat)
    BY ONLY <1>4, <2>3
  <2> QED BY ONLY <1>6, <2>1, <2>4
<1>8. SameTo(bs2, bs, blow)
  <2>1. \A i \in 1..blow : i \in 1..j
    BY <1>4
  <2> QED BY <1>6, <2>1 DEF SameTo
<1>9. AreBindings(hp, bs2, blow, binds)
  <2> SUFFICES ASSUME NEW i \in 1..k
               PROVE  Known(hp, Val(bs2[blow + i]), binds[i], 0)
    BY <1>3 DEF AreBindings
  <2>1. blow + i \in 1..j
    BY <1>4
  <2>2. bs2[blow + i] = bs[blow + i] /\ binds[i] = l.binds[i] /\ i \in DOMAIN l.binds
    BY <1>3, <1>6, <2>1
  <2> QED BY <1>2, <2>2 DEF AreBindings
<1>10. Len(bs2) = blow + Len(binds)
  BY <1>3, <1>6
<1>11. READY # FAILING
  BY DEF READY, FAILING, Kind
<1> QED BY <1>3, <1>4, <1>7, <1>8, <1>9, <1>10, <1>11 DEF GoodBindings

\* The last bindings are removed and the function goes on.
LEMMA CutHere ==
  ASSUME NEW L, NEW A, NEW fr, NEW m, NEW low, NEW base, NEW blow, Running(L, A, fr, m, low, base, blow),
         L[ip].mode \in {READY, FAILING}, NEW k \in 0..Len(L[ip].binds), NEW binds, IsCut(binds, L[ip].binds, k),
         NEW l2, l2 = [L[ip] EXCEPT !.mode = READY, !.binds = binds],
         NEW j, j = blow + k, NEW bs2, IsCut(bs2, bindings, j), NEW b, Goes(L, l2, b)
  PROVE  KeepsTo(chunk, L, A, heap, stack, bs2, reg_1, exception_reg, b) /\ j \in 0..Len(bindings)
<1> DEFINE l == L[ip]
<1>1. IsLayout(l) /\ Current(heap, stack, bindings, reg_1, low, base, blow, l) /\ Bound(heap, bindings) /\ blow \in Nat
  BY TypedHere DEF Bound, Typed
<1>2. ~IsMade(l.mode) /\ l.mode # APPLYING /\ READY # RETURNING
  BY CalmModes
<1>3. /\ k \in 0..Len(l.binds) /\ IsCut(binds, l.binds, k)
      /\ l2 = [l EXCEPT !.mode = READY, !.binds = binds]
  OBVIOUS
<1>4. Cuts(heap, stack, bindings, reg_1, low, base, blow, l, k, binds, j, bs2)
  BY <1>1, <1>3 DEF Cuts
<1> HIDE DEF l
<1>5. /\ GoodBindings(heap, bs2, bindings, blow, READY, binds) /\ j \in 0..Len(bindings)
      /\ IsList(binds) /\ \A i \in DOMAIN binds : i \in DOMAIN l.binds /\ binds[i] = l.binds[i]
  BY ONLY <1>4, BindingsCut
<1>6. /\ l2.words = l.words /\ l2.binds = binds /\ l2.mode = READY /\ l2.place = l.place /\ l2.reg = l.reg
      /\ l2 = [place |-> l2.place, mode |-> l2.mode, words |-> l2.words, binds |-> l2.binds, reg |-> l2.reg]
  BY ONLY <1>1, <1>3 DEF IsLayout
<1>7. /\ \A i \in DOMAIN binds : IsReference(binds[i]) /\ binds[i].kind # "new"
      /\ \A i \in DOMAIN l.words : l.words[i].kind # "new"
      /\ l.place \in {"main", "function"} /\ IsList(l.words)
      /\ l.reg = NOTHING \/ (IsReference(l.reg) /\ l.reg.kind # "new")
  BY <1>1, <1>2, <1>5 DEF IsLayout
<1>8. IsLayout(l2)
  BY ONLY <1>2, <1>5, <1>6, <1>7 DEF IsLayout
<1>9. KeepsTo(chunk, L, A, heap, stack, bs2, reg_1, exception_reg, b)
  BY <1>2, <1>5, <1>6, <1>8, BindingsStep DEF Running, l
<1> QED BY <1>5, <1>9

\* The number of bindings comes back from the stack, where it was at least as small.
LEMMA COPY_STACK_REG_Sound ==
  ASSUME NEW L, NEW A, NEW fr, NEW m, NEW low, NEW base, NEW blow, Running(L, A, fr, m, low, base, blow),
         ObeysHere(L, A), COPY_STACK_REG
  PROVE  Sound(L, A)
<1>1. op = "COPY_STACK_REG"
  BY DEF COPY_STACK_REG, Op
<1>2. Moves(chunk, L, ip) /\ L[ip].mode \in {READY, FAILING}
  BY <1>1, MovesHere DEF MoveOps
<1> DEFINE top == FromTop(L[ip].words, 0)
           k == top.n
           binds == SubSeq(L[ip].binds, 1, k)
           l2 == [L[ip] EXCEPT !.mode = READY, !.binds = binds]
           b == Beyond(chunk, ip)
<1>3. Len(L[ip].words) >= 1 /\ top.kind = "depth" /\ k \in 0..Len(L[ip].binds) /\ Goes(L, l2, b)
  <2>1. GoesOn(chunk, L, ip, [L[ip] EXCEPT !.mode = READY, !.binds = SubSeq(@, 1, k)])
        /\ Len(L[ip].words) >= 1 /\ top.kind = "depth" /\ k \in 0..Len(L[ip].binds)
    BY <1>1, <1>2, HereIs DEF Moves, Here
  <2> QED BY <2>1 DEF GoesOn
<1>4. 0 < Len(L[ip].words)
  BY <1>3, TypedHere
<1> DEFINE j == blow + k
           bs2 == SubSeq(bindings, 1, j)
<1>5. Word(0) = Raw(j)
  <2>1. Known(heap, Word(0), top, blow)
    BY <1>4, WordHere
  <2> QED BY <1>3, <2>1 DEF Known
<1>6. /\ IsCut(binds, L[ip].binds, k) /\ b = next /\ Word(0).n = j /\ ~Word(0).tag
      /\ l2 = [L[ip] EXCEPT !.mode = READY, !.binds = binds] /\ j = blow + k /\ IsCut(bs2, bindings, j)
  BY <1>5, HereIs DEF Raw, IsCut
<1> HIDE DEF top, k, binds, l2, b, j, bs2
<1>7. KeepsTo(chunk, L, A, heap, stack, bs2, reg_1, exception_reg, b) /\ j \in 0..Len(bindings)
  BY <1>2, <1>3, <1>6, CutHere
<1>8. bindings' = bs2 /\ Continue /\ UNCHANGED <<stack, reg_1, heap>>
  <2>1. ~(Word(0).tag \/ Word(0).n > Len(bindings))
    BY <1>6, <1>7, TypedHere
  <2>2. bindings' = SubSeq(bindings, 1, Word(0).n) /\ Continue /\ UNCHANGED <<stack, reg_1, heap>>
    BY <2>1 DEF COPY_STACK_REG
  <2> QED BY <1>6, <2>2 DEF IsCut
<1> QED BY <1>6, <1>7, <1>8 DEF Continue, outside, Advance, Sound, GoesOnWell

\* In these modes no call is returned from and no pattern failed.
LEMMA BusyModes ==
  ASSUME NEW mode, mode = READY \/ IsMade(mode)
  PROVE  mode # RETURNING /\ mode.kind # "tested" /\ mode # FAILING /\ mode # APPLYING
BY DEF READY, FAILING, RETURNING, APPLYING, IsMade, Kind

\* A binding of the frame.
LEMMA BoundHere ==
  ASSUME NEW L, NEW A, NEW fr, NEW m, NEW low, NEW base, NEW blow, Running(L, A, fr, m, low, base, blow),
         L[ip].mode # FAILING, NEW i \in Nat, i < Len(L[ip].binds), NEW w, w = Val(bindings[Len(bindings) - i])
  PROVE  /\ Len(bindings) \in Nat /\ i + 1 <= Len(bindings)
         /\ bindings[Len(bindings) - i] \in DOMAIN heap /\ bindings[Len(bindings) - i] \in Nat
         /\ w \in Words /\ w.n \in DOMAIN heap /\ Known(heap, w, FromTop(L[ip].binds, i), 0)
         /\ IsReference(FromTop(L[ip].binds, i))
         /\ ~IsMade(L[ip].mode) => FromTop(L[ip].binds, i).kind # "new"
<1> DEFINE n == Len(L[ip].binds)
           k == n - i
           j == Len(bindings) - i
<1>1. /\ bindings \in Seq(Nat) /\ Len(bindings) \in Nat /\ DOMAIN bindings = 1..Len(bindings)
      /\ \A x \in DOMAIN bindings : bindings[x] \in DOMAIN heap /\ bindings[x] \in Nat
      /\ blow \in Nat /\ n \in Nat /\ DOMAIN L[ip].binds = 1..n /\ Len(bindings) = blow + n
  BY BindingsHere
<1> HIDE DEF n
<1>2. k \in DOMAIN L[ip].binds /\ j = blow + k /\ j \in DOMAIN bindings /\ i + 1 <= Len(bindings)
  BY <1>1, SMTT(20) DEF n
<1>3. AreBindings(heap, bindings, blow, L[ip].binds) /\ IsLayout(L[ip])
  BY TypedHere DEF Current
<1>4. bindings[j] \in DOMAIN heap /\ bindings[j] \in Nat /\ w = Val(bindings[j])
  BY <1>1, <1>2
<1>5. FromTop(L[ip].binds, i) = L[ip].binds[k]
  BY DEF FromTop, n
<1> HIDE DEF j, k
<1>6. Known(heap, w, L[ip].binds[k], 0)
  BY <1>2, <1>3, <1>4 DEF AreBindings
<1>7. IsReference(L[ip].binds[k]) /\ (~IsMade(L[ip].mode) => L[ip].binds[k].kind # "new")
  BY <1>2, <1>3 DEF IsLayout
<1>8. w \in Words /\ w.n \in DOMAIN heap
  BY <1>4 DEF Val, Words
<1> QED BY <1>1, <1>2, <1>4, <1>5, <1>6, <1>7, <1>8 DEF j

\* An instruction about bindings is where these may be read, made or removed.
LEMMA BindsHere ==
  ASSUME NEW L, NEW A, ObeysHere(L, A), op \in BindOps
  PROVE  Binds(chunk, L, ip)
BY HereIs, Sorts DEF ObeysHere, Here

\* A binding that was made is read.
LEMMA READ_BINDING_Sound ==
  ASSUME NEW L, NEW A, NEW fr, NEW m, NEW low, NEW base, NEW blow, Running(L, A, fr, m, low, base, blow),
         ObeysHere(L, A), READ_BINDING
  PROVE  Sound(L, A)
<1>1. op = "READ_BINDING"
  BY DEF READ_BINDING, Op
<1>2. Binds(chunk, L, ip)
  BY <1>1, BindsHere DEF BindOps
<1> DEFINE w == Val(bindings[Len(bindings) - arg])
           k == FromTop(L[ip].binds, arg)
           ws == <<w>>
           kinds == <<k>>
<1>3. /\ L[ip].mode = READY \/ IsMade(L[ip].mode) 
      /\ arg \in 0..(Len(L[ip].binds) - 1) /\ GoesOn(chunk, L, ip, Replaced(L[ip], 0, kinds))
  BY <1>1, <1>2, HereIs DEF Binds, Here
<1>4. arg \in Nat /\ arg < Len(L[ip].binds) /\ 0 \in 0..Len(L[ip].words)
  BY <1>3, TypedHere
<1>5. L[ip].mode # RETURNING /\ L[ip].mode.kind # "tested" /\ L[ip].mode # FAILING
  BY <1>3, BusyModes
<1>6. /\ Len(bindings) \in Nat /\ arg + 1 <= Len(bindings) /\ w \in Words /\ w.n \in DOMAIN heap
      /\ Known(heap, w, k, 0) /\ IsReference(k) /\ (~IsMade(L[ip].mode) => k.kind # "new")
  BY <1>4, <1>5, BoundHere
<1>7. Known(heap, w, k, blow)
  BY <1>6 DEF Known, IsReference
<1>8. Replace(0, ws) /\ Continue /\ UNCHANGED <<bindings, reg_1, heap>>
  <2>1. ~(arg + 1 > Len(bindings))
    BY <1>4, <1>6
  <2> QED BY <2>1 DEF READ_BINDING
<1>9. ws = <<w>> /\ kinds = <<k>>
  OBVIOUS
<1> HIDE DEF w, k, ws, kinds
<1>10. GoodWords(heap, ws, kinds, blow) /\ (IsMade(L[ip].mode) \/ NoneNew(kinds))
  BY <1>6, <1>7, <1>9, OneWord
<1> QED BY <1>3, <1>4, <1>5, <1>8, <1>10, MovedHere

\* A capture of the function in REG_1, by its own number of captures.
LEMMA CAPTURE_READ_Sound ==
  ASSUME NEW L, NEW A, NEW fr, NEW m, NEW low, NEW base, NEW blow, Running(L, A, fr, m, low, base, blow),
         ObeysHere(L, A), CAPTURE_READ
  PROVE  Sound(L, A)
<1>1. op = "CAPTURE_READ"
  BY DEF CAPTURE_READ, Op
<1>2. Binds(chunk, L, ip)
  BY <1>1, BindsHere DEF BindOps
<1> DEFINE offset == arg.offset
           self == Val(bindings[Len(bindings) - offset])
           k == FromTop(L[ip].binds, offset)
           kinds == <<VALUE>>
           captures == heap[bindings[Len(bindings) - offset]].fields
           w == Val(captures[arg.capture + 1])
           ws == <<w>>
<1>3. /\ L[ip].mode = READY \/ IsMade(L[ip].mode) 
      /\ offset \in 0..(Len(L[ip].binds) - 1) /\ k.kind = "self" /\ k.n \in DOMAIN chunk.closures
      /\ arg.capture \in 0..(chunk.closures[k.n].capture_count - 1)
      /\ GoesOn(chunk, L, ip, Replaced(L[ip], 0, kinds))
  BY <1>1, <1>2, HereIs DEF Binds, Here
<1>4. offset \in Nat /\ offset < Len(L[ip].binds) /\ 0 \in 0..Len(L[ip].words)
  BY <1>3, TypedHere
<1>5. L[ip].mode # RETURNING /\ L[ip].mode.kind # "tested" /\ L[ip].mode # FAILING
  BY <1>3, BusyModes
<1>6. /\ Len(bindings) \in Nat /\ offset + 1 <= Len(bindings) /\ self.n \in DOMAIN heap
      /\ Known(heap, self, k, 0)
  BY <1>4, <1>5, BoundHere
<1>7. /\ heap[self.n].type \in {"closure", "thunk"} /\ heap[self.n].n = k.n
      /\ Filled(heap[self.n], heap) /\ Shaped(heap[self.n], heap, chunk, A)
  <2>1. /\ heap[self.n].type \in {"closure", "thunk"} /\ heap[self.n].n = k.n
        /\ Filled(heap[self.n], heap)
    BY <1>3, <1>6 DEF Known
  <2> HIDE DEF self
  <2>2. Shaped(heap[self.n], heap, chunk, A)
    BY <1>6, TypedHere DEF GoodHeap
  <2> QED BY <2>1, <2>2
<1>8. captures = heap[self.n].fields
  BY DEF Val
<1> HIDE DEF self, captures
<1>9. captures \in Seq(Nat) /\ Len(captures) = chunk.closures[k.n].capture_count
      /\ \A x \in DOMAIN captures : captures[x] \in DOMAIN heap
  BY <1>7, <1>8 DEF Shaped, Filled
<1>10. arg.capture + 1 \in DOMAIN captures /\ captures[arg.capture + 1] \in Nat
  <2>1. Len(captures) \in Nat /\ DOMAIN captures = 1..Len(captures)
    BY <1>9, LenProperties
  <2>2. arg.capture + 1 \in 1..Len(captures)
    <3> DEFINE x == arg.capture
               n == Len(captures)
    <3>1. x \in 0..(n - 1) /\ n \in Nat
      BY <1>3, <1>9, <2>1
    <3> HIDE DEF x, n
    <3>2. x + 1 \in 1..n
      BY ONLY <3>1
    <3> QED BY <3>2 DEF x, n
  <2> QED BY <1>9, <2>1, <2>2, ElementOfSeq
<1>11. w \in Words /\ IsRef(heap, w)
  BY <1>9, <1>10 DEF Val, Words, IsRef
<1>12. Replace(0, ws) /\ Continue /\ UNCHANGED <<bindings, reg_1, heap>>
  <2>1. ~(offset + 1 > Len(bindings))
    BY <1>4, <1>6
  <2>2. ~(arg.capture + 1 \notin DOMAIN captures)
    BY <1>10
  <2>3. ws = <<Val(captures[arg.capture + 1])>>
    OBVIOUS
  <2>4. IF arg.capture + 1 \notin DOMAIN captures THEN Panic
        ELSE /\ Replace(0, <<Val(captures[arg.capture + 1])>>)
             /\ Continue /\ UNCHANGED <<bindings, reg_1, heap>>
    BY <2>1, Zenon DEF CAPTURE_READ, captures
  <2> HIDE DEF ws
  <2> QED BY <2>2, <2>3, <2>4
<1>13. ws = <<w>> /\ kinds = <<VALUE>> /\ VALUE.kind # "new" /\ Known(heap, w, VALUE, blow)
  BY <1>11 DEF VALUE, Kind, Known
<1> HIDE DEF offset, w, ws, kinds
<1>14. GoodWords(heap, ws, kinds, blow) /\ NoneNew(kinds)
  <2> DEFINE v == VALUE
  <2>1. v = VALUE
    OBVIOUS
  <2> HIDE DEF v
  <2> QED BY <1>11, <1>13, <2>1, OneWord DEF IsRef
<1> QED BY <1>3, <1>4, <1>5, <1>12, <1>14, MovedHere

\* No more bindings are removed than the function made.
LEMMA REMOVE_BINDINGS_Sound ==
  ASSUME NEW L, NEW A, NEW fr, NEW m, NEW low, NEW base, NEW blow, Running(L, A, fr, m, low, base, blow),
         ObeysHere(L, A), REMOVE_BINDINGS
  PROVE  Sound(L, A)
<1>1. op \in {"REMOVE_BINDING", "REMOVE_BINDINGS"}
  BY DEF REMOVE_BINDINGS, Op
<1>2. Binds(chunk, L, ip)
  BY <1>1, BindsHere DEF BindOps
<1> DEFINE n == IF op = "REMOVE_BINDING" THEN 1 ELSE arg
           k == Len(L[ip].binds) - n
           binds == Drop(L[ip].binds, n)
           l2 == [L[ip] EXCEPT !.binds = binds]
           b == Beyond(chunk, ip)
           j == blow + k
           bs2 == SubSeq(bindings, 1, j)
<1>3. L[ip].mode = READY /\ n \in 0..Len(L[ip].binds) /\ Goes(L, l2, b)
  <2>1. L[ip].mode = READY /\ n \in 0..Len(L[ip].binds) /\ GoesOn(chunk, L, ip, [L[ip] EXCEPT !.binds = Drop(@, n)])
    BY <1>1, <1>2, HereIs DEF Binds, Here
  <2> QED BY <2>1 DEF GoesOn
<1>4. /\ Len(bindings) \in Nat /\ blow \in Nat /\ Len(L[ip].binds) \in Nat
      /\ Len(bindings) = blow + Len(L[ip].binds)
  BY <1>3, CalmModes, BindingsHere DEF READY, FAILING, Kind
<1>5. k \in 0..Len(L[ip].binds) /\ j = Len(bindings) - n /\ n <= Len(bindings)
  <2> DEFINE x == Len(L[ip].binds)
             y == Len(bindings)
  <2>1. n \in 0..x /\ y \in Nat /\ blow \in Nat /\ x \in Nat /\ y = blow + x
    BY <1>3, <1>4
  <2> HIDE DEF n, x, y
  <2>2. x - n \in 0..x /\ blow + (x - n) = y - n /\ n <= y
    BY ONLY <2>1
  <2> QED BY <2>2 DEF x, y
<1>6. l2 = [L[ip] EXCEPT !.mode = READY, !.binds = binds]
  BY <1>3, TypedHere DEF IsLayout
<1>7. /\ IsCut(binds, L[ip].binds, k) /\ IsCut(bs2, bindings, j) /\ j = blow + k /\ b = next
      /\ bs2 = SubSeq(bindings, 1, j)
  BY HereIs DEF IsCut, Drop
<1>8. IF n > Len(bindings) THEN Panic
      ELSE bindings' = Drop(bindings, n) /\ Continue /\ UNCHANGED <<stack, reg_1, heap>>
  BY DEF REMOVE_BINDINGS
<1>9. n \in Int
  BY <1>3
<1> HIDE DEF n, k, binds, l2, b, j, bs2
<1>10. KeepsTo(chunk, L, A, heap, stack, bs2, reg_1, exception_reg, b)
  BY <1>3, <1>5, <1>6, <1>7, CutHere
<1>11. bindings' = bs2 /\ Continue /\ UNCHANGED <<stack, reg_1, heap>>
  <2>1. ~(n > Len(bindings))
    BY <1>4, <1>5, <1>9
  <2>2. Drop(bindings, n) = bs2
    BY <1>5, <1>7 DEF Drop
  <2> QED BY <1>8, <2>1, <2>2
<1> QED BY <1>7, <1>10, <1>11 DEF Continue, outside, Advance, Sound, GoesOnWell

\* The value on top is bound.
LEMMA CREATE_BINDING_Sound ==
  ASSUME NEW L, NEW A, NEW fr, NEW m, NEW low, NEW base, NEW blow, Running(L, A, fr, m, low, base, blow),
         ObeysHere(L, A), CREATE_BINDING
  PROVE  Sound(L, A)
<1>1. op = "CREATE_BINDING"
  BY DEF CREATE_BINDING, Op
<1>2. Binds(chunk, L, ip)
  BY <1>1, BindsHere DEF BindOps
<1> DEFINE top == FromTop(L[ip].words, 0)
           none == <<>>
           l1 == Replaced(L[ip], 1, none)
           binds == Append(L[ip].binds, top)
           l2 == [l1 EXCEPT !.binds = binds]
           bs2 == Append(bindings, Word(0).n)
           b == Beyond(chunk, ip)
<1>3. /\ L[ip].mode = READY \/ IsMade(L[ip].mode) 
      /\ HasReferences(L[ip], 1) 
  BY <1>1, <1>2, HereIs DEF Binds, Here
<1>4. 1 \in 0..Len(L[ip].words) /\ 0 < Len(L[ip].words) /\ IsReference(top)
  <2>1. 0 \in 0..(1 - 1)
    OBVIOUS
  <2> QED BY <1>3, <2>1, TypedHere DEF HasReferences
<1>5. L[ip].mode # RETURNING /\ L[ip].mode.kind # "tested" /\ L[ip].mode # FAILING /\ L[ip].mode # APPLYING
  BY <1>3, BusyModes
<1>6. /\ Word(0) \in Words /\ IsRef(heap, Word(0)) /\ Known(heap, Word(0), top, blow)
      /\ (~IsMade(L[ip].mode) => top.kind # "new") /\ Word(0).n \in Nat /\ Word(0) = Val(Word(0).n)
  <2>1. /\ Word(0) \in Words /\ Known(heap, Word(0), top, blow)
        /\ (~IsMade(L[ip].mode) => top.kind # "new")
    BY <1>4, WordHere
  <2>2. IsRef(heap, Word(0)) /\ DOMAIN heap = 1..Len(heap)
    BY <1>4, <2>1, TypedHere, ListLength DEF Known, GoodHeap
  <2> QED BY <2>1, <2>2 DEF IsRef, Words, Val
<1>7. /\ none = <<>> /\ l1 = Replaced(L[ip], 1, none) /\ l2 = [l1 EXCEPT !.binds = binds]
      /\ IsAppended(binds, L[ip].binds, top) /\ IsAppended(bs2, bindings, Word(0).n) /\ b = next
  BY HereIs DEF IsAppended
<1>8. Replace(1, none) /\ bindings' = bs2 /\ Continue /\ UNCHANGED <<reg_1, heap>>
  BY DEF CREATE_BINDING
<1>9. IsLayout(L[ip]) /\ IsList(L[ip].binds) /\ IsList(bindings) /\ bindings \in Seq(Nat)
  BY TypedHere, ListOver DEF IsLayout, Typed
<1>20. Goes(L, l2, b)
  <2>1. GoesOn(chunk, L, ip, [Replaced(L[ip], 1, <<>>) EXCEPT !.binds = Append(@, FromTop(L[ip].words, 0))])
    BY <1>1, <1>2, HereIs DEF Binds, Here
  <2>2. l1.binds = L[ip].binds
    BY <1>9 DEF Replaced, IsLayout
  <2> QED BY <2>1, <2>2 DEF GoesOn
<1> HIDE DEF top, none, l1, l2, binds, bs2, b
<1>10. GoodWords(heap, none, none, blow) /\ NoneNew(none) /\ IsList(none)
  BY <1>7, NoWords DEF GoodWords
<1>11. /\ IsLayout(l1) /\ IsReplaced(l1.words, L[ip].words, 1, none) /\ l1.reg = L[ip].reg
       /\ l1.binds = L[ip].binds /\ l1.mode = L[ip].mode /\ l1.place = L[ip].place
  BY <1>3, <1>4, <1>7, <1>9, <1>10, ReplacedLayout
<1>12. /\ l2.words = l1.words /\ l2.binds = binds /\ l2.mode = l1.mode /\ l2.place = l1.place /\ l2.reg = l1.reg
       /\ l2 = [place |-> l1.place, mode |-> l1.mode, words |-> l1.words, binds |-> binds, reg |-> l1.reg]
  BY <1>7, <1>11 DEF IsLayout
<1> DEFINE n == Len(L[ip].binds)
           j == Len(bindings)
<1>13. /\ IsList(binds) /\ n \in Nat /\ Len(binds) = n + 1 /\ DOMAIN L[ip].binds = 1..n
       /\ DOMAIN binds = 1..(n + 1) /\ binds[n + 1] = top /\ \A i \in 1..n : binds[i] = L[ip].binds[i]
  BY <1>7, <1>9, Appended
<1>14. /\ j \in Nat /\ Len(bs2) = j + 1 /\ DOMAIN bs2 = 1..(j + 1) /\ DOMAIN bindings = 1..j
       /\ bs2[j + 1] = Word(0).n /\ \A i \in 1..j : bs2[i] = bindings[i]
  BY <1>7, <1>9, Appended
<1> HIDE DEF n, j
<1>15. IsLayout(l2)
  <2>1. ASSUME NEW i \in DOMAIN binds
        PROVE  IsReference(binds[i]) /\ (IsMade(L[ip].mode) \/ binds[i].kind # "new")
    <3>1. i \in 1..n \/ i = n + 1
      BY <1>13
    <3>2. CASE i \in 1..n
      BY <1>9, <1>13, <3>2 DEF IsLayout
    <3>3. CASE i = n + 1
      BY <1>4, <1>6, <1>13, <3>3
    <3> QED BY <3>1, <3>2, <3>3
  <2>2. l2 = [place |-> l2.place, mode |-> l2.mode, words |-> l2.words, binds |-> l2.binds, reg |-> l2.reg]
    BY <1>12
  <2> QED BY ONLY <1>11, <1>12, <1>13, <2>1, <2>2 DEF IsLayout
<1>16. j = blow + n /\ blow \in Nat /\ AreBindings(heap, bindings, blow, L[ip].binds)
       /\ \A i \in DOMAIN bindings : bindings[i] \in DOMAIN heap
  <2>1. j = blow + n /\ blow \in Nat
    BY <1>5, BindingsHere DEF j, n
  <2> QED BY <2>1, TypedHere DEF Current, Typed
<1>17. GoodBindings(heap, bs2, bindings, blow, L[ip].mode, binds)
  <2>1. bs2 \in Seq(Nat)
    BY <1>6, <1>7, <1>9, AppendProperties DEF IsAppended
  <2>2. ASSUME NEW i \in DOMAIN bs2
        PROVE  bs2[i] \in DOMAIN heap
    <3>1. i \in 1..j \/ i = j + 1
      BY <1>14
    <3> QED BY <1>6, <1>14, <1>16, <3>1 DEF IsRef
  <2>3. SameTo(bs2, bindings, blow)
    <3>1. \A i \in 1..blow : i \in 1..j
      BY <1>13, <1>14, <1>16
    <3> QED BY <1>14, <3>1 DEF SameTo
  <2>4. Len(bs2) = blow + Len(binds)
    BY <1>13, <1>14, <1>16
  <2>5. ASSUME NEW i \in DOMAIN binds
        PROVE  Known(heap, Val(bs2[blow + i]), binds[i], 0)
    <3>1. i \in 1..n \/ i = n + 1
      BY <1>13
    <3>2. CASE i \in 1..n
      <4>1. blow + i \in 1..j /\ i \in DOMAIN L[ip].binds
        BY <1>13, <1>16, <3>2
      <4>2. bs2[blow + i] = bindings[blow + i] /\ binds[i] = L[ip].binds[i]
        BY <1>13, <1>14, <3>2, <4>1
      <4> QED BY <1>16, <4>1, <4>2 DEF AreBindings
    <3>3. CASE i = n + 1
      <4>1. blow + i = j + 1
        BY <1>13, <1>14, <1>16, <3>3
      <4>2. Val(bs2[blow + i]) = Word(0) /\ binds[i] = top
        BY <1>6, <1>13, <1>14, <3>3, <4>1
      <4>3. Known(heap, Word(0), top, 0)
        BY <1>4, <1>6 DEF Known, IsReference
      <4> QED BY <4>2, <4>3
    <3> QED BY <3>1, <3>2, <3>3
  <2> QED BY <1>5, <2>1, <2>2, <2>3, <2>4, <2>5 DEF GoodBindings, AreBindings
<1>18. GoodReg(heap, reg_1, L[ip].reg) /\ exception_reg \in Words /\ IsRef(heap, exception_reg)
  BY TypedHere, RegStays DEF Running
<1>19. GoodTest(heap, stack', l2) /\ IsReplaced(stack', stack, 1, none)
  BY <1>5, <1>8, <1>11, <1>12 DEF GoodTest, Replace, IsReplaced
<1>21. KeepsTo(chunk, L, A, heap, stack', bs2, reg_1, exception_reg, b)
  BY <1>4, <1>5, <1>10, <1>11, <1>12, <1>15, <1>17, <1>18, <1>19, <1>20, TypedHere, StepTo DEF Running
<1> QED BY <1>7, <1>8, <1>21 DEF Continue, outside, Advance, Sound, GoesOnWell

-----------------------------------------------------------------------------
(* Jumping.                                                                *)
ReplacedAs(new, s, n, t) ==
  /\ Len(new) = Len(s) - n + Len(t)
  /\ \A i \in 1..(Len(s) - n) : new[i] = s[i]
  /\ \A i \in 1..Len(t) : new[Len(s) - n + i] = t[i]

\* ReplacedAs, spelled out, is IsReplaced.
LEMMA ReplacedIs ==
  ASSUME NEW s, IsList(s), NEW t, IsList(t), NEW n \in 0..Len(s), NEW new, IsList(new), ReplacedAs(new, s, n, t)
  PROVE  IsReplaced(new, s, n, t)
<1> DEFINE other == Drop(s, n) \o t
           S == { new[i] : i \in DOMAIN new }
           T == { other[i] : i \in DOMAIN other }
           U == S \cup T
           k == Len(s) - n
<1>1. IsReplaced(other, s, n, t) /\ n \in 0..Len(s) /\ other = Drop(s, n) \o t
  BY DEF IsReplaced
<1> HIDE DEF other
<1>2. /\ IsList(other) /\ Len(s) \in Nat /\ Len(t) \in Nat /\ Len(other) = k + Len(t)
      /\ \A i \in 1..k : other[i] = s[i]
      /\ \A i \in 1..Len(t) : other[k + i] = t[i]
  <2>1. /\ IsList(other) /\ Len(s) \in Nat /\ Len(t) \in Nat /\ Len(other) \in Nat
        /\ Len(other) = Len(s) - n + Len(t)
        /\ \A i \in 1..(Len(s) - n) : other[i] = s[i]
        /\ \A i \in 1..Len(t) : other[Len(s) - n + i] = t[i]
    <3>1. IsReplaced(other, s, n, t) /\ n \in 0..Len(s)
      BY ONLY <1>1
    <3> QED BY ONLY <3>1, IsList(s), IsList(t), ListReplaced
  <2> QED BY <2>1
<1>3. /\ Len(new) = k + Len(t)
      /\ \A i \in 1..k : new[i] = s[i]
      /\ \A i \in 1..Len(t) : new[k + i] = t[i]
  BY DEF ReplacedAs
<1>4. k \in Nat
  BY <1>1, <1>2
<1> HIDE DEF k
<1>5. ASSUME NEW i \in 1..(k + Len(t))
      PROVE  new[i] = other[i]
  <2>1. CASE i \in 1..k
    BY <1>2, <1>3, <2>1
  <2>2. CASE i \notin 1..k
    <3> DEFINE j == i - k
    <3>1. j \in 1..Len(t) /\ k + j = i
      BY <1>2, <1>4, <2>2
    <3> HIDE DEF j
    <3> QED BY <1>2, <1>3, <3>1
  <2> QED BY <2>1, <2>2
<1>6. new \in Seq(S) /\ other \in Seq(T) /\ S \subseteq U /\ T \subseteq U
  BY <1>2 DEF IsList
<1> DEFINE m == k + Len(t)
<1>7. m \in Nat /\ Len(new) = m /\ Len(other) = m /\ \A i \in 1..m : new[i] = other[i]
  BY <1>2, <1>3, <1>4, <1>5
<1> HIDE DEF S, T, U, m
<1>8. new \in Seq(U) /\ other \in Seq(U)
  BY ONLY <1>6, Widened
<1>9. new = other
  BY ONLY <1>7, <1>8, SameSeq
<1> QED BY <1>1, <1>9 DEF IsReplaced

\* Of what was left, one more is replaced.
LEMMA ReplacedAgain ==
  ASSUME NEW s, IsList(s), NEW none, none = <<>>, NEW one, one = 1, NEW two, two = 2, NEW mid, IsReplaced(mid, s, one, none),
         NEW t, IsList(t), Len(s) >= 2, NEW new, IsReplaced(new, mid, one, t)
  PROVE  IsReplaced(new, s, two, t)
<1>1. IsList(none) /\ Len(none) = 0
  BY NoWords DEF GoodWords
<1>2. Len(s) \in Nat /\ one \in 0..Len(s) /\ two \in 0..Len(s)
  BY ListLength
<1>3. /\ IsList(mid) /\ Len(mid) = Len(s) - one + Len(none)
      /\ \A i \in 1..(Len(s) - one) : mid[i] = s[i]
  BY ONLY <1>1, <1>2, IsList(s), IsReplaced(mid, s, one, none), ListReplaced
<1>4. Len(mid) = Len(s) - 1 /\ one \in 0..Len(mid)
  BY <1>1, <1>2, <1>3
<1>5. /\ IsList(new) /\ Len(mid) \in Nat /\ Len(t) \in Nat /\ Len(new) \in Nat
      /\ Len(new) = Len(mid) - one + Len(t)
      /\ \A i \in 1..(Len(mid) - one) : new[i] = mid[i]
      /\ \A i \in 1..Len(t) : new[Len(mid) - one + i] = t[i]
  <2>1. IsList(mid) /\ one \in 0..Len(mid)
    BY <1>3, <1>4
  <2> QED BY ONLY <2>1, IsList(t), IsReplaced(new, mid, one, t), ListReplaced
<1> DEFINE k == Len(s) - two
<1>6. k = Len(mid) - one /\ k \in Nat /\ \A i \in 1..k : i \in 1..(Len(s) - one)
  BY <1>2, <1>4
<1> HIDE DEF k
<1>7. /\ Len(new) = k + Len(t)
      /\ \A i \in 1..k : new[i] = s[i]
      /\ \A i \in 1..Len(t) : new[k + i] = t[i]
  BY <1>3, <1>5, <1>6
<1>8. ReplacedAs(new, s, two, t)
  BY <1>7 DEF ReplacedAs, k
<1> QED BY <1>2, <1>5, <1>8, ReplacedIs

\* What stays may be said to be replaced.
LEMMA ReplacedBySame ==
  ASSUME NEW s, IsList(s), NEW none, none = <<>>, NEW one, one = 1, NEW two, two = 2, NEW new, IsReplaced(new, s, one, none),
         Len(s) >= 2, NEW t, IsList(t), Len(t) = 1, t[1] = s[Len(s) - 1]
  PROVE  IsReplaced(new, s, two, t)
<1>1. IsList(none) /\ Len(none) = 0
  BY NoWords DEF GoodWords
<1>2. Len(s) \in Nat /\ one \in 0..Len(s) /\ two \in 0..Len(s)
  BY ListLength
<1>3. /\ IsList(new) /\ Len(new) = Len(s) - one + Len(none)
      /\ \A i \in 1..(Len(s) - one) : new[i] = s[i]
  BY ONLY <1>1, <1>2, IsList(s), IsReplaced(new, s, one, none), ListReplaced
<1> DEFINE k == Len(s) - two
<1>4. /\ Len(new) = k + Len(t) /\ k \in Nat /\ k + 1 = Len(s) - 1 /\ k + 1 \in 1..(Len(s) - one)
      /\ \A i \in 1..k : i \in 1..(Len(s) - one)
  BY <1>1, <1>2, <1>3
<1> HIDE DEF k
<1>5. new[k + 1] = t[1]
  BY <1>3, <1>4
<1>6. \A i \in 1..k : new[i] = s[i]
  BY <1>3, <1>4
<1>7. \A i \in 1..Len(t) : new[k + i] = t[i]
  BY <1>5
<1>8. ReplacedAs(new, s, two, t)
  BY <1>4, <1>6, <1>7 DEF ReplacedAs, k
<1> QED BY <1>2, <1>3, <1>8, ReplacedIs

\* A word is popped; the test is over.
Popped(l) == [Replaced(l, 1, <<>>) EXCEPT !.mode = READY]
\* The layout behind a branch: the truth value is gone.
LEMMA PoppedLayout ==
  ASSUME NEW l, IsLayout(l), Len(l.words) >= 1, ~IsMade(l.mode), NEW none, none = <<>>
  PROVE  /\ IsLayout(Popped(l)) /\ IsReplaced(Popped(l).words, l.words, 1, none)
         /\ Popped(l).binds = l.binds /\ Popped(l).mode = READY /\ Popped(l).reg = l.reg /\ Popped(l).place = l.place
         /\ IsList(Popped(l).words) /\ Len(Popped(l).words) = Len(l.words) - 1
<1> DEFINE l1 == Replaced(l, 1, none)
           l2 == Popped(l)
           one == 1
<1>1. one \in 0..Len(l.words) /\ one = 1
  BY ListLength DEF IsLayout
<1>2. NoneNew(none) /\ IsList(none) /\ Len(none) = 0
  BY NoWords DEF GoodWords
<1>3. l1 = Replaced(l, one, none) /\ l2 = [l1 EXCEPT !.mode = READY]
  BY DEF Popped
<1> HIDE DEF l1, l2, one
<1>4. /\ IsLayout(l1) /\ IsReplaced(l1.words, l.words, one, none)
      /\ l1.binds = l.binds /\ l1.mode = l.mode /\ l1.reg = l.reg /\ l1.place = l.place
  BY <1>1, <1>2, <1>3, ReplacedLayout
<1>5. /\ l2.words = l1.words /\ l2.binds = l1.binds /\ l2.mode = READY /\ l2.reg = l1.reg /\ l2.place = l1.place
      /\ l2 = [place |-> l1.place, mode |-> READY, words |-> l1.words, binds |-> l1.binds, reg |-> l1.reg]
  BY <1>3, <1>4 DEF IsLayout
<1>6. IsLayout(l2)
  BY <1>4, <1>5 DEF IsLayout, READY, RETURNING, Kind
<1> DEFINE old == l.words
           new == l1.words
<1>7. IsList(old) /\ one \in 0..Len(old) /\ IsReplaced(new, old, one, none)
  BY <1>1, <1>4 DEF IsLayout
<1> HIDE DEF old, new
<1>8. Len(new) = Len(old) - one + Len(none) /\ IsList(new) /\ Len(old) \in Nat
  BY ONLY <1>2, <1>7, ListReplaced
<1>9. Len(l2.words) = Len(l.words) - 1 /\ IsList(l2.words)
  BY <1>1, <1>2, <1>5, <1>8 DEF old, new
<1> QED BY <1>1, <1>4, <1>5, <1>6, <1>9 DEF l2

\* Behind a test of a constructor its outcome is known on one of both ways.
LEMMA JUMP_REL_CONDITIONAL_Sound ==
  ASSUME NEW L, NEW A, NEW fr, NEW m, NEW low, NEW base, NEW blow, Running(L, A, fr, m, low, base, blow),
         ObeysHere(L, A), JUMP_REL_CONDITIONAL
  PROVE  Sound(L, A)
<1>1. op = "JUMP_REL_CONDITIONAL"
  BY DEF JUMP_REL_CONDITIONAL, Op
<1>2. Forks(chunk, L, ip)
  BY <1>1, HereIs, Sorts DEF ObeysHere, Here
<1> DEFINE l == L[ip]
           l2 == Popped(l)
           v == VARIANT(l.mode.n)
           kinds == <<v>>
           l3 == Replaced(l2, 1, kinds)
           none == <<>>
           taken == next + arg
<1>3. HasReferences(l, 1) /\ Goes(L, l2, next)
  BY <1>2, HereIs DEF Forks, Here, GoesOn, Popped
<1>4. \/ l.mode = READY /\ Goes(L, l2, taken)
      \/ l.mode.kind = "tested" /\ HasReferences(l, 2) /\ Goes(L, l3, taken)
  BY <1>2, HereIs DEF Forks, Here, Popped
<1>5. Len(l.words) >= 1 /\ Len(l.words) \in Nat
  BY <1>3, TypedHere DEF HasReferences
<1>6. ~IsMade(l.mode) /\ l.mode # APPLYING /\ l.mode # RETURNING /\ l.mode # FAILING
  BY <1>4 DEF READY, IsMade, APPLYING, RETURNING, FAILING, Kind
<1>7. /\ READY # RETURNING /\ READY # APPLYING /\ READY # FAILING /\ READY.kind # "tested" /\ ~IsMade(READY)
  BY DEF READY, IsMade, APPLYING, RETURNING, FAILING, Kind
<1>8. none = <<>> /\ kinds = <<v>> /\ l3 = Replaced(l2, 1, kinds) /\ v.kind = "variant" /\ v.n = l.mode.n
  BY DEF VARIANT, Kind
<1>9. l = L[ip] /\ IsLayout(l)
  BY TypedHere
<1>30. runtime_error \/ (/\ Replace(1, none) /\ UNCHANGED <<bindings, reg_1, heap>>
                         /\ Obj(0).type = "bool"
                         /\ JumpTo(IF Obj(0).n = 1 THEN taken ELSE next))
  BY DEF JUMP_REL_CONDITIONAL
<1> HIDE DEF l, l2, v, kinds, l3, none, taken
<1>10. /\ IsLayout(l2) /\ IsReplaced(l2.words, l.words, 1, none)
       /\ l2.binds = l.binds /\ l2.mode = READY /\ l2.reg = l.reg /\ l2.place = l.place
       /\ IsList(l2.words) /\ Len(l2.words) = Len(l.words) - 1
  BY <1>5, <1>6, <1>8, <1>9, PoppedLayout DEF l2
<1>11. NoneNew(l.words) /\ NoneNew(l.binds)
  BY <1>6, <1>9 DEF IsLayout, NoneNew
<1>12. Grows(heap, heap) /\ GoodHeap(heap, READY, chunk, A)
  BY <1>6, <1>7, <1>9, TypedHere, ModeForgotten
<1>13. GoodBindings(heap, bindings, bindings, blow, READY, l.binds)
  BY <1>6, <1>7, <1>9, <1>12, BindingsStay DEF Running
<1>14. GoodReg(heap, reg_1, l.reg) /\ exception_reg \in Words /\ IsRef(heap, exception_reg)
  BY <1>9, <1>12, RegStays DEF Running
<1>15. GoodWords(heap, none, none, blow)
  BY <1>8, NoWords
<1>16. ASSUME IsReplaced(stack', stack, 1, none), NEW b, Goes(L, l2, b)
       PROVE  KeepsTo(chunk, L, A, heap, stack', bindings, reg_1, exception_reg, b)
  <2>1. GoodTest(heap, stack', l2)
    BY <1>7, <1>10 DEF GoodTest
  <2>2. 1 \in 0..Len(l.words)
    BY <1>5
  <2> QED BY <1>6, <1>7, <1>9, <1>10, <1>11, <1>12, <1>13, <1>14, <1>15, <1>16, <2>1, <2>2, StepTo DEF Running
<1>17. ASSUME IsReplaced(stack', stack, 1, none), l.mode.kind = "tested", Obj(0).n = 1, HasReferences(l, 2), Goes(L, l3, taken)
       PROVE  KeepsTo(chunk, L, A, heap, stack', bindings, reg_1, exception_reg, taken)
  <2> DEFINE ws == <<Word(1)>>
             two == 2
             one == 1
  <2>1. 0 < Len(l.words) /\ 1 < Len(l.words) /\ two \in 0..Len(l.words) /\ two = 2 /\ one = 1 /\ one \in 0..Len(l2.words)
    BY <1>5, <1>10, <1>17 DEF HasReferences
  <2>2. /\ Word(1) \in Words /\ (Word(1).tag => Word(1).n \in DOMAIN heap) /\ Len(stack) \in Nat /\ 1 < Len(stack)
        /\ Known(heap, Word(1), FromTop(l.words, 1), blow)
    BY <1>9, <2>1, WordHere
  <2>3. Obj(1).type = "object" /\ Obj(1).n = l.mode.n
    <3>1. heap[stack[Len(stack)].n].n = 1 => /\ heap[stack[Len(stack) - 1].n].type = "object"
                                             /\ heap[stack[Len(stack) - 1].n].n = l.mode.n
      BY <1>9, <1>17, TypedHere DEF Current
    <3>2. Obj(0) = heap[stack[Len(stack)].n] /\ Obj(1) = heap[stack[Len(stack) - 1].n]
      BY <2>2 DEF Obj, Ref, Word
    <3> QED BY <1>17, <3>1, <3>2
  <2>4. IsRef(heap, Word(1))
    <3>1. 1 \in 0..(2 - 1)
      OBVIOUS
    <3>2. IsReference(FromTop(l.words, 1))
      BY <1>17, <3>1 DEF HasReferences
    <3> QED BY <2>2, <3>2 DEF Known
  <2>5. Known(heap, Word(1), v, blow)
    BY <1>8, <2>3, <2>4 DEF Known, Obj, Ref, IsReference
  <2>6. ws = <<Word(1)>> /\ ws \in Seq(Words) /\ Len(ws) = 1 /\ ws[1] = Word(1)
    BY <2>2
  <2> HIDE DEF ws, two, one
  <2>7. GoodWords(heap, ws, kinds, blow) /\ NoneNew(kinds)
    BY <1>8, <2>2, <2>5, <2>6, OneWord
  <2>8. IsList(kinds) /\ IsList(ws) /\ IsList(stack) /\ IsList(l.words)
    BY <1>9, <2>6, <2>7, TypedHere, ListOver DEF GoodWords, Typed, IsLayout
  <2>9. IsReplaced(stack', stack, two, ws)
    <3>1. ws[1] = stack[Len(stack) - 1] /\ Len(stack) >= 2
      BY <2>2, <2>6 DEF Word
    <3>2. IsReplaced(stack', stack, one, none)
      BY <1>17, <2>1
    <3> QED BY ONLY <1>8, <2>1, <2>6, <2>8, <3>1, <3>2, ReplacedBySame
  <2>10. /\ IsLayout(l3) /\ IsReplaced(l3.words, l2.words, one, kinds)
         /\ l3.binds = l2.binds /\ l3.mode = l2.mode /\ l3.reg = l2.reg /\ l3.place = l2.place
    <3>1. l3 = Replaced(l2, one, kinds)
      BY <1>8, <2>1
    <3> QED BY <1>10, <2>1, <2>7, <2>8, <3>1, ReplacedLayout
  <2>11. IsReplaced(l3.words, l.words, two, kinds)
    <3> DEFINE old == l.words
               mid == l2.words
               new == l3.words
    <3>1. IsList(old) /\ Len(old) >= 2 /\ IsReplaced(mid, old, one, none) /\ IsReplaced(new, mid, one, kinds)
      BY <1>5, <1>10, <2>1, <2>8, <2>10
    <3> HIDE DEF old, mid, new
    <3>2. IsReplaced(new, old, two, kinds)
      BY ONLY <1>8, <2>1, <2>8, <3>1, ReplacedAgain
    <3> QED BY <3>2 DEF old, new
  <2>12. GoodTest(heap, stack', l3)
    BY <1>7, <1>10, <2>10 DEF GoodTest
  <2>13. GoodBindings(heap, bindings, bindings, blow, l3.mode, l3.binds) /\ GoodReg(heap, reg_1, l3.reg)
    BY <1>10, <1>13, <1>14, <2>10
  <2> QED BY <1>6, <1>7, <1>9, <1>10, <1>11, <1>12, <1>14, <1>17, <2>1, <2>7, <2>9, <2>10, <2>11, <2>12, <2>13, StepTo DEF Running
<1>18. CASE Replace(1, none) /\ UNCHANGED <<bindings, reg_1, heap>> /\ Obj(0).n = 1 /\ JumpTo(taken)
  <2>1. IsReplaced(stack', stack, 1, none)
    BY <1>18 DEF Replace, IsReplaced
  <2>2. KeepsTo(chunk, L, A, heap, stack', bindings, reg_1, exception_reg, taken)
    BY <1>4, <1>16, <1>17, <1>18, <2>1
  <2> QED BY <1>18, <2>2 DEF JumpTo, outside, Sound, GoesOnWell
<1>19. CASE Replace(1, none) /\ UNCHANGED <<bindings, reg_1, heap>> /\ JumpTo(next)
  <2>1. IsReplaced(stack', stack, 1, none)
    BY <1>19 DEF Replace, IsReplaced
  <2>2. KeepsTo(chunk, L, A, heap, stack', bindings, reg_1, exception_reg, next)
    BY <1>3, <1>16, <2>1
  <2> QED BY <1>19, <2>2 DEF JumpTo, outside, Sound, GoesOnWell
<1> QED BY <1>18, <1>19, <1>30, ErrorHere

-----------------------------------------------------------------------------
(* Functions, thunks and their captures.                                   *)
LEMMA MakesHere ==
  ASSUME NEW L, NEW A, ObeysHere(L, A), op \in MakeOps
  PROVE  Makes(chunk, L, A, ip)
BY HereIs, Sorts DEF ObeysHere, Here

\* The captures of a new closure are null until they are written.
LEMMA NoFields ==
  ASSUME NEW n \in Nat, NEW fields, fields = Nulls(n)
  PROVE  fields \in Seq(Nat) /\ Len(fields) = n /\ \A k \in DOMAIN fields : fields[k] = 0
<1>1. fields = [i \in 1..n |-> 0]
  BY DEF Nulls
<1>2. fields \in Seq(Nat) /\ DOMAIN fields = 1..n /\ \A k \in 1..n : fields[k] = 0
  BY <1>1
<1>3. Len(fields) = n
  BY <1>2, LenProperties
<1> QED BY <1>2, <1>3

\* A closure or a thunk is made, with captures that are not written yet.
LEMMA MadeHere ==
  ASSUME NEW L, NEW A, NEW fr, NEW m, NEW low, NEW base, NEW blow, Running(L, A, fr, m, low, base, blow),
         Verified(chunk, L, A), L[ip].mode = READY, arg \in DOMAIN chunk.closures,
         NEW type \in {"closure", "thunk"}, type = "thunk" => chunk.closures[arg].arity = 0,
         GoesOn(chunk, L, ip, [Replaced(L[ip], 0, <<NEW_OBJECT>>) EXCEPT !.mode = MADE(type, arg)]),
         NEW whnf, NEW n, n = chunk.closures[arg].capture_count,
         Allocate(0, Object(type, arg, Nulls(n), 0, whnf)), Continue, UNCHANGED <<bindings, reg_1>>
  PROVE  Sound(L, A)
<1> DEFINE l == L[ip]
           mode == MADE(type, arg)
           fields == Nulls(n)
           object == Object(type, arg, fields, 0, whnf)
           l0 == [l EXCEPT !.mode = mode]
           kinds == <<NEW_OBJECT>>
           l2 == Replaced(l0, 0, kinds)
           w == Val(Len(heap) + 1)
           ws == <<w>>
<1>1. IsLayout(l) /\ l.mode = READY /\ GoodHeap(heap, READY, chunk, A) /\ l = L[ip] /\ 0 \in 0..Len(l.words)
  BY TypedHere
<1>2. mode.kind = type /\ mode.n = arg /\ IsMade(mode) /\ mode # RETURNING /\ mode # APPLYING /\ mode # FAILING
      /\ mode.kind # "tested"
  BY DEF MADE, Kind, IsMade, RETURNING, APPLYING, FAILING
<1>3. ~IsMade(READY) /\ READY # APPLYING /\ READY # FAILING
  BY DEF IsMade, READY, APPLYING, FAILING, Kind
<1>4. /\ l0.words = l.words /\ l0.binds = l.binds /\ l0.mode = mode /\ l0.place = l.place /\ l0.reg = l.reg
      /\ l0 = [place |-> l.place, mode |-> mode, words |-> l.words, binds |-> l.binds, reg |-> l.reg]
  BY <1>1 DEF IsLayout
<1>5. [Replaced(l, 0, kinds) EXCEPT !.mode = mode] = l2
  <2> HIDE DEF mode
  <2> QED BY <1>1, <1>4 DEF Replaced, IsLayout
<1>6. Goes(L, l2, next)
  BY <1>5, HereIs DEF GoesOn
<1>7. l2 = Replaced(l0, 0, kinds) /\ kinds = <<NEW_OBJECT>> /\ ws = <<w>> /\ w = Val(Len(heap) + 1)
  OBVIOUS
<1>8. Allocate(0, object) /\ object = Object(type, arg, fields, 0, whnf) /\ fields = Nulls(n)
  OBVIOUS
<1> HIDE DEF l, mode, fields, object, l0, kinds, l2, w, ws
<1>9. n \in Nat
  BY DEF Verified, IsInfo
<1>10. fields \in Seq(Nat) /\ Len(fields) = n /\ \A k \in DOMAIN fields : fields[k] = 0
  BY <1>8, <1>9, NoFields
<1>11. Fits(object, heap', chunk, A, mode)
  <2>1. IsObject(object) /\ object.type = type /\ object.n = arg /\ object.fields = fields /\ object.link = 0
    BY <1>8 DEF Object, IsObject
  <2> QED BY <1>2, <1>10, <2>1 DEF Fits, Shaped
<1>12. IsAppended(heap', heap, object) /\ IsReplaced(stack', stack, 0, ws)
  BY <1>7, <1>8 DEF Allocate, Replace, IsAppended, IsReplaced
<1>13. /\ GoodHeap(heap', mode, chunk, A) /\ Grows(heap, heap')
       /\ Len(heap') = Len(heap) + 1 /\ Len(heap) \in Nat /\ Len(heap') \in DOMAIN heap'
  BY <1>1, <1>3, <1>11, <1>12, HeapAppended
<1>14. GoodWords(heap', ws, kinds, blow) /\ IsList(kinds)
  <2> DEFINE v == NEW_OBJECT
  <2>1. v = NEW_OBJECT /\ v.kind = "new"
    BY DEF NEW_OBJECT, Kind
  <2> HIDE DEF v
  <2>2. w \in Words /\ IsRef(heap', w) /\ Known(heap', w, v, blow)
    BY <1>7, <1>13, <2>1 DEF Val, Words, Known, IsRef
  <2>3. GoodWords(heap', ws, kinds, blow)
    BY <1>7, <2>1, <2>2, OneWord DEF IsRef
  <2> QED BY <2>3 DEF GoodWords
<1>15. IsLayout(l0)
  BY <1>1, <1>2, <1>4 DEF IsLayout
<1>16. /\ IsLayout(l2) /\ IsReplaced(l2.words, l.words, 0, kinds)
       /\ l2.binds = l.binds /\ l2.mode = mode /\ l2.reg = l.reg /\ l2.place = l.place
  BY <1>1, <1>2, <1>4, <1>7, <1>14, <1>15, ReplacedLayout
<1>17. NoneNew(l.words) /\ NoneNew(l.binds)
  BY <1>1, <1>3 DEF IsLayout, NoneNew
<1>18. GoodBindings(heap', bindings, bindings, blow, mode, l.binds)
  BY <1>1, <1>2, <1>3, <1>13, <1>17, BindingsStay DEF Running
<1>19. GoodReg(heap', reg_1, l.reg) /\ exception_reg \in Words /\ IsRef(heap', exception_reg)
  BY <1>1, <1>13, RegStays DEF Running
<1>20. GoodTest(heap', stack', l2)
  BY <1>2, <1>16 DEF GoodTest
<1>21. KeepsTo(chunk, L, A, heap', stack', bindings, reg_1, exception_reg, next)
  BY <1>1, <1>2, <1>3, <1>6, <1>12, <1>13, <1>14, <1>16, <1>17, <1>18, <1>19, <1>20, StepTo DEF Running
<1> QED BY <1>21 DEF Continue, outside, Advance, Sound, GoesOnWell

\* A closure whose captures are written next.
LEMMA CREATE_CLOSURE_Sound ==
  ASSUME NEW L, NEW A, NEW fr, NEW m, NEW low, NEW base, NEW blow, Running(L, A, fr, m, low, base, blow),
         ObeysHere(L, A), Verified(chunk, L, A), CREATE_CLOSURE
  PROVE  Sound(L, A)
<1>1. op = "CREATE_CLOSURE"
  BY DEF CREATE_CLOSURE, Op
<1> DEFINE type == "closure"
           whnf == TRUE
           n == chunk.closures[arg].capture_count
<1>2. /\ L[ip].mode = READY /\ arg \in DOMAIN chunk.closures
      /\ GoesOn(chunk, L, ip, [Replaced(L[ip], 0, <<NEW_OBJECT>>) EXCEPT !.mode = MADE(type, arg)])
  BY <1>1, MakesHere, HereIs DEF Makes, MakeOps, Here
<1>3. Allocate(0, Object(type, arg, Nulls(n), 0, whnf)) /\ Continue /\ UNCHANGED <<bindings, reg_1>>
  BY DEF CREATE_CLOSURE
<1>4. type \in {"closure", "thunk"} /\ type # "thunk" /\ n = chunk.closures[arg].capture_count
  OBVIOUS
<1> HIDE DEF type, whnf, n
<1> QED BY <1>2, <1>3, <1>4, MadeHere

\* A thunk whose captures are written next.
LEMMA CREATE_THUNK_Sound ==
  ASSUME NEW L, NEW A, NEW fr, NEW m, NEW low, NEW base, NEW blow, Running(L, A, fr, m, low, base, blow),
         ObeysHere(L, A), Verified(chunk, L, A), CREATE_THUNK
  PROVE  Sound(L, A)
<1>1. op = "CREATE_THUNK"
  BY DEF CREATE_THUNK, Op
<1> DEFINE type == "thunk"
           whnf == FALSE
           n == chunk.closures[arg].capture_count
<1>2. /\ L[ip].mode = READY /\ arg \in DOMAIN chunk.closures /\ chunk.closures[arg].arity = 0
      /\ GoesOn(chunk, L, ip, [Replaced(L[ip], 0, <<NEW_OBJECT>>) EXCEPT !.mode = MADE(type, arg)])
  BY <1>1, MakesHere, HereIs DEF Makes, MakeOps, Here
<1>3. Allocate(0, Object(type, arg, Nulls(n), 0, whnf)) /\ Continue /\ UNCHANGED <<bindings, reg_1>>
  BY DEF CREATE_THUNK
<1>4. type \in {"closure", "thunk"} /\ n = chunk.closures[arg].capture_count
  OBVIOUS
<1> HIDE DEF type, whnf, n
<1> QED BY <1>2, <1>3, <1>4, MadeHere

(* An object is changed where it is.                                       *)
IsUpdated(later, hp, t, object) == later = [hp EXCEPT ![t] = object]

\* An object is written where it is, and stays of its type and evaluated.
LEMMA HeapUpdated ==
  ASSUME NEW hp, NEW c, NEW A, NEW mode, GoodHeap(hp, mode, c, A), NEW t \in DOMAIN hp, IsMade(mode) => t = Len(hp),
         NEW object, Shaped(object, hp, c, A), Filled(object, hp), object.type = hp[t].type, object.n = hp[t].n,
         hp[t].whnf => object.whnf, NEW later, IsUpdated(later, hp, t, object), NEW mode2, ~IsMade(mode2)
  PROVE  GoodHeap(later, mode2, c, A) /\ Grows(hp, later) /\ Len(later) = Len(hp)
<1> DEFINE n == Len(hp)
<1>1. IsList(hp) /\ n \in Nat /\ DOMAIN hp = 1..n
  BY ListLength DEF GoodHeap
<1>2. later = [i \in 1..n |-> IF i = t THEN object ELSE hp[i]]
  <2>1. hp \in Seq({ hp[i] : i \in DOMAIN hp })
    BY <1>1 DEF IsList
  <2>2. hp = [i \in 1..n |-> hp[i]]
    BY <2>1, LenProperties
  <2> HIDE DEF n
  <2> QED BY <1>1, <2>2 DEF IsUpdated
<1> HIDE DEF n
<1>3. DOMAIN later = DOMAIN hp /\ later[t] = object /\ \A i \in DOMAIN hp : i # t => later[i] = hp[i]
  BY <1>1, <1>2
<1>4. Len(later) = n /\ IsList(later)
  <2> DEFINE S == { later[i] : i \in DOMAIN later }
  <2>1. later \in [1..n -> S]
    BY <1>1, <1>2, <1>3
  <2> HIDE DEF S
  <2>2. later \in Seq(S)
    BY <1>1, <2>1
  <2> QED BY <1>1, <1>3, <2>2, LenProperties, ListOver
<1>5. \A i \in DOMAIN hp : later[i].type = hp[i].type /\ later[i].n = hp[i].n /\ (hp[i].whnf => later[i].whnf)
  BY <1>3
<1>6. ASSUME NEW i \in DOMAIN hp
      PROVE  /\ Shaped(later[i], hp, c, A)
             /\ Filled(hp[i], hp) \/ i = t => Filled(later[i], hp)
             /\ \A k \in DOMAIN later[i].fields : later[i].fields[k] \in {0} \cup DOMAIN hp
  <2>1. CASE i = t
    BY <1>3, <2>1 DEF Filled
  <2>2. CASE i # t
    BY <1>3, <2>2 DEF GoodHeap
  <2> QED BY <2>1, <2>2
<1>7. ASSUME NEW i \in DOMAIN hp
      PROVE  Shaped(later[i], later, c, A)
  BY <1>3, <1>5, <1>6 DEF Shaped
<1>8. ASSUME NEW i \in DOMAIN hp
      PROVE  Filled(later[i], later)
  <2>1. Filled(hp[i], hp) \/ i = t
    BY DEF GoodHeap
  <2> QED BY <1>3, <1>6, <2>1 DEF Filled
<1>9. /\ DOMAIN c.constants \subseteq DOMAIN later
      /\ FALSE_BOX \in DOMAIN later /\ later[TRUE_BOX].n = 1 /\ later[FALSE_BOX].n = 0
  <2>1. /\ DOMAIN c.constants \subseteq DOMAIN hp
        /\ FALSE_BOX \in DOMAIN hp /\ hp[TRUE_BOX].n = 1 /\ hp[FALSE_BOX].n = 0
    BY DEF GoodHeap
  <2>2. TRUE_BOX \in DOMAIN hp
    BY <1>1, <2>1 DEF TRUE_BOX, FALSE_BOX
  <2> QED BY <1>3, <1>5, <2>1, <2>2
<1>10. GoodHeap(later, mode2, c, A)
  BY <1>3, <1>4, <1>6, <1>7, <1>8, <1>9 DEF GoodHeap
<1>11. Grows(hp, later)
  <2>1. Len(hp) = n /\ n <= n
    BY <1>1 DEF n
  <2> QED BY <1>3, <1>4, <1>5, <1>8, <2>1 DEF Grows
<1> QED BY <1>4, <1>10, <1>11 DEF n
=============================================================================
