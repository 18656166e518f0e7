--------------------------- MODULE MachineProofs ---------------------------
(***************************************************************************)
(* What is true of the execution of every program: a chunk survives in a   *)
(* file, and the machine executes code that obeys its layouts without ever *)
(* missing an operand, a binding or a field.                               *)
(***************************************************************************)
EXTENDS Soundness, HeapUse

-----------------------------------------------------------------------------
(***************************************************************************)
(* The instructions that change frames, or objects where they are: fields  *)
(* and captures, returns, the updates of thunks, evaluation, and calls     *)
(* with as many arguments as the function takes, with more and with less.  *)
(***************************************************************************)

\* An object of the heap.
LEMMA ObjectHere ==
  ASSUME NEW L, NEW A, NEW fr, NEW m, NEW low, NEW base, NEW blow, Running(L, A, fr, m, low, base, blow),
         NEW i \in DOMAIN heap
  PROVE  /\ Shaped(heap[i], heap, chunk, A) /\ IsList(heap) /\ DOMAIN heap = 1..Len(heap) /\ Len(heap) \in Nat
         /\ i \in Nat /\ i # 0
         /\ ~IsMade(L[ip].mode) => Filled(heap[i], heap)
         /\ \A k \in DOMAIN heap[i].fields : heap[i].fields[k] \in {0} \cup DOMAIN heap
<1>1. GoodHeap(heap, L[ip].mode, chunk, A) /\ IsList(heap)
  BY TypedHere DEF GoodHeap
<1>2. DOMAIN heap = 1..Len(heap) /\ Len(heap) \in Nat
  BY <1>1, ListLength
<1>3. i \in Nat /\ i # 0
  BY <1>2
<1> QED BY <1>1, <1>2, <1>3 DEF GoodHeap

\* A field of an object whose constructor was tested.
LEMMA OBJECT_READ_Sound ==
  ASSUME NEW L, NEW A, NEW fr, NEW m, NEW low, NEW base, NEW blow, Running(L, A, fr, m, low, base, blow),
         ObeysHere(L, A), OBJECT_READ
  PROVE  Sound(L, A)
<1>1. op = "OBJECT_READ"
  BY DEF OBJECT_READ, Op
<1>2. Makes(chunk, L, A, ip)
  BY <1>1, MakesHere DEF MakeOps
<1> DEFINE l == L[ip]
           top == FromTop(l.words, 0)
           k == arg + 1
           w == Val(Obj(0).fields[k])
           ws == <<w>>
           v == VALUE
           kinds == <<v>>
<1>3. /\ l.mode = READY /\ Len(l.words) >= 1 /\ top.kind = "variant" /\ top.n \in DOMAIN A
      /\ arg \in 0..(A[top.n] - 1)
      /\ GoesOn(chunk, L, ip, Replaced(l, 0, kinds))
  BY <1>1, <1>2, HereIs DEF Makes, Here
<1>4. Len(l.words) \in Nat /\ 0 \in 0..Len(l.words) /\ 0 < Len(l.words) /\ l = L[ip]
  BY <1>3, TypedHere
<1>5. ~IsMade(l.mode) /\ l.mode # RETURNING /\ l.mode.kind # "tested"
  BY <1>3, BusyModes DEF READY, IsMade, Kind
<1>7. ws = <<w>> /\ kinds = <<v>> /\ v = VALUE /\ v.kind = "value"
  BY DEF VALUE, Kind
<1> HIDE DEF l, top, ws, v, kinds
<1>8. Known(heap, Word(0), top, blow) /\ IsReference(top)
  BY <1>3, <1>4, WordHere DEF top, IsReference
<1>9. Ref(0) \in DOMAIN heap /\ Obj(0).type = "object" /\ Obj(0).n = top.n
  BY <1>3, <1>8 DEF Known, IsRef, Ref, Obj
<1>10. Shaped(Obj(0), heap, chunk, A) /\ Filled(Obj(0), heap)
  BY <1>4, <1>5, <1>9, ObjectHere DEF Obj
<1>11. Obj(0).fields \in Seq(Nat) /\ Len(Obj(0).fields) = A[top.n]
  BY <1>9, <1>10 DEF Shaped
<1>12. k \in DOMAIN Obj(0).fields
  <2>1. DOMAIN Obj(0).fields = 1..A[top.n] /\ A[top.n] \in Nat
    BY <1>11, LenProperties
  <2> QED BY <1>3, <2>1
<1>13. w \in Words /\ w.n \in DOMAIN heap /\ IsRef(heap, w)
  <2>1. Obj(0).fields[k] \in Nat /\ Obj(0).fields[k] \in DOMAIN heap
    BY <1>10, <1>11, <1>12, ElementOfSeq, LenProperties DEF Filled
  <2> QED BY <2>1 DEF Val, Words, IsRef
<1>14. Replace(0, ws) /\ Continue /\ UNCHANGED <<bindings, reg_1, heap>>
  BY <1>9, <1>12, <1>7 DEF OBJECT_READ
<1> HIDE DEF w
<1>15. Known(heap, w, v, blow)
  BY <1>7, <1>13 DEF Known
<1>16. GoodWords(heap, ws, kinds, blow) /\ NoneNew(kinds)
  BY <1>7, <1>13, <1>15, OneWord
<1> QED BY <1>3, <1>4, <1>5, <1>14, <1>16, MovedHere
\* Whether an object is of a constructor, above the object.
LEMMA IS_VARIANT_Sound ==
  ASSUME NEW L, NEW A, NEW fr, NEW m, NEW low, NEW base, NEW blow, Running(L, A, fr, m, low, base, blow),
         ObeysHere(L, A), IS_VARIANT
  PROVE  Sound(L, A)
<1>1. op = "IS_VARIANT"
  BY DEF IS_VARIANT, Op
<1>2. Makes(chunk, L, A, ip)
  BY <1>1, MakesHere DEF MakeOps
<1> DEFINE l == L[ip]
           mode == TESTED(arg)
           kinds == Values(2)
           l1 == Replaced(l, 1, kinds)
           l2 == [l1 EXCEPT !.mode = mode]
           condition == Obj(0).n = arg
           w == Box(condition)
           ws == <<Word(0), w>>
           one == 1
           two == 2
<1>3. /\ l.mode = READY /\ HasReferences(l, 1) /\ Goes(L, l2, next)
  BY <1>1, <1>2, HereIs DEF Makes, Here, GoesOn
<1>4. Len(l.words) \in Nat /\ one \in 0..Len(l.words) /\ 0 < Len(l.words) /\ l = L[ip] /\ IsLayout(l) /\ 0 \in 0..(1 - 1)
  BY <1>3, TypedHere DEF HasReferences
<1>5. runtime_error \/ (/\ Obj(0).type = "object" /\ Replace(0, <<w>>) /\ Continue
                        /\ UNCHANGED <<bindings, reg_1, heap>>)
  BY DEF IS_VARIANT, Test
<1>6. /\ w = Box(condition) /\ ws = <<Word(0), w>> /\ kinds = Values(2) /\ condition = (Obj(0).n = arg)
      /\ l1 = Replaced(l, one, kinds) /\ l2 = [l1 EXCEPT !.mode = mode] /\ one = 1 /\ two = 2
  OBVIOUS
<1>7. mode.kind = "tested" /\ mode.n = arg /\ ~IsMade(mode) /\ mode # RETURNING /\ mode # APPLYING /\ mode # FAILING
  BY DEF TESTED, Kind, IsMade, RETURNING, APPLYING, FAILING
<1>8. ~IsMade(READY) /\ READY # APPLYING /\ READY # FAILING
  BY DEF IsMade, READY, APPLYING, FAILING, Kind
<1> HIDE DEF l, mode, kinds, l1, l2, condition, w, ws, one, two
<1>9. SUFFICES ASSUME Obj(0).type = "object", Replace(0, <<w>>), Continue, UNCHANGED <<bindings, reg_1, heap>>
               PROVE  Sound(L, A)
  BY <1>5, ErrorHere
<1>10. w \in Words /\ IsRef(heap, w)
  BY <1>6, Boxed
<1>11. /\ Len(stack) \in Nat /\ 0 < Len(stack) /\ Word(0) \in Words /\ IsRef(heap, Word(0)) /\ stack \in Seq(Words)
       /\ Word(0) = stack[Len(stack)] /\ Word(0).n \in DOMAIN heap
  <2>1. stack \in Seq(Words)
    BY DEF Running, InFrame, Typed
  <2>2. Len(stack) - 0 = Len(stack)
    BY <2>1, LenProperties
  <2>3. Known(heap, Word(0), FromTop(l.words, 0), blow) /\ Len(stack) \in Nat /\ 0 < Len(stack) /\ Word(0) \in Words
    BY <1>4, WordHere
  <2>4. IsReference(FromTop(l.words, 0))
    BY <1>3, <1>4 DEF HasReferences
  <2> QED BY <2>1, <2>2, <2>3, <2>4 DEF Word, Known, IsRef
<1>12. 1 \in 0..Len(stack)
  BY <1>11
<1>13. ws = <<stack[Len(stack)], w>> /\ IsReplaced(stack', stack, 0, <<w>>)
  BY <1>6, <1>9, <1>11 DEF Replace, IsReplaced
<1>14. IsReplaced(stack', stack, one, ws) /\ ws \in Seq(Words) /\ Len(ws) = 2 /\ ws[1] = Word(0) /\ ws[2] = w
  BY <1>6, <1>10, <1>11, <1>12, <1>13, KeptOnTop
<1>15. References(heap, ws)
  <2>1. 1..2 = {1, 2}
    OBVIOUS
  <2> QED BY <1>10, <1>11, <1>14, <2>1 DEF References
<1>16. GoodWords(heap, ws, kinds, blow) /\ IsList(kinds) /\ Len(kinds) = 2 /\ NoneNew(kinds)
  <2>1. two \in Nat /\ Len(ws) = two /\ kinds = Values(two)
    BY <1>6, <1>14
  <2>2. GoodWords(heap, ws, kinds, blow) /\ IsList(kinds) /\ NoneNew(kinds) /\ Len(kinds) = two
    BY <1>15, <2>1, ReferencesAreGood, AllValues
  <2> QED BY <1>6, <2>2
<1>17. /\ IsLayout(l1) /\ IsReplaced(l1.words, l.words, one, kinds) /\ l1.reg = l.reg
       /\ l1.binds = l.binds /\ l1.mode = l.mode /\ l1.place = l.place
  BY <1>4, <1>6, <1>16, ReplacedLayout
<1>18. /\ l2.words = l1.words /\ l2.binds = l.binds /\ l2.mode = mode /\ l2.place = l.place /\ l2.reg = l.reg
       /\ l2 = [place |-> l1.place, mode |-> mode, words |-> l1.words, binds |-> l1.binds, reg |-> l1.reg]
  BY <1>6, <1>17 DEF IsLayout
<1>19. IsLayout(l2)
  BY <1>3, <1>7, <1>8, <1>17, <1>18 DEF IsLayout
<1>20. NoneNew(l.words) /\ NoneNew(l.binds)
  BY <1>3, <1>4, <1>8 DEF IsLayout, NoneNew
<1>21. GoodHeap(heap, mode, chunk, A) /\ Grows(heap, heap)
  BY <1>3, <1>4, <1>7, <1>8, TypedHere, ModeForgotten
<1>22. GoodBindings(heap, bindings, bindings, blow, mode, l.binds)
  BY <1>3, <1>4, <1>7, <1>8, <1>20, <1>21, BindingsStay DEF Running
<1>23. GoodReg(heap, reg_1, l.reg) /\ exception_reg \in Words /\ IsRef(heap, exception_reg)
  BY <1>4, <1>21, RegStays DEF Running
<1>24. GoodTest(heap, stack', l2)
  <2>1. Len(l2.words) >= 2
    <3> DEFINE old == l.words
               new == l1.words
    <3>1. IsList(old) /\ IsList(kinds) /\ one \in 0..Len(old) /\ IsReplaced(new, old, one, kinds)
      BY <1>4, <1>16, <1>17 DEF IsLayout
    <3> HIDE DEF old, new
    <3>2. Len(new) = Len(old) - one + Len(kinds) /\ Len(old) \in Nat
      BY ONLY <3>1, ListReplaced
    <3>3. Len(new) >= 2
      BY <1>6, <1>16, <3>1, <3>2
    <3> QED BY <1>18, <3>3 DEF new
  <2>2. Len(stack') = Len(stack) + 1 /\ stack'[Len(stack) + 1] = w /\ stack'[Len(stack)] = Word(0)
    <3> DEFINE old == stack
               new == stack'
    <3>5. old \in Seq(Words) /\ ws \in Seq(Words) /\ one \in 0..Len(old) /\ IsReplaced(new, old, one, ws)
      BY <1>6, <1>11, <1>12, <1>14
    <3> HIDE DEF old, new
    <3>6. /\ Len(new) = Len(old) - one + Len(ws)
          /\ \A i \in 1..Len(ws) : new[Len(old) - one + i] = ws[i]
      BY ONLY <3>5, TopReplaced
    <3>1. /\ Len(stack') = Len(stack) - one + Len(ws)
          /\ \A i \in 1..Len(ws) : stack'[Len(stack) - one + i] = ws[i]
      BY <3>6 DEF old, new
    <3>2. Len(stack) - one + 1 = Len(stack) /\ Len(stack) - one + 2 = Len(stack) + 1 /\ 1 \in 1..Len(ws) /\ 2 \in 1..Len(ws)
      BY <1>6, <1>11, <1>14
    <3>3. stack'[Len(stack) - one + 1] = ws[1] /\ stack'[Len(stack) - one + 2] = ws[2]
      BY <3>1, <3>2
    <3> QED BY <1>6, <1>11, <1>14, <3>1, <3>2, <3>3
  <2>3. stack'[Len(stack')] = w /\ stack'[Len(stack') - 1] = Word(0)
    <3>1. Len(stack) + 1 - 1 = Len(stack)
      BY <1>11
    <3> QED BY <2>2, <3>1
  <2>4. heap[w.n].n = 1 => condition
    <3>1. heap[FALSE_BOX].n = 0
      BY TypedHere DEF GoodHeap
    <3> QED BY <1>6, <3>1 DEF Box, Val
  <2>5. condition => heap[Word(0).n].type = "object" /\ heap[Word(0).n].n = mode.n
    BY <1>6, <1>7, <1>9 DEF Obj, Ref
  <2> QED BY <1>18, <2>1, <2>3, <2>4, <2>5 DEF GoodTest
<1>25. KeepsTo(chunk, L, A, heap, stack', bindings, reg_1, exception_reg, next)
  <2>1. one \in 0..Len(L[ip].words) /\ IsReplaced(l2.words, L[ip].words, one, kinds) /\ l2.place = L[ip].place
        /\ L[ip].mode = READY
    BY <1>3, <1>4, <1>17, <1>18
  <2> QED BY <1>3, <1>4, <1>7, <1>8, <1>14, <1>16, <1>18, <1>19, <1>20, <1>21, <1>22, <1>23, <1>24, <2>1, StepTo DEF Running
<1> QED BY <1>9, <1>25 DEF Continue, outside, Advance, Sound, GoesOnWell
\* What is new becomes an object like others.
LEMMA Written ==
  ASSUME NEW kinds, IsList(kinds), NEW written, written = AllWritten(kinds)
  PROVE  /\ IsList(written) /\ Len(written) = Len(kinds) /\ DOMAIN written = DOMAIN kinds
         /\ DOMAIN kinds = 1..Len(kinds) /\ Len(kinds) \in Nat
         /\ \A i \in DOMAIN kinds : /\ written[i].kind # "new"
                                    /\ written[i] = kinds[i] \/ (kinds[i].kind = "new" /\ written[i] = VALUE)
<1> DEFINE n == Len(kinds)
<1>1. n \in Nat /\ DOMAIN kinds = 1..n
  BY ListLength
<1>2. written = [i \in 1..n |-> IF kinds[i].kind = "new" THEN VALUE ELSE kinds[i]]
  BY <1>1 DEF AllWritten
<1> HIDE DEF n
<1>3. \A i \in 1..n : /\ written[i].kind # "new"
                      /\ written[i] = kinds[i] \/ (kinds[i].kind = "new" /\ written[i] = VALUE)
  <2>1. VALUE.kind # "new"
    BY DEF VALUE, Kind
  <2> QED BY <1>2, <2>1
<1>4. Len(written) = n /\ IsList(written) /\ DOMAIN written = 1..n
  <2> DEFINE S == { written[i] : i \in DOMAIN written }
  <2>1. written \in [1..n -> S] /\ DOMAIN written = 1..n
    BY <1>2
  <2> HIDE DEF S
  <2>2. written \in Seq(S)
    BY <1>1, <2>1
  <2> QED BY <1>1, <2>1, <2>2, LenProperties, ListOver
<1> QED BY <1>1, <1>3, <1>4 DEF n

\* Once its captures are written a new object is a value.
LEMMA StoredCurrent ==
  ASSUME NEW hp, NEW st, NEW bs, NEW r1, NEW low, NEW base, NEW blow, NEW l, IsLayout(l), IsMade(l.mode),
         Current(hp, st, bs, r1, low, base, blow, l), NEW l2, l2 = Stored(l)
  PROVE  /\ Current(hp, st, bs, r1, low, base, blow, l2) /\ IsLayout(l2)
         /\ l2.mode = READY /\ l2.place = l.place /\ l2.reg = l.reg
<1> DEFINE words == AllWritten(l.words)
           binds == AllWritten(l.binds)
<1>1. /\ l2.words = words /\ l2.binds = binds /\ l2.mode = READY /\ l2.place = l.place /\ l2.reg = l.reg
      /\ l2 = [place |-> l.place, mode |-> READY, words |-> words, binds |-> binds, reg |-> l.reg]
  BY DEF Stored, IsLayout
<1>2. IsList(l.words) /\ IsList(l.binds) /\ words = AllWritten(l.words) /\ binds = AllWritten(l.binds)
  BY DEF IsLayout
<1> HIDE DEF words, binds
<1>3. /\ IsList(words) /\ Len(words) = Len(l.words) /\ DOMAIN words = DOMAIN l.words
      /\ DOMAIN l.words = 1..Len(l.words)
      /\ \A i \in DOMAIN l.words : /\ words[i].kind # "new"
                                   /\ words[i] = l.words[i] \/ (l.words[i].kind = "new" /\ words[i] = VALUE)
  BY <1>2, Written
<1>4. /\ IsList(binds) /\ Len(binds) = Len(l.binds) /\ DOMAIN binds = DOMAIN l.binds
      /\ \A i \in DOMAIN l.binds : /\ binds[i].kind # "new"
                                   /\ binds[i] = l.binds[i] \/ (l.binds[i].kind = "new" /\ binds[i] = VALUE)
  BY <1>2, Written
<1>5. VALUE.kind = "value" /\ IsReference(VALUE)
  BY DEF VALUE, Kind, IsReference
<1>6. /\ READY # RETURNING /\ READY # APPLYING /\ READY # FAILING /\ READY.kind # "tested" /\ ~IsMade(READY)
      /\ l.mode # APPLYING /\ l.mode # FAILING
  BY BusyModes DEF READY, RETURNING, APPLYING, FAILING, IsMade, Kind
<1>7. IsLayout(l2)
  <2>1. \A i \in DOMAIN binds : IsReference(binds[i])
    BY <1>4, <1>5 DEF IsLayout
  <2> QED BY <1>1, <1>3, <1>4, <1>6, <2>1 DEF IsLayout
<1>8. ASSUME NEW w, NEW k, NEW b, Known(hp, w, k, b), NEW known, known = k \/ (k.kind = "new" /\ known = VALUE)
      PROVE  Known(hp, w, known, b)
  BY <1>5, <1>8 DEF Known, IsReference
<1>9. AreWords(hp, st, base, blow, words, Len(words))
  BY <1>3, <1>8 DEF Current, AreWords
<1>10. AreBindings(hp, bs, blow, binds)
  BY <1>4, <1>8 DEF Current, AreBindings
<1>11. Current(hp, st, bs, r1, low, base, blow, l2)
  BY <1>1, <1>3, <1>4, <1>6, <1>9, <1>10 DEF Current, Underneath
<1> QED BY <1>1, <1>7, <1>11
\* The captures of the object made last are written, each from where it is.
LEMMA WRITE_CAPTURES_Sound ==
  ASSUME NEW L, NEW A, NEW fr, NEW m, NEW low, NEW base, NEW blow, Running(L, A, fr, m, low, base, blow),
         ObeysHere(L, A), Verified(chunk, L, A), WRITE_CAPTURES
  PROVE  Sound(L, A)
<1>1. op \in {"WRITE_CLOSURE", "WRITE_THUNK"}
  BY DEF WRITE_CAPTURES, Op
<1>2. Makes(chunk, L, A, ip)
  BY <1>1, MakesHere DEF MakeOps
<1> DEFINE l == L[ip]
           type == IF op = "WRITE_CLOSURE" THEN "closure" ELSE "thunk"
           n == chunk.closures[l.mode.n].capture_count
           v == NEW_OBJECT
           kinds == <<v>>
           k == n + 1
           l1 == Replaced(l, k, kinds)
           l2 == Stored(l1)
           t == Ref(0)
           fields == written_captures(n)
           object == [heap[t] EXCEPT !.fields = fields]
           ws == <<Word(0)>>
<1>3. /\ l.mode.kind = type /\ l.mode.n \in DOMAIN chunk.closures
      /\ HasReferences(l, k) /\ FromTop(l.words, 0) = v /\ Goes(L, l2, next)
  BY <1>1, <1>2, HereIs DEF Makes, Here, GoesOn
<1>4. n \in Nat
  BY <1>3 DEF Verified, IsInfo
<1>5. IsMade(l.mode) /\ l.mode # RETURNING /\ l.mode.kind # "tested" /\ l.mode # FAILING /\ l.mode # APPLYING
  <2>1. IsMade(l.mode)
    BY <1>3 DEF IsMade
  <2> QED BY <2>1, BusyModes
<1>6. k \in Nat /\ k \in 0..Len(l.words) /\ 0 < Len(l.words) /\ l = L[ip] /\ IsLayout(l) /\ 0 \in 0..(k - 1)
      /\ Len(l.words) \in Nat /\ k = n + 1
  <2>1. Len(l.words) >= k /\ l = L[ip] /\ k = n + 1
    BY <1>3 DEF HasReferences
  <2>2. IsLayout(l) /\ Len(l.words) \in Nat
    BY TypedHere
  <2> HIDE DEF l, k, n
  <2> QED BY <1>4, <2>1, <2>2
<1>7. v = NEW_OBJECT /\ v.kind = "new" /\ kinds = <<v>> /\ ws = <<Word(0)>> /\ l1 = Replaced(l, k, kinds)
      /\ l2 = Stored(l1) /\ t = Ref(0) /\ fields = written_captures(n) /\ object = [heap[t] EXCEPT !.fields = fields]
  BY DEF NEW_OBJECT, Kind
<1>8. n = chunk.closures[l.mode.n].capture_count
  OBVIOUS
<1> HIDE DEF l, n, v, kinds, k, l1, l2, t, fields, object, ws
<1>9. \A i \in 0..n : IsRef(heap, Word(i)) /\ Word(i) \in Words
  <2> SUFFICES ASSUME NEW i \in 0..n
               PROVE  IsRef(heap, Word(i)) /\ Word(i) \in Words
    OBVIOUS
  <2>1. i \in Nat /\ i < Len(l.words) /\ i \in 0..(k - 1)
    BY <1>4, <1>6
  <2>2. IsReference(FromTop(l.words, i))
    BY <1>3, <2>1 DEF HasReferences
  <2> QED BY <1>6, <2>1, <2>2, WordHere DEF Known
<1>10. Word(0) \in Words /\ IsRef(heap, Word(0)) /\ t \in DOMAIN heap /\ t = Word(0).n
  BY <1>4, <1>7, <1>9 DEF IsRef, Ref
<1>11. t = Len(heap) /\ heap[t].type = type /\ heap[t].n = l.mode.n
  <2>1. Known(heap, Word(0), v, blow)
    BY <1>3, <1>6, WordHere
  <2>2. t = Len(heap)
    BY <1>7, <1>10, <2>1 DEF Known
  <2>3. GoodHeap(heap, l.mode, chunk, A)
    BY <1>6, TypedHere
  <2> QED BY <1>3, <1>5, <2>2, <2>3 DEF GoodHeap
<1>12. type \in {"closure", "thunk"} /\ n = info(t).capture_count
  BY <1>8, <1>11 DEF info
<1>13. /\ IsUpdated(heap', heap, t, object) /\ Replace(k, ws) /\ Continue /\ UNCHANGED <<bindings, reg_1>>
  <2>1. Obj(0).type = type /\ \A i \in 1..n : Word(i).tag
    <3>1. \A i \in 1..n : i \in 0..n
      BY <1>4
    <3> QED BY <1>7, <1>9, <1>11, <3>1 DEF Obj, IsRef
  <2>2. /\ heap' = [heap EXCEPT ![Ref(0)].fields = written_captures(n)]
        /\ Replace(n + 1, <<Word(0)>>) /\ Continue /\ UNCHANGED <<bindings, reg_1>>
    BY <1>7, <1>12, <2>1 DEF WRITE_CAPTURES
  <2>3. heap' = [heap EXCEPT ![t] = object]
    BY <1>7, <2>2
  <2> QED BY <1>6, <1>7, <2>2, <2>3 DEF IsUpdated
<1> HIDE DEF type
<1>14. fields \in Seq(Nat) /\ Len(fields) = n /\ \A j \in DOMAIN fields : fields[j] \in DOMAIN heap
  <2>1. fields = [i \in 1..n |-> Ref(n - i + 1)]
    BY <1>7 DEF written_captures
  <2>2. \A i \in 1..n : Ref(n - i + 1) \in DOMAIN heap
    <3> SUFFICES ASSUME NEW i \in 1..n
                 PROVE  Ref(n - i + 1) \in DOMAIN heap
      OBVIOUS
    <3>1. n - i + 1 \in 0..n
      BY <1>4
    <3> QED BY <1>9, <3>1 DEF Ref, IsRef
  <2>3. DOMAIN heap \subseteq Nat
    BY <1>10, ObjectHere
  <2>4. fields \in [1..n -> Nat] /\ DOMAIN fields = 1..n
    BY <2>1, <2>2, <2>3
  <2>5. fields \in Seq(Nat)
    BY <1>4, <2>4
  <2> QED BY <1>4, <2>1, <2>2, <2>4, <2>5, LenProperties
<1>15. /\ Shaped(heap[t], heap, chunk, A) /\ IsObject(heap[t])
  BY <1>10, ObjectHere DEF Shaped
<1>16. /\ object = Object(heap[t].type, heap[t].n, fields, heap[t].link, heap[t].whnf)
       /\ object.type = heap[t].type /\ object.n = heap[t].n /\ object.fields = fields
       /\ object.link = heap[t].link /\ object.whnf = heap[t].whnf
  BY <1>7, <1>15 DEF IsObject, Object
<1>17. Shaped(object, heap, chunk, A) /\ Filled(object, heap)
  <2>1. IsObject(object)
    BY <1>16 DEF IsObject
  <2>2. Filled(object, heap)
    BY <1>14, <1>16 DEF Filled
  <2>3. object.link \in {0} \cup DOMAIN heap /\ object.fields \in Seq(Nat)
    BY <1>14, <1>15, <1>16 DEF Shaped
  <2>4. object.type = type /\ object.n = l.mode.n
    BY <1>11, <1>16
  <2>5. object.n \in DOMAIN chunk.closures /\ Len(object.fields) = chunk.closures[object.n].capture_count
    BY <1>3, <1>8, <1>14, <1>16, <2>4
  <2>6. object.type = "thunk" => chunk.closures[object.n].arity = 0
    BY <1>15, <1>16 DEF Shaped
  <2> QED BY <1>12, <2>1, <2>2, <2>3, <2>4, <2>5, <2>6 DEF Shaped
<1>18. GoodHeap(heap', READY, chunk, A) /\ Grows(heap, heap') /\ Len(heap') = Len(heap) /\ DOMAIN heap' = DOMAIN heap
  <2>1. GoodHeap(heap, l.mode, chunk, A) /\ ~IsMade(READY)
    BY <1>6, TypedHere DEF IsMade, READY, Kind
  <2>2. GoodHeap(heap', READY, chunk, A) /\ Grows(heap, heap') /\ Len(heap') = Len(heap)
    BY <1>10, <1>11, <1>13, <1>16, <1>17, <2>1, HeapUpdated
  <2> QED BY <1>13, <2>2 DEF IsUpdated
<1>19. GoodWords(heap', ws, kinds, blow) /\ IsList(kinds)
  <2>1. Known(heap', Word(0), v, blow) /\ Word(0).n \in DOMAIN heap'
    BY <1>7, <1>10, <1>11, <1>18 DEF Known, IsRef, IsReference
  <2>2. GoodWords(heap', ws, kinds, blow)
    BY <1>7, <1>10, <2>1, OneWord
  <2> QED BY <2>2 DEF GoodWords
<1>20. /\ IsLayout(l1) /\ IsReplaced(l1.words, l.words, k, kinds) /\ l1.reg = l.reg
       /\ l1.binds = l.binds /\ l1.mode = l.mode /\ l1.place = l.place
  BY <1>5, <1>6, <1>7, <1>19, ReplacedLayout
<1>21. GoodBindings(heap', bindings, bindings, blow, l.mode, l.binds)
  BY <1>6, <1>18, BindingsStay DEF Running
<1>22. GoodReg(heap', reg_1, l.reg) /\ exception_reg \in Words /\ IsRef(heap', exception_reg)
  BY <1>6, <1>18, RegStays DEF Running
<1>23. GoodTest(heap', stack', l1) /\ IsReplaced(stack', stack, k, ws)
  BY <1>5, <1>13, <1>20 DEF GoodTest, Replace, IsReplaced
<1>24. /\ Typed(heap', stack', bindings, reg_1, exception_reg) /\ SameTo(stack', stack, low)
       /\ SameTo(bindings, bindings, blow)
       /\ Current(heap', stack', bindings, reg_1, low, base, blow, l1)
  <2>1. /\ k \in 0..Len(L[ip].words) /\ IsReplaced(l1.words, L[ip].words, k, kinds)
        /\ GoodBindings(heap', bindings, bindings, blow, l1.mode, l1.binds) /\ GoodReg(heap', reg_1, l1.reg)
        /\ ((L[ip].mode = APPLYING) <=> (l1.mode = APPLYING))
    BY <1>6, <1>20, <1>21, <1>22
  <2>2. Steps(L[ip], heap, stack, bindings, blow, heap', k, ws, kinds, stack', l1, bindings, reg_1, exception_reg)
    BY <1>18, <1>19, <1>22, <1>23, <2>1 DEF Steps
  <2>3. /\ AllLayouts(L)
        /\ InFrame(chunk, L, A, heap, stack, bindings, reg_1, exception_reg, ip, fr, m, low, base, blow)
    BY DEF Running
  <2> QED BY ONLY <2>2, <2>3, StepCurrent
<1>25. /\ Current(heap', stack', bindings, reg_1, low, base, blow, l2) /\ IsLayout(l2)
       /\ l2.mode = READY /\ l2.place = l.place
  BY <1>5, <1>7, <1>20, <1>24, StoredCurrent
<1>26. KeepsTo(chunk, L, A, heap', stack', bindings, reg_1, exception_reg, next)
  <2>1. l2.mode # RETURNING /\ l2.place = L[ip].place
    BY <1>6, <1>25 DEF READY, RETURNING, Kind
  <2> QED BY <1>3, <1>18, <1>24, <1>25, <2>1, LocalStep DEF Running
<1> QED BY <1>13, <1>26 DEF Continue, outside, Advance, Sound, GoesOnWell
-----------------------------------------------------------------------------
(* Functions are entered, and return.                                      *)
LEMMA WaitingModes ==
  ASSUME NEW l, Waits(l)
  PROVE  /\ l.mode # RETURNING /\ l.mode.kind # "tested" /\ l.mode # FAILING /\ ~IsMade(l.mode)
         /\ l.reg = NOTHING /\ Len(l.words) >= 1 /\ FromTop(l.words, 0) = VALUE
BY DEF Waits, READY, APPLYING, RETURNING, FAILING, IsMade, Kind

\* One more frame.
IsPushed(fr2, fr, m, f) == fr2 = [i \in 1..(m + 1) |-> IF i = m + 1 THEN f ELSE fr[i]]

\* A function that waits becomes the last of the frames.
LEMMA Pushed ==
  ASSUME NEW L, AllLayouts(L), NEW hp, NEW st, NEW bs, NEW fr, NEW m, NEW low, NEW blow,
         Stacked(L, hp, st, bs, fr, m, low, blow),
         NEW f, Suspended(L, hp, st, bs, f), f.low = low, f.blow = blow, IsPlace(L[f.at], m),
         NEW fr2, IsPushed(fr2, fr, m, f), NEW k, k = m + 1, NEW top, top = f.top, NEW btop, btop = f.btop
  PROVE  Stacked(L, hp, st, bs, fr2, k, top, btop)
<1>1. /\ f.low \in Nat /\ f.top \in Nat /\ f.low <= f.top /\ f.blow \in Nat /\ f.btop \in Nat /\ f.blow <= f.btop
  BY FrameBounds
<1>2. m \in Nat /\ k \in Nat /\ k # 0 /\ low = TopOf(fr, m) /\ blow = BindingsOf(fr, m)
  BY DEF Stacked
<1>3. fr2[k] = f /\ \A i \in 1..m : fr2[i] = fr[i]
  BY <1>2 DEF IsPushed
<1>4. TopOf(fr2, k) = top /\ BindingsOf(fr2, k) = btop
  BY <1>2, <1>3 DEF TopOf, BindingsOf
<1>5. \A i \in 0..m : TopOf(fr2, i) = TopOf(fr, i) /\ BindingsOf(fr2, i) = BindingsOf(fr, i)
  <2> SUFFICES ASSUME NEW i \in 0..m
               PROVE  TopOf(fr2, i) = TopOf(fr, i) /\ BindingsOf(fr2, i) = BindingsOf(fr, i)
    OBVIOUS
  <2>1. i = 0 \/ i \in 1..m
    BY <1>2
  <2> QED BY <1>3, <2>1 DEF TopOf, BindingsOf
<1>6. ASSUME NEW i \in 1..m
      PROVE  /\ fr[i].top \in Nat /\ fr[i].top <= low /\ fr[i].btop \in Nat /\ fr[i].btop <= blow
             /\ fr[i].top <= top /\ fr[i].btop <= btop /\ Suspended(L, hp, st, bs, fr[i])
  <2>1. fr[i].top <= low /\ fr[i].btop <= blow /\ Suspended(L, hp, st, bs, fr[i])
    BY DEF Stacked
  <2>2. fr[i].top \in Nat /\ fr[i].btop \in Nat
    BY <2>1, FrameBounds
  <2> QED BY <1>1, <2>1, <2>2
<1>7. ASSUME NEW i \in 1..k
      PROVE  /\ Suspended(L, hp, st, bs, fr2[i])
             /\ fr2[i].low = TopOf(fr2, i - 1) /\ fr2[i].blow = BindingsOf(fr2, i - 1)
             /\ fr2[i].top <= top /\ fr2[i].btop <= btop
             /\ L[fr2[i].at].place = (IF i = 1 THEN "main" ELSE "function")
  <2>1. CASE i = k
    <3>1. i - 1 = m /\ m \in 0..m /\ (i = 1 <=> m = 0) /\ top <= top /\ btop <= btop
      BY <1>1, <1>2, <2>1
    <3> QED BY <1>2, <1>3, <1>5, <2>1, <3>1 DEF IsPlace
  <2>2. CASE i # k
    <3>1. i \in 1..m /\ i - 1 \in 0..m
      BY <1>2, <2>2
    <3>2. /\ fr[i].low = TopOf(fr, i - 1) /\ fr[i].blow = BindingsOf(fr, i - 1)
          /\ L[fr[i].at].place = (IF i = 1 THEN "main" ELSE "function")
      BY <3>1 DEF Stacked
    <3> QED BY <1>3, <1>5, <1>6, <3>1, <3>2
  <2> QED BY <2>1, <2>2
<1>8. ASSUME NEW i \in 1..k, NEW j \in 1..k, i < j
      PROVE  fr2[i].top <= fr2[j].low /\ fr2[i].btop <= fr2[j].blow
  <2>1. i \in 1..m
    BY <1>2, <1>8
  <2>2. CASE j = k
    BY <1>3, <1>6, <2>1, <2>2
  <2>3. CASE j # k
    <3>1. j \in 1..m
      BY <1>2, <2>3
    <3> QED BY <1>3, <1>8, <2>1, <3>1 DEF Stacked
  <2> QED BY <2>2, <2>3
<1> QED BY ONLY <1>2, <1>4, <1>7, <1>8 DEF Stacked
\* One frame less.
LEMMA Unstacked ==
  ASSUME NEW L, AllLayouts(L), NEW hp, NEW st, NEW bs, NEW fr, NEW m, NEW low, NEW blow,
         Stacked(L, hp, st, bs, fr, m, low, blow), m # 0, NEW f, f = fr[m], NEW k, k = m - 1
  PROVE  /\ Suspended(L, hp, st, bs, f) /\ f.top = low /\ f.btop = blow /\ IsPlace(L[f.at], k)
         /\ \A flow, fblow : flow = f.low /\ fblow = f.blow => Stacked(L, hp, st, bs, fr, k, flow, fblow)
<1>1. m \in Nat /\ k \in Nat /\ m \in 1..m /\ low = TopOf(fr, m) /\ blow = BindingsOf(fr, m) /\ (m = 1 <=> k = 0)
  BY DEF Stacked
<1>2. /\ Suspended(L, hp, st, bs, f)
      /\ f.low = TopOf(fr, k) /\ f.blow = BindingsOf(fr, k)
      /\ L[f.at].place = (IF m = 1 THEN "main" ELSE "function")
  BY <1>1 DEF Stacked
<1>3. f.top = low /\ f.btop = blow
  BY <1>1 DEF TopOf, BindingsOf
<1>4. IsPlace(L[f.at], k)
  BY <1>1, <1>2 DEF IsPlace
<1>5. \A i \in 1..k : i \in 1..m /\ i < m
  BY <1>1
<1>6. \A i \in 1..k : fr[i].top <= f.low /\ fr[i].btop <= f.blow
  BY <1>1, <1>5 DEF Stacked
<1>7. \A i \in 1..k :
        /\ Suspended(L, hp, st, bs, fr[i])
        /\ fr[i].low = TopOf(fr, i - 1) /\ fr[i].blow = BindingsOf(fr, i - 1)
        /\ L[fr[i].at].place = (IF i = 1 THEN "main" ELSE "function")
  BY <1>5 DEF Stacked
<1>8. \A i, j \in 1..k : i < j => fr[i].top <= fr[j].low /\ fr[i].btop <= fr[j].blow
  BY <1>5 DEF Stacked
<1>9. \A flow, fblow : flow = f.low /\ fblow = f.blow => Stacked(L, hp, st, bs, fr, k, flow, fblow)
  BY ONLY <1>1, <1>2, <1>6, <1>7, <1>8 DEF Stacked
<1> QED BY <1>2, <1>3, <1>4, <1>9

\* The function that waits in the frame below has its value.
Resumes(c, L, A, hp, st, bs, fr, m, low, blow, f, k, later, mode, st2, bs2, r1, ex) ==
  /\ AllLayouts(L) /\ Stacked(L, hp, st, bs, fr, m, low, blow)
  /\ m # 0 /\ f = fr[m] /\ k = m - 1
  /\ Grows(hp, later) /\ GoodHeap(later, mode, c, A) /\ ~IsMade(mode)
  /\ Typed(later, st2, bs2, r1, ex)
  /\ Len(st2) = low /\ SameTo(st2, st, low - 1) /\ IsRef(later, st2[low])
  /\ Len(bs2) = blow /\ SameTo(bs2, bs, blow)

\* The last of the functions that wait goes on where it waited.
LEMMA Resumed ==
  ASSUME NEW c, NEW L, NEW A, NEW hp, NEW st, NEW bs, NEW fr, NEW m, NEW low, NEW blow, NEW f, NEW k,
         NEW later, NEW mode, NEW st2, NEW bs2, NEW r1, NEW ex,
         Resumes(c, L, A, hp, st, bs, fr, m, low, blow, f, k, later, mode, st2, bs2, r1, ex)
  PROVE  /\ InFrame(c, L, A, later, st2, bs2, r1, ex, f.at, fr, k, f.low, f.base, f.blow)
         /\ Waits(L[f.at]) /\ st[low] = Raw(f.at)
<1> SUFFICES ASSUME AllLayouts(L), Stacked(L, hp, st, bs, fr, m, low, blow), m # 0, f = fr[m], k = m - 1,
                    Grows(hp, later), GoodHeap(later, mode, c, A), ~IsMade(mode),
                    Typed(later, st2, bs2, r1, ex),
                    Len(st2) = low, SameTo(st2, st, low - 1), IsRef(later, st2[low]),
                    Len(bs2) = blow, SameTo(bs2, bs, blow)
             PROVE  /\ InFrame(c, L, A, later, st2, bs2, r1, ex, f.at, fr, k, f.low, f.base, f.blow)
                    /\ Waits(L[f.at]) /\ st[low] = Raw(f.at)
  BY DEF Resumes
<1> DEFINE l == L[f.at]
           n == Len(l.words)
           last == n - 1
<1>1. /\ Suspended(L, hp, st, bs, f) /\ f.top = low /\ f.btop = blow /\ IsPlace(l, k)
      /\ Stacked(L, hp, st, bs, fr, k, f.low, f.blow)
  BY Unstacked
<1>2. /\ f.low \in Nat /\ f.base \in Nat /\ f.top \in Nat /\ f.low <= f.base /\ f.base < f.top
      /\ f.blow \in Nat /\ f.btop \in Nat /\ f.blow <= f.btop
  BY <1>1, FrameBounds
<1>3. /\ f.at \in DOMAIN L /\ Waits(l) /\ Underneath(hp, st, f.low, f.base, l)
      /\ f.top = f.base + n /\ f.btop = f.blow + Len(l.binds)
      /\ AreWords(hp, st, f.base, f.blow, l.words, last) /\ AreBindings(hp, bs, f.blow, l.binds)
      /\ st[f.top] = Raw(f.at)
  BY <1>1 DEF Suspended
<1>4. /\ l.mode # RETURNING /\ l.mode.kind # "tested" /\ l.mode # FAILING /\ ~IsMade(l.mode)
      /\ l.reg = NOTHING /\ n >= 1 /\ FromTop(l.words, 0) = VALUE
  BY <1>3, WaitingModes
<1>5. IsLayout(l) /\ IsList(l.words) /\ IsList(l.binds)
  BY <1>3 DEF AllLayouts, IsLayout
<1>6. n \in Nat /\ DOMAIN l.words = 1..n /\ last \in Nat /\ Len(l.binds) \in Nat /\ DOMAIN l.binds = 1..Len(l.binds)
  BY <1>4, <1>5, ListLength
<1>7. NoneNew(l.words) /\ NoneNew(l.binds)
  BY <1>4, <1>5 DEF IsLayout, NoneNew
<1>8. l.words[n] = VALUE
  <2>1. n - 0 = n
    BY <1>6
  <2> QED BY <1>4, <2>1 DEF FromTop
<1>9. l = L[f.at] /\ last = n - 1 /\ n = Len(l.words)
  OBVIOUS
<1> HIDE DEF l, n, last
<1>10. /\ SameTo(st2, st, f.base) /\ SameTo(st2, st, f.base + last) /\ SameTo(st2, st, f.low)
       /\ SameTo(bs2, bs, f.blow) /\ SameTo(bs2, bs, f.blow + Len(l.binds))
  <2>1. f.base + last = low - 1
    <3>1. low = f.base + n
      BY <1>1, <1>3
    <3>2. last = n - 1 /\ n \in Nat /\ f.base \in Nat
      BY ONLY <1>2, <1>6, <1>9
    <3> QED BY ONLY <3>1, <3>2
  <2>2. \A i \in 1..f.base : i \in 1..(f.base + last)
    BY <1>2, <1>6
  <2>3. \A i \in 1..f.low : i \in 1..f.base
    BY <1>2
  <2>4. \A i \in 1..f.blow : i \in 1..blow
    BY <1>1, <1>2
  <2>5. SameTo(st2, st, f.base + last)
    BY <2>1
  <2>6. SameTo(st2, st, f.base) /\ SameTo(st2, st, f.low)
    BY ONLY <2>2, <2>3, <2>5 DEF SameTo
  <2>7. SameTo(bs2, bs, f.blow) /\ SameTo(bs2, bs, f.blow + Len(l.binds))
    BY <1>1, <1>3, <2>4 DEF SameTo
  <2> QED BY <2>5, <2>6, <2>7
<1>11. Underneath(later, st2, f.low, f.base, l)
  BY <1>3, <1>10, UnderneathLater
<1>12. AreWords(later, st2, f.base, f.blow, l.words, last)
  <2> DEFINE kinds == l.words
             base == f.base
             fblow == f.blow
  <2>1. /\ base \in Nat /\ last \in Nat /\ AreWords(hp, st, base, fblow, kinds, last) /\ SameTo(st2, st, base + last)
        /\ \A i \in 1..last : kinds[i].kind # "new"
    <3>1. \A i \in 1..last : i \in DOMAIN kinds
      BY <1>6, <1>9
    <3> QED BY <1>2, <1>3, <1>6, <1>7, <1>10, <3>1 DEF NoneNew
  <2> HIDE DEF kinds, base, fblow
  <2>2. AreWords(later, st2, base, fblow, kinds, last)
    BY ONLY <2>1, Grows(hp, later), WordsLater
  <2> QED BY <2>2 DEF kinds, base, fblow
<1>13. AreWords(later, st2, f.base, f.blow, l.words, n)
  <2> SUFFICES ASSUME NEW i \in 1..n
               PROVE  Known(later, st2[f.base + i], l.words[i], f.blow)
    BY DEF AreWords
  <2>1. CASE i = n
    <3>1. f.base + i = low
      BY <1>1, <1>3, <2>1
    <3>2. Known(later, st2[low], VALUE, f.blow)
      BY DEF Known, VALUE, Kind
    <3> QED BY <1>8, <2>1, <3>1, <3>2
  <2>2. CASE i # n
    <3>1. i \in 1..last
      BY <1>6, <1>9, <2>2
    <3> QED BY <1>12, <3>1 DEF AreWords
  <2> QED BY <2>1, <2>2
<1>14. AreBindings(later, bs2, f.blow, l.binds)
  <2> DEFINE kinds == l.binds
             fblow == f.blow
  <2>1. /\ fblow \in Nat /\ IsList(kinds) /\ AreBindings(hp, bs, fblow, kinds)
        /\ SameTo(bs2, bs, fblow + Len(kinds)) /\ \A i \in DOMAIN kinds : kinds[i].kind # "new"
    BY <1>2, <1>3, <1>5, <1>7, <1>10 DEF NoneNew
  <2> HIDE DEF kinds, fblow
  <2>2. AreBindings(later, bs2, fblow, kinds)
    BY ONLY <2>1, Grows(hp, later), BindingsLater
  <2> QED BY <2>2 DEF kinds, fblow
<1>15. Current(later, st2, bs2, r1, f.low, f.base, f.blow, l)
  <2>1. Len(st2) = f.base + n /\ Len(bs2) = f.blow + Len(l.binds)
    BY <1>1, <1>3
  <2> QED BY <1>2, <1>4, <1>9, <1>11, <1>13, <1>14, <2>1 DEF Current
<1>16. Stacked(L, later, st2, bs2, fr, k, f.low, f.blow)
  <2> DEFINE flow == f.low
             fblow == f.blow
  <2>1. /\ Stacked(L, hp, st, bs, fr, k, flow, fblow) /\ flow \in Nat /\ fblow \in Nat
        /\ SameTo(st2, st, flow) /\ SameTo(bs2, bs, fblow)
    BY <1>1, <1>2, <1>10
  <2> HIDE DEF flow, fblow
  <2>2. Stacked(L, later, st2, bs2, fr, k, flow, fblow)
    BY ONLY <2>1, AllLayouts(L), Grows(hp, later), FramesLater
  <2> QED BY <2>2 DEF flow, fblow
<1>17. GoodHeap(later, l.mode, c, A)
  BY <1>4, ModeForgotten
<1>18. InFrame(c, L, A, later, st2, bs2, r1, ex, f.at, fr, k, f.low, f.base, f.blow)
  BY <1>1, <1>3, <1>9, <1>15, <1>16, <1>17 DEF InFrame
<1> QED BY <1>1, <1>3, <1>9, <1>18
\* The result and the address below it change places; a jump follows.
LEMMA RETURN_Sound ==
  ASSUME NEW L, NEW A, NEW fr, NEW m, NEW low, NEW base, NEW blow, Running(L, A, fr, m, low, base, blow),
         SWAP, Leaves(chunk, L, ip)
  PROVE  Sound(L, A)
<1>1. op = "SWAP"
  BY DEF SWAP, Op
<1> DEFINE l == L[ip]
           st == stack
           v == Word(0)
           w == Word(1)
           ws == <<v, w>>
           st1 == stack'
           n == Len(st)
           mid == n - 1
           st2 == SubSeq(st1, 1, mid)
           f == fr[m]
           k == m - 1
<1>2. /\ l.mode = READY /\ l.place = "function" /\ Len(l.words) = 1 /\ HasReferences(l, 1) /\ l.binds = <<>>
      /\ next \in DOMAIN L /\ L[next].mode = RETURNING
  BY <1>1, HereIs DEF Leaves, Here
<1>3. Replace(2, ws) /\ Continue /\ UNCHANGED <<bindings, reg_1, heap>>
  BY DEF SWAP
<1>4. /\ READY # APPLYING /\ READY # FAILING /\ ~IsMade(READY)
  BY DEF READY, APPLYING, FAILING, IsMade, Kind
<1>5. /\ Typed(heap, st, bindings, reg_1, exception_reg) /\ Grows(heap, heap)
      /\ GoodHeap(heap, READY, chunk, A) /\ Current(heap, st, bindings, reg_1, low, base, blow, l)
      /\ n \in Nat /\ low \in Nat /\ AllLayouts(L)
      /\ Stacked(L, heap, st, bindings, fr, m, low, blow) /\ IsPlace(l, m)
  BY <1>2, TypedHere DEF Running, InFrame
<1>6. n = low + 1 /\ Len(bindings) = blow /\ blow \in Nat
  <2>1. Len(l.binds) = 0
    BY <1>2
  <2>2. base = low /\ n = base + 1 /\ Len(bindings) = blow + 0 /\ blow \in Nat
    BY <1>2, <1>4, <1>5, <2>1 DEF Current, Underneath
  <2> QED BY <1>5, <2>2
<1>7. m # 0 /\ m \in Nat
  BY <1>2, <1>5 DEF IsPlace, Stacked
<1>8. v \in Words /\ IsRef(heap, v)
  <2>1. 0 \in 0..(1 - 1) /\ 0 \in Nat /\ 0 < Len(l.words)
    BY <1>2
  <2>2. IsReference(FromTop(l.words, 0))
    BY <1>2, <2>1 DEF HasReferences
  <2> QED BY <2>1, <2>2, WordHere DEF Known
<1>9. /\ Suspended(L, heap, st, bindings, f) /\ f.top = low /\ f.btop = blow
      /\ f.low \in Nat /\ f.top \in Nat /\ f.base \in Nat /\ f.low <= f.base /\ f.base < f.top
      /\ st[f.top] = Raw(f.at)
  <2>1. Suspended(L, heap, st, bindings, f) /\ f.top = low /\ f.btop = blow
    BY <1>5, <1>7, Unstacked
  <2> QED BY <1>5, <2>1, FrameBounds DEF Suspended
<1>10. low >= 1 /\ n >= 2 /\ mid = low /\ mid \in Nat
  BY <1>5, <1>6, <1>9
<1>11. st \in Seq(Words) /\ w = st[low] /\ w \in Words /\ w = Raw(f.at)
  <2>1. st \in Seq(Words)
    BY <1>5 DEF Typed
  <2>2. w = st[low]
    BY <1>10 DEF Word
  <2>3. low \in 1..n
    BY <1>6, <1>10
  <2> QED BY <1>9, <2>1, <2>2, <2>3, ElementOfSeq
<1>12. /\ ws = <<v, w>> /\ ws \in Seq(Words) /\ Len(ws) = 2 /\ ws[1] = v /\ ws[2] = w
       /\ IsReplaced(st1, st, 2, ws) /\ st2 = SubSeq(st1, 1, mid) /\ mid = n - 1 /\ n = Len(st)
       /\ f = fr[m] /\ k = m - 1 /\ l = L[ip] /\ st = stack /\ st1 = stack'
  BY <1>3, <1>8, <1>11 DEF Replace, IsReplaced
<1> HIDE DEF l, st, v, w, ws, st1, n, mid, st2, f, k
<1>13. /\ st1 \in Seq(Words) /\ Len(st1) = n
       /\ \A i \in 1..(n - 2) : st1[i] = st[i]
       /\ st1[mid] = v /\ st1[n] = w
  <2> DEFINE two == 2
  <2>1. two \in 0..Len(st) /\ two = 2 /\ IsReplaced(st1, st, two, ws)
    BY <1>5, <1>10, <1>12
  <2> HIDE DEF two
  <2>2. /\ st1 \in Seq(Words) /\ Len(st1) = Len(st) - two + Len(ws)
        /\ \A i \in 1..(Len(st) - two) : st1[i] = st[i]
        /\ \A i \in 1..Len(ws) : st1[Len(st) - two + i] = ws[i]
    <3>1. Replaces(st1, st, two, ws)
      BY <1>11, <1>12, <2>1 DEF Replaces
    <3> QED BY ONLY <3>1, StackAfter DEF Relaid
  <2>3. n - 2 + 1 = mid /\ n - 2 + 2 = n /\ 1 \in 1..Len(ws) /\ 2 \in 1..Len(ws)
    BY <1>5, <1>10, <1>12
  <2>4. st1[n - 2 + 1] = ws[1] /\ st1[n - 2 + 2] = ws[2] /\ Len(st1) = n - 2 + 2
    BY <1>12, <2>1, <2>2, <2>3
  <2> QED BY <1>12, <2>1, <2>2, <2>3, <2>4
<1>14. st2 \in Seq(Words) /\ Len(st2) = low /\ \A i \in 1..low : st2[i] = st1[i]
  <2>1. mid \in 0..Len(st1) /\ IsList(st1) /\ IsCut(st2, st1, mid)
    BY <1>5, <1>10, <1>12, <1>13, ListOver DEF IsCut
  <2>2. Len(st2) = mid /\ \A i \in 1..mid : st2[i] = st1[i]
    BY ONLY <2>1, ListCutTo
  <2>3. \A i \in 1..mid : st1[i] \in Words
    <3>1. \A i \in 1..mid : i \in 1..Len(st1)
      BY <2>1, <1>10, <1>12, <1>13, <1>5
    <3> QED BY <1>13, <3>1, ElementOfSeq
  <2>4. st2 \in Seq(Words)
    <3>1. IsList(st2)
      BY ONLY <2>1, ListCutTo
    <3>2. st2 = [i \in 1..mid |-> st2[i]]
      <4>1. st2 \in Seq({ st2[i] : i \in DOMAIN st2 })
        BY <3>1 DEF IsList
      <4> QED BY <2>2, <4>1, LenProperties
    <3>3. st2 \in [1..mid -> Words]
      BY <2>2, <2>3, <3>2
    <3> QED BY <1>10, <3>3
  <2> QED BY <1>10, <2>2, <2>4
<1>15. SameTo(st2, st, low - 1) /\ IsRef(heap, st2[low])
  <2>1. \A i \in 1..(low - 1) : i \in 1..low /\ i \in 1..(n - 2)
    BY <1>5, <1>6
  <2>2. st2[low] = v
    BY <1>10, <1>13, <1>14
  <2> QED BY <1>8, <1>13, <1>14, <2>1, <2>2 DEF SameTo
<1>16. Typed(heap, st2, bindings, reg_1, exception_reg)
  <2>1. ASSUME NEW i \in DOMAIN st2, st2[i].tag
        PROVE  st2[i].n \in DOMAIN heap
    <3>1. i \in 1..low
      BY <1>14, LenProperties
    <3>2. CASE i = low
      BY <1>15, <3>2 DEF IsRef
    <3>3. CASE i # low
      <4>1. i \in 1..(low - 1) /\ i \in 1..n
        BY <1>5, <1>6, <3>1, <3>3
      <4>2. st2[i] = st[i] /\ i \in DOMAIN st
        BY <1>11, <1>12, <1>15, <4>1, LenProperties DEF SameTo
      <4> QED BY <1>5, <2>1, <4>2 DEF Typed
    <3> QED BY <3>2, <3>3
  <2> QED BY <1>5, <1>14, <2>1 DEF Typed
<1>17. /\ InFrame(chunk, L, A, heap, st2, bindings, reg_1, exception_reg, f.at, fr, k, f.low, f.base, f.blow)
       /\ Waits(L[f.at])
  <2>1. SameTo(bindings, bindings, blow)
    BY DEF SameTo
  <2>2. Resumes(chunk, L, A, heap, st, bindings, fr, m, low, blow, f, k, heap, READY, st2, bindings, reg_1, exception_reg)
    BY <1>4, <1>5, <1>6, <1>7, <1>12, <1>14, <1>15, <1>16, <2>1 DEF Resumes
  <2> QED BY ONLY <2>2, Resumed
<1>18. KeepsTo(chunk, L, A, heap, st1, bindings, reg_1, exception_reg, next)
  <2>1. st1[Len(st1)] = Raw(f.at) /\ Len(st1) >= 1
    BY <1>5, <1>10, <1>11, <1>13
  <2>2. ~st1[Len(st1)].tag /\ st1[Len(st1)].n = f.at
    BY <2>1 DEF Raw
  <2>3. L[f.at].mode # RETURNING
    BY <1>17, WaitingModes
  <2>4. Drop(st1, 1) = st2
    BY <1>12, <1>13 DEF Drop
  <2>5. Kept(chunk, L, A, heap, Drop(st1, 1), bindings, reg_1, exception_reg, f.at)
    BY <1>17, <2>4 DEF Kept
  <2> QED BY <1>2, <1>13, <2>1, <2>2, <2>3, <2>5 DEF KeepsTo
<1> QED BY <1>3, <1>12, <1>18 DEF Continue, outside, Advance, Sound, GoesOnWell

\* The address left on the stack is that of the function that waits.
LEMMA JUMP_Sound ==
  ASSUME NEW L, NEW A, ObeysHere(L, A), JUMP,
         KeepsTo(chunk, L, A, heap, stack, bindings, reg_1, exception_reg, ip)
  PROVE  Sound(L, A)
<1>1. op = "JUMP"
  BY DEF JUMP, Op
<1>2. L[ip].mode = RETURNING
  BY <1>1, HereIs, Sorts DEF ObeysHere, Here
<1> DEFINE b == stack[Len(stack)].n
           st2 == Drop(stack, 1)
<1>3. /\ stack \in Seq(Words) /\ Len(stack) >= 1 /\ ~stack[Len(stack)].tag
      /\ L[b].mode # RETURNING
      /\ Kept(chunk, L, A, heap, st2, bindings, reg_1, exception_reg, b)
  BY <1>2 DEF KeepsTo
<1>4. Word(0) = stack[Len(stack)]
  <2>1. Len(stack) - 0 = Len(stack)
    BY <1>3, LenProperties
  <2> QED BY <2>1 DEF Word
<1>5. Replace(1, <<>>) /\ JumpTo(b) /\ UNCHANGED <<bindings, reg_1, heap>>
  BY <1>3, <1>4 DEF JUMP
<1>6. stack' = st2
  <2>1. stack' = st2 \o <<>>
    BY <1>5 DEF Replace
  <2>2. st2 \in Seq(Words)
    BY <1>3 DEF Kept, InFrame, Typed
  <2> QED BY <2>1, <2>2
<1> HIDE DEF st2, b
<1>7. b \in DOMAIN L
  BY <1>3 DEF Kept, InFrame
<1>8. KeepsTo(chunk, L, A, heap, st2, bindings, reg_1, exception_reg, b)
  BY <1>3, <1>7 DEF KeepsTo
<1> QED BY <1>5, <1>6, <1>8 DEF JumpTo, outside, Sound, GoesOnWell

\* The execution ends.
LEMMA END_Sound ==
  ASSUME NEW L, NEW A, END \/ PATTERN_MATCH_FAIL
  PROVE  Sound(L, A)
<1>1. CASE END
  BY <1>1 DEF END, Op, Stop, outside, Sound, StopsWell
<1>2. CASE PATTERN_MATCH_FAIL
  BY <1>2, ErrorHere DEF PATTERN_MATCH_FAIL
<1> QED BY <1>1, <1>2
-----------------------------------------------------------------------------
(* Evaluation.                                                             *)
LEMMA EntersHere ==
  ASSUME NEW L, NEW A, ObeysHere(L, A), op \in EnterOps
  PROVE  Enters(chunk, L, ip)
BY HereIs, Sorts DEF ObeysHere, Here

\* Objects change, and words of the frame are replaced.
LEMMA ChangedHere ==
  ASSUME NEW L, NEW A, NEW fr, NEW m, NEW low, NEW base, NEW blow, Running(L, A, fr, m, low, base, blow),
         L[ip].mode # RETURNING, L[ip].mode.kind # "tested", ~IsMade(L[ip].mode),
         Grows(heap, heap'), GoodHeap(heap', READY, chunk, A),
         NEW n \in 0..Len(L[ip].words), NEW ws, NEW kinds, GoodWords(heap', ws, kinds, blow), NoneNew(kinds),
         IsReplaced(stack', stack, n, ws), Continue, UNCHANGED <<bindings, reg_1>>,
         NEW l2, l2 = Replaced(L[ip], n, kinds), Goes(L, l2, next)
  PROVE  Sound(L, A)
<1> DEFINE l == L[ip]
<1>1. IsLayout(l) /\ l = L[ip]
  BY TypedHere
<1> HIDE DEF l
<1>2. /\ IsLayout(l2) /\ IsReplaced(l2.words, l.words, n, kinds)
      /\ l2.binds = l.binds /\ l2.mode = l.mode /\ l2.reg = l.reg /\ l2.place = l.place
  BY <1>1, ReplacedLayout DEF GoodWords
<1>3. NoneNew(l.words) /\ NoneNew(l.binds)
  BY <1>1 DEF IsLayout, NoneNew
<1>4. GoodBindings(heap', bindings, bindings, blow, l.mode, l.binds)
  BY <1>1, <1>3, BindingsStay DEF Running
<1>5. GoodReg(heap', reg_1, l.reg) /\ exception_reg \in Words /\ IsRef(heap', exception_reg)
  BY <1>1, RegStays DEF Running
<1>6. GoodTest(heap', stack', l2)
  BY <1>1, <1>2 DEF GoodTest
<1>7. GoodHeap(heap', l2.mode, chunk, A)
  <2>1. ~IsMade(READY) /\ ~IsMade(l2.mode)
    BY <1>1, <1>2 DEF IsMade, READY, Kind
  <2> QED BY <2>1, ModeForgotten
<1>8. KeepsTo(chunk, L, A, heap', stack', bindings, reg_1, exception_reg, next)
  <2>1. /\ IsReplaced(l2.words, L[ip].words, n, kinds) /\ l2.place = L[ip].place /\ l2.mode # RETURNING
        /\ ((L[ip].mode = APPLYING) <=> (l2.mode = APPLYING)) /\ NoneNew(L[ip].words)
        /\ GoodBindings(heap', bindings, bindings, blow, l2.mode, l2.binds) /\ GoodReg(heap', reg_1, l2.reg)
    BY <1>1, <1>2, <1>3, <1>4, <1>5
  <2> QED BY <1>2, <1>5, <1>6, <1>7, <2>1, StepTo DEF Running
<1> QED BY <1>8 DEF Continue, outside, Advance, Sound, GoesOnWell

\* A thunk is given its value, and the value stays on the stack.
LEMMA UPDATE_THUNK_Sound ==
  ASSUME NEW L, NEW A, NEW fr, NEW m, NEW low, NEW base, NEW blow, Running(L, A, fr, m, low, base, blow),
         ObeysHere(L, A), UPDATE_THUNK
  PROVE  Sound(L, A)
<1>1. op = "UPDATE_THUNK"
  BY DEF UPDATE_THUNK, Op
<1>2. Enters(chunk, L, ip)
  BY <1>1, EntersHere DEF EnterOps
<1> DEFINE l == L[ip]
           v == WHNF
           kinds == <<v>>
           l2 == Replaced(l, 2, kinds)
           w == Word(0)
           ws == <<w>>
           t == Ref(1)
           object == [heap[t] EXCEPT !.link = Ref(0)]
           two == 2
<1>3. /\ l.mode = READY /\ Len(l.words) >= 2 /\ FromTop(l.words, 0) = v /\ FromTop(l.words, 1) = THUNK
      /\ Goes(L, l2, next)
  BY <1>1, <1>2, HereIs DEF Enters, Here, GoesOn
<1>4. l.mode # RETURNING /\ l.mode.kind # "tested" /\ ~IsMade(l.mode)
  BY <1>3, BusyModes DEF READY, IsMade, Kind
<1>5. l = L[ip] /\ Len(l.words) \in Nat /\ 0 < Len(l.words) /\ 1 < Len(l.words) /\ two \in 0..Len(l.words)
  BY <1>3, TypedHere
<1>6. /\ Known(heap, w, v, blow) /\ w \in Words /\ IsRef(heap, w) /\ heap[w.n].whnf /\ w.n \in DOMAIN heap
      /\ Known(heap, Word(1), THUNK, blow) /\ t \in DOMAIN heap /\ heap[t].type = "thunk"
  <2>1. /\ Known(heap, w, v, blow) /\ w \in Words /\ Known(heap, Word(1), THUNK, blow)
    BY <1>3, <1>5, WordHere
  <2>2. v.kind = "whnf" /\ THUNK.kind = "thunk"
    BY DEF WHNF, THUNK, Kind
  <2> QED BY <2>1, <2>2 DEF Known, IsReference, IsRef, Ref
<1>7. /\ heap' = [heap EXCEPT ![t].link = Ref(0)]
      /\ Replace(2, ws) /\ Continue /\ UNCHANGED <<bindings, reg_1>>
  BY <1>6 DEF UPDATE_THUNK, Obj, Ref
<1>8. v.kind = "whnf" /\ kinds = <<v>> /\ ws = <<w>> /\ l2 = Replaced(l, two, kinds) /\ two = 2
  BY DEF WHNF, Kind
<1>9. IsUpdated(heap', heap, t, object)
  BY <1>7 DEF IsUpdated
<1>10. object = [heap[t] EXCEPT !.link = w.n]
  BY DEF Ref
<1> HIDE DEF l, v, kinds, l2, w, ws, t, object, two
<1>11. Shaped(heap[t], heap, chunk, A) /\ IsObject(heap[t]) /\ Filled(heap[t], heap)
  BY <1>4, <1>5, <1>6, ObjectHere DEF Shaped
<1>12. /\ object = Object(heap[t].type, heap[t].n, heap[t].fields, w.n, heap[t].whnf)
       /\ object.type = heap[t].type /\ object.n = heap[t].n /\ object.fields = heap[t].fields
       /\ object.link = w.n /\ object.whnf = heap[t].whnf
  BY <1>10, <1>11 DEF IsObject, Object
<1>13. Shaped(object, heap, chunk, A) /\ Filled(object, heap)
  <2>1. IsObject(object)
    BY <1>12 DEF IsObject
  <2> QED BY <1>6, <1>11, <1>12, <2>1 DEF Shaped, Filled
<1>14. GoodHeap(heap', READY, chunk, A) /\ Grows(heap, heap')
  <2>1. GoodHeap(heap, READY, chunk, A) /\ ~IsMade(READY)
    BY <1>3, <1>4, <1>5, TypedHere
  <2> QED BY <1>6, <1>9, <1>12, <1>13, <2>1, HeapUpdated
<1>15. GoodWords(heap', ws, kinds, blow) /\ NoneNew(kinds)
  <2>1. v.kind # "new"
    BY <1>8
  <2>2. Known(heap', w, v, blow) /\ w.n \in DOMAIN heap'
    <3>1. Known(heap', w, v, blow)
      BY <1>6, <1>14, <2>1, KnownLater
    <3> QED BY <1>6, <1>14, <3>1 DEF Grows
  <2> QED BY <1>6, <1>8, <2>1, <2>2, OneWord
<1>16. IsReplaced(stack', stack, two, ws)
  BY <1>7, <1>8 DEF Replace, IsReplaced
<1> QED BY <1>3, <1>4, <1>5, <1>7, <1>8, <1>14, <1>15, <1>16, ChangedHere
-----------------------------------------------------------------------------
(* Calls: a function waits, another one begins.                            *)
Frame(at, low, base, top, blow, btop) ==
  [at |-> at, low |-> low, base |-> base, top |-> top, blow |-> blow, btop |-> btop]

\* A function with the address of its EVAL on top of its words waits there.
LEMMA Suspends ==
  ASSUME NEW L, AllLayouts(L), NEW hp, NEW st, NEW bs, NEW r1, NEW low, NEW base, NEW blow, NEW at \in DOMAIN L,
         Waits(L[at]), Current(hp, st, bs, r1, low, base, blow, L[at]),
         NEW top, top = Len(st), top \in Nat, base \in Nat, NEW btop, btop = Len(bs),
         NEW st2, SameTo(st2, st, top - 1), st2[top] = Raw(at),
         NEW f, f = Frame(at, low, base, top, blow, btop)
  PROVE  Suspended(L, hp, st2, bs, f)
<1> DEFINE l == L[at]
           n == Len(l.words)
           last == n - 1
<1>1. /\ f.at = at /\ f.low = low /\ f.base = base /\ f.top = top /\ f.blow = blow /\ f.btop = btop
  BY DEF Frame
<1>2. /\ l.mode # RETURNING /\ l.mode.kind # "tested" /\ l.mode # FAILING /\ ~IsMade(l.mode)
      /\ l.reg = NOTHING /\ n >= 1 /\ FromTop(l.words, 0) = VALUE
  BY WaitingModes
<1>3. IsLayout(l) /\ IsList(l.words) /\ n \in Nat /\ last \in Nat /\ DOMAIN l.words = 1..n
  <2>1. IsLayout(l) /\ IsList(l.words)
    BY DEF AllLayouts, IsLayout
  <2>2. n \in Nat /\ DOMAIN l.words = 1..n
    BY <2>1, ListLength
  <2> QED BY <1>2, <2>1, <2>2
<1>4. l = L[at] /\ n = Len(l.words) /\ last = n - 1
  OBVIOUS
<1>9. /\ Underneath(hp, st, low, base, l) /\ blow \in Nat /\ top = base + n
      /\ AreWords(hp, st, base, blow, l.words, n) /\ btop = blow + Len(l.binds) /\ AreBindings(hp, bs, blow, l.binds)
  BY <1>2 DEF Current
<1> HIDE DEF l, n, last
<1>5. top - 1 = base + last /\ \A i \in 1..base : i \in 1..(base + last)
  BY <1>3, <1>4, <1>9
<1>6. SameTo(st2, st, base + last) /\ SameTo(st2, st, base)
  <2>1. SameTo(st2, st, base + last)
    BY <1>5
  <2> QED BY <1>5, <2>1 DEF SameTo
<1>7. Underneath(hp, st2, low, base, l)
  <2>1. Grows(hp, hp)
    BY HeapKept
  <2> QED BY <1>6, <1>9, <2>1, UnderneathLater
<1>8. AreWords(hp, st2, base, blow, l.words, last)
  <2> SUFFICES ASSUME NEW i \in 1..last
               PROVE  Known(hp, st2[base + i], l.words[i], blow)
    BY DEF AreWords
  <2>1. i \in 1..n /\ base + i \in 1..(base + last)
    BY <1>3, <1>4
  <2>2. st2[base + i] = st[base + i]
    BY <1>6, <2>1 DEF SameTo
  <2> QED BY <1>9, <2>1, <2>2 DEF AreWords
<1> QED BY <1>1, <1>4, <1>7, <1>8, <1>9 DEF Suspended

\* Where a function begins it has its arguments and nothing else.
LEMMA Entered ==
  ASSUME NEW c, NEW L, NEW A, AllLayouts(L), NEW hp, NEW st, NEW bs, NEW r1, NEW ex, Typed(hp, st, bs, r1, ex),
         GoodHeap(hp, READY, c, A), NEW fr, NEW m, NEW low, NEW blow,
         Stacked(L, hp, st, bs, fr, m, low, blow), m # 0, low \in Nat, blow \in Nat, Len(bs) = blow,
         NEW b \in DOMAIN L, NEW n \in Nat, Begins(L[b], n), Len(st) = low + n,
         \A i \in 1..n : IsRef(hp, st[low + i]), L[b].reg # NOTHING => Known(hp, r1, L[b].reg, 0)
  PROVE  KeepsTo(c, L, A, hp, st, bs, r1, ex, b)
<1> DEFINE l == L[b]
<1>1. /\ l.place = "function" /\ l.mode = READY /\ l.words = Values(n) /\ l.binds = <<>>
  BY DEF Begins
<1>2. READY # APPLYING /\ READY # FAILING /\ READY # RETURNING /\ READY.kind # "tested"
  BY DEF READY, APPLYING, FAILING, RETURNING, Kind
<1>3. Len(l.words) = n /\ \A i \in 1..n : l.words[i] = VALUE
  BY <1>1, AllValues
<1>4. Len(l.binds) = 0 /\ DOMAIN l.binds = {}
  BY <1>1
<1> HIDE DEF l
<1>5. AreWords(hp, st, low, blow, l.words, Len(l.words))
  <2>1. ASSUME NEW i \in 1..n
        PROVE  Known(hp, st[low + i], VALUE, blow)
    BY DEF Known, VALUE, Kind
  <2> QED BY <1>3, <2>1 DEF AreWords
<1>6. AreBindings(hp, bs, blow, l.binds)
  BY <1>4 DEF AreBindings
<1>7. Underneath(hp, st, low, low, l)
  BY <1>1, <1>2 DEF Underneath
<1>8. Len(bs) = blow + Len(l.binds)
  BY <1>4
<1>9. Current(hp, st, bs, r1, low, low, blow, l)
  BY <1>1, <1>2, <1>3, <1>5, <1>6, <1>7, <1>8 DEF Current, l
<1>10. IsPlace(l, m)
  BY <1>1 DEF IsPlace
<1>11. Kept(c, L, A, hp, st, bs, r1, ex, b)
  BY <1>1, <1>9, <1>10 DEF Kept, InFrame, l
<1> QED BY <1>1, <1>2, <1>11 DEF KeepsTo, l
\* A function waits for one of the built-in functions.
LEMMA JUMP_GLOBALS_Sound ==
  ASSUME NEW L, NEW A, NEW fr, NEW m, NEW low, NEW base, NEW blow, Running(L, A, fr, m, low, base, blow),
         ObeysHere(L, A), JUMP_GLOBALS
  PROVE  Sound(L, A)
<1>1. op = "JUMP_GLOBALS"
  BY DEF JUMP_GLOBALS, Op
<1>2. Enters(chunk, L, ip)
  BY <1>1, EntersHere DEF EnterOps
<1> DEFINE l == L[ip]
           b == GlobalAt(chunk, arg)
           n == Len(L[b].words)
           k == n + 1
           r == FromTop(l.words, n)
           at == r.n
           v == VALUE
           kinds == <<v>>
           l1 == Replaced(l, k, kinds)
           l2 == [l1 EXCEPT !.reg = NOTHING]
           ws == <<Val(1)>>
           st0 == Drop(stack, k) \o ws
           top == Len(stack) - n
           btop == Len(bindings)
           f == Frame(at, low, base, top, blow, btop)
           m2 == m + 1
           fr2 == [i \in 1..m2 |-> IF i = m2 THEN f ELSE fr[i]]
<1>3. /\ l.mode = READY /\ b \in DOMAIN L /\ Begins(L[b], n) /\ L[b].reg = NOTHING
      /\ HasReferences(l, n) /\ Len(l.words) > n /\ r.kind = "address" /\ Goes(L, l2, at) /\ Waits(L[at])
  BY <1>1, <1>2, HereIs DEF Enters, Here
<1>4. JumpTo(b) /\ UNCHANGED <<stack, stack_len, bindings, reg_1, heap>>
  BY DEF JUMP_GLOBALS, address_of_global, GlobalAt
<1>5. /\ Typed(heap, stack, bindings, reg_1, exception_reg) /\ Grows(heap, heap) /\ IsLayout(l)
      /\ GoodHeap(heap, READY, chunk, A) /\ low \in Nat /\ base \in Nat /\ blow \in Nat
      /\ Len(l.words) \in Nat /\ Len(stack) \in Nat /\ Len(bindings) \in Nat
      /\ AllLayouts(L) /\ Stacked(L, heap, stack, bindings, fr, m, low, blow) /\ IsPlace(l, m)
      /\ stack \in Seq(Words)
  BY <1>3, TypedHere DEF Running, InFrame, Typed
<1>6. n \in Nat
  <2>1. IsLayout(L[b]) /\ IsList(L[b].words)
    BY <1>3, <1>5 DEF AllLayouts, IsLayout
  <2> QED BY <2>1, ListLength
<1>7. /\ v.kind = "value" /\ kinds = <<v>> /\ ws = <<Val(1)>> /\ l1 = Replaced(l, k, kinds)
      /\ k = n + 1 /\ top = Len(stack) - n /\ btop = Len(bindings) /\ m2 = m + 1 /\ l = L[ip]
      /\ f = Frame(at, low, base, top, blow, btop)
  BY DEF VALUE, Kind
<1>8. /\ IsReplaced(st0, stack, k, ws) /\ IsPushed(fr2, fr, m, f) /\ l2 = [l1 EXCEPT !.reg = NOTHING] /\ at = r.n
      /\ r = FromTop(l.words, n)
  BY DEF IsReplaced, IsPushed
<1>9. /\ READY # RETURNING /\ READY # APPLYING /\ READY # FAILING /\ READY.kind # "tested" /\ ~IsMade(READY)
  BY DEF READY, IsMade, APPLYING, RETURNING, FAILING, Kind
<1>40. m2 # 0
  BY <1>5, <1>7 DEF Stacked
<1> HIDE DEF l, b, n, k, r, at, v, kinds, l1, l2, ws, st0, top, btop, f, m2, fr2
<1>10. k \in 0..Len(l.words) /\ k \in Nat
  BY <1>3, <1>5, <1>6, <1>7
<1>11. GoodWords(heap, ws, kinds, blow) /\ NoneNew(kinds) /\ IsList(kinds)
  <2> DEFINE w == Val(1)
  <2>1. 1 \in DOMAIN heap
    <3>1. IsList(heap) /\ 3 \in DOMAIN heap
      BY <1>5 DEF GoodHeap, FALSE_BOX
    <3> QED BY <3>1, ListLength
  <2>2. w \in Words /\ w.n \in DOMAIN heap /\ Known(heap, w, v, blow) /\ ws = <<w>>
    BY <1>7, <2>1 DEF Val, Words, Known, IsRef
  <2> HIDE DEF w
  <2>3. GoodWords(heap, ws, kinds, blow) /\ NoneNew(kinds)
    BY <1>7, <2>2, OneWord
  <2> QED BY <2>3 DEF GoodWords
<1>12. /\ IsLayout(l1) /\ IsReplaced(l1.words, l.words, k, kinds)
       /\ l1.binds = l.binds /\ l1.mode = l.mode /\ l1.reg = l.reg /\ l1.place = l.place
  BY <1>5, <1>7, <1>10, <1>11, ReplacedLayout
<1>13. /\ l2.words = l1.words /\ l2.binds = l.binds /\ l2.mode = READY /\ l2.place = l.place /\ l2.reg = NOTHING
       /\ l2 = [place |-> l1.place, mode |-> l1.mode, words |-> l1.words, binds |-> l1.binds, reg |-> NOTHING]
  BY <1>3, <1>8, <1>12 DEF IsLayout
<1>14. IsLayout(l2)
  BY <1>3, <1>9, <1>12, <1>13 DEF IsLayout
<1>15. NoneNew(l.words) /\ NoneNew(l.binds)
  BY <1>3, <1>5, <1>9 DEF IsLayout, NoneNew
<1>16. GoodBindings(heap, bindings, bindings, blow, READY, l.binds)
  BY <1>3, <1>5, <1>7, <1>9, <1>15, BindingsStay DEF Running
<1>17. GoodReg(heap, reg_1, NOTHING) /\ exception_reg \in Words /\ IsRef(heap, exception_reg)
  BY <1>5, RegStays DEF Running
<1>18. GoodTest(heap, st0, l2)
  BY <1>9, <1>13 DEF GoodTest
<1>19. Current(heap, st0, bindings, reg_1, low, base, blow, l2)
  <2>1. /\ k \in 0..Len(L[ip].words) /\ IsReplaced(l2.words, L[ip].words, k, kinds)
        /\ GoodBindings(heap, bindings, bindings, blow, l2.mode, l2.binds) /\ GoodReg(heap, reg_1, l2.reg)
        /\ ((L[ip].mode = APPLYING) <=> (l2.mode = APPLYING)) /\ NoneNew(L[ip].words)
    BY <1>3, <1>7, <1>9, <1>10, <1>12, <1>13, <1>15, <1>16, <1>17
  <2>2. Grows(heap, heap) /\ GoodWords(heap, ws, kinds, blow) /\ IsReplaced(st0, stack, k, ws)
    BY <1>5, <1>8, <1>11
  <2>3. Steps(L[ip], heap, stack, bindings, blow, heap, k, ws, kinds, st0, l2, bindings, reg_1, exception_reg)
    BY <1>17, <1>18, <2>1, <2>2 DEF Steps
  <2>4. /\ AllLayouts(L)
        /\ InFrame(chunk, L, A, heap, stack, bindings, reg_1, exception_reg, ip, fr, m, low, base, blow)
    BY DEF Running
  <2> QED BY ONLY <2>3, <2>4, StepCurrent
<1>20. Current(heap, st0, bindings, reg_1, low, base, blow, L[at]) /\ at \in DOMAIN L /\ L[at].place = l.place
  <2>1. at \in DOMAIN L /\ Admits(l2, L[at]) /\ IsLayout(L[at])
    BY <1>3, <1>5 DEF Goes, AllLayouts
  <2>2. L[at].place = l.place
    BY <1>13, <2>1 DEF Admits
  <2> QED BY <1>5, <1>14, <1>19, <2>1, <2>2, CurrentAdmits
<1>21. /\ Len(st0) = top /\ top \in Nat /\ top >= 1 /\ SameTo(stack, st0, top - 1)
       /\ Len(stack) = top + n
  <2>1. Len(ws) = 1 /\ ws \in Seq(Words)
    BY <1>7, <1>11 DEF GoodWords
  <2>2. k \in 0..Len(stack)
    <3>1. n < Len(stack)
      BY <1>3, <1>6, <1>7, WordHere
    <3> QED BY <1>5, <1>6, <1>7, <3>1
  <2> DEFINE st == stack
  <2>3. Replaces(st0, st, k, ws)
    BY <1>5, <1>8, <2>1, <2>2 DEF Replaces
  <2> HIDE DEF st
  <2>4. Len(st0) = Len(st) - k + Len(ws) /\ \A i \in 1..(Len(st) - k) : st0[i] = st[i]
    BY ONLY <2>3, StackAfter DEF Relaid
  <2>5. Len(st0) = top /\ top \in Nat /\ top >= 1 /\ Len(stack) = top + n /\ top - 1 = Len(stack) - k
    <3>1. Len(st0) = Len(stack) - k + 1
      BY <2>1, <2>4 DEF st
    <3> QED BY ONLY <1>5, <1>6, <1>7, <2>2, <3>1
  <2>6. SameTo(stack, st0, top - 1)
    BY <2>4, <2>5 DEF SameTo, st
  <2> QED BY <2>5, <2>6
<1>22. stack[top] = Raw(at)
  <2>1. Known(heap, Word(n), r, blow)
    BY <1>3, <1>6, <1>7, <1>8, WordHere
  <2>2. Word(n) = stack[top]
    BY <1>7 DEF Word
  <2> QED BY <1>3, <1>8, <2>1, <2>2 DEF Known
<1>23. Suspended(L, heap, stack, bindings, f)
  BY <1>3, <1>5, <1>7, <1>20, <1>21, <1>22, Suspends
<1>24. f.low = low /\ f.blow = blow /\ f.top = top /\ f.btop = btop /\ f.at = at
  BY <1>7 DEF Frame
<1>25. Stacked(L, heap, stack, bindings, fr2, m2, top, btop)
  <2>1. IsPlace(L[f.at], m)
    BY <1>5, <1>20, <1>24 DEF IsPlace
  <2>2. AllLayouts(L) /\ Stacked(L, heap, stack, bindings, fr, m, low, blow) /\ IsPushed(fr2, fr, m, f) /\ m2 = m + 1
    BY <1>5, <1>7, <1>8
  <2> QED BY ONLY <1>23, <1>24, <2>1, <2>2, Pushed
<1>26. \A i \in 1..n : IsRef(heap, stack[top + i])
  <2> SUFFICES ASSUME NEW i \in 1..n
               PROVE  IsRef(heap, stack[top + i])
    OBVIOUS
  <2> DEFINE j == n - i
  <2>1. j \in Nat /\ j \in 0..(n - 1) /\ j < Len(l.words) /\ Len(stack) - j = top + i
    BY <1>3, <1>5, <1>6, <1>7, <1>21, SMTT(20)
  <2> HIDE DEF j
  <2>2. IsReference(FromTop(l.words, j))
    BY <1>3, <2>1 DEF HasReferences
  <2>3. Known(heap, Word(j), FromTop(l.words, j), blow)
    BY <1>7, <2>1, WordHere
  <2> QED BY <2>1, <2>2, <2>3 DEF Known, Word
<1>27. KeepsTo(chunk, L, A, heap, stack, bindings, reg_1, exception_reg, b)
  <2>1. btop \in Nat /\ Len(bindings) = btop
    BY <1>5, <1>7
  <2> QED BY <1>3, <1>5, <1>6, <1>21, <1>25, <1>26, <1>40, <2>1, Entered
<1> QED BY <1>4, <1>27 DEF JumpTo, outside, Sound, GoesOnWell
-----------------------------------------------------------------------------
(* The continuations that the machine itself leaves on the stack.          *)
LEMMA UpdateWaits ==
  ASSUME NEW c, NEW L, NEW A, Verified(c, L, A), AllLayouts(L), NEW hp, NEW st, NEW bs, NEW fr, NEW m, NEW low, NEW blow,
         Stacked(L, hp, st, bs, fr, m, low, blow), m # 0, low \in Nat, blow \in Nat,
         NEW t \in DOMAIN hp, hp[t].type = "thunk", NEW at, at = GlobalAt(c, "UPDATE_THUNK"),
         st[low + 1] = Val(t), NEW top, top = low + 2, st[top] = Raw(at)
  PROVE  \E fr2, m2 : m2 # 0 /\ Stacked(L, hp, st, bs, fr2, m2, top, blow)
<1> DEFINE l == L[at]
           f == Frame(at, low, low, top, blow, blow)
           k == m + 1
           fr2 == [i \in 1..k |-> IF i = k THEN f ELSE fr[i]]
           words == <<THUNK, VALUE>>
<1>1. at \in DOMAIN L /\ l = Continuation(READY, words)
  BY DEF Verified
<1>2. /\ l.place = "function" /\ l.mode = READY /\ l.words = words /\ l.binds = <<>> /\ l.reg = NOTHING
  BY <1>1 DEF Continuation
<1>3. Len(words) = 2 /\ words[1] = THUNK /\ words[2] = VALUE
  OBVIOUS
<1>4. READY # APPLYING /\ THUNK.kind = "thunk"
  BY DEF READY, APPLYING, THUNK, Kind
<1>5. /\ f.at = at /\ f.low = low /\ f.base = low /\ f.top = top /\ f.blow = blow /\ f.btop = blow
  BY DEF Frame
<1>6. IsPushed(fr2, fr, m, f) /\ k = m + 1 /\ k # 0
  BY DEF IsPushed, Stacked
<1> HIDE DEF f, k, fr2, words, l
<1>7. Waits(l)
  <2>1. l.words[2 - 0] = VALUE
    BY <1>2, <1>3
  <2> QED BY <1>2, <1>3, <2>1 DEF Waits, FromTop
<1>8. AreWords(hp, st, low, blow, l.words, 1)
  <2>1. Known(hp, Val(t), THUNK, blow)
    BY <1>4 DEF Known, Val, IsRef
  <2>2. \A i \in 1..1 : i = 1
    OBVIOUS
  <2> QED BY <1>2, <1>3, <2>1, <2>2 DEF AreWords
<1>9. AreBindings(hp, bs, blow, l.binds) /\ Len(l.binds) = 0
  BY <1>2 DEF AreBindings
<1>10. Suspended(L, hp, st, bs, f)
  <2>1. Underneath(hp, st, low, low, l)
    BY <1>2, <1>4 DEF Underneath
  <2>2. top = low + Len(l.words) /\ Len(l.words) - 1 = 1 /\ blow = blow + Len(l.binds)
    BY <1>2, <1>3, <1>9
  <2> QED BY <1>1, <1>5, <1>7, <1>8, <1>9, <2>1, <2>2 DEF Suspended, l
<1>11. IsPlace(L[f.at], m)
  BY <1>2, <1>5 DEF IsPlace, l
<1>12. Stacked(L, hp, st, bs, fr2, k, top, blow)
  BY <1>5, <1>6, <1>10, <1>11, Pushed
<1> QED BY <1>6, <1>12

\* The continuation APPL_CONT waits below with the arguments that are left.
LEMMA ApplyWaits ==
  ASSUME NEW c, NEW L, NEW A, Verified(c, L, A), AllLayouts(L), NEW hp, NEW st, NEW bs, NEW fr, NEW m, NEW low, NEW blow,
         Stacked(L, hp, st, bs, fr, m, low, blow), m # 0, low \in Nat, blow \in Nat,
         NEW base, Arguments(hp, st, low, base), NEW at, at = GlobalAt(c, "APPL_CONT"),
         NEW top, top = base + 1, st[top] = Raw(at)
  PROVE  \E fr2, m2 : m2 # 0 /\ Stacked(L, hp, st, bs, fr2, m2, top, blow)
<1> DEFINE l == L[at]
           f == Frame(at, low, base, top, blow, blow)
           k == m + 1
           fr2 == [i \in 1..k |-> IF i = k THEN f ELSE fr[i]]
           words == <<VALUE>>
<1>1. at \in DOMAIN L /\ l = Continuation(APPLYING, words)
  BY DEF Verified
<1>2. /\ l.place = "function" /\ l.mode = APPLYING /\ l.words = words /\ l.binds = <<>> /\ l.reg = NOTHING
  BY <1>1 DEF Continuation
<1>3. Len(words) = 1 /\ words[1] = VALUE
  OBVIOUS
<1>5. /\ f.at = at /\ f.low = low /\ f.base = base /\ f.top = top /\ f.blow = blow /\ f.btop = blow
  BY DEF Frame
<1>6. IsPushed(fr2, fr, m, f) /\ k = m + 1 /\ k # 0
  BY DEF IsPushed, Stacked
<1> HIDE DEF f, k, fr2, words, l
<1>7. Waits(l)
  <2>1. l.words[1 - 0] = VALUE
    BY <1>2, <1>3
  <2> QED BY <1>2, <1>3, <2>1 DEF Waits, FromTop
<1>8. AreWords(hp, st, base, blow, l.words, 0)
  BY DEF AreWords
<1>9. AreBindings(hp, bs, blow, l.binds) /\ Len(l.binds) = 0
  BY <1>2 DEF AreBindings
<1>10. Suspended(L, hp, st, bs, f)
  <2>1. Underneath(hp, st, low, base, l)
    BY <1>2 DEF Underneath
  <2>2. top = base + Len(l.words) /\ Len(l.words) - 1 = 0 /\ blow = blow + Len(l.binds)
    BY <1>2, <1>3, <1>9
  <2> QED BY <1>1, <1>5, <1>7, <1>8, <1>9, <2>1, <2>2 DEF Suspended, l
<1>11. IsPlace(L[f.at], m)
  BY <1>2, <1>5 DEF IsPlace, l
<1>12. Stacked(L, hp, st, bs, fr2, k, top, blow)
  BY <1>5, <1>6, <1>10, <1>11, Pushed
<1> QED BY <1>6, <1>12

\* The function that evaluates a value waits for it where it is.
LEMMA EvalWaits ==
  ASSUME NEW L, NEW A, NEW fr, NEW m, NEW low, NEW base, NEW blow, Running(L, A, fr, m, low, base, blow),
         Waits(L[ip]), NEW top, top = Len(stack), NEW st2, SameTo(st2, stack, top - 1), st2[top] = Raw(ip),
         NEW btop, btop = Len(bindings)
  PROVE  /\ top \in Nat /\ top >= 1 /\ btop \in Nat
         /\ \E fr2, m2 : m2 # 0 /\ Stacked(L, heap, st2, bindings, fr2, m2, top, btop)
<1> DEFINE l == L[ip]
           f == Frame(ip, low, base, top, blow, btop)
           k == m + 1
           fr2 == [i \in 1..k |-> IF i = k THEN f ELSE fr[i]]
<1>1. /\ Typed(heap, stack, bindings, reg_1, exception_reg) /\ Grows(heap, heap) /\ IsLayout(l)
      /\ low \in Nat /\ base \in Nat /\ blow \in Nat
      /\ Len(l.words) \in Nat /\ top \in Nat /\ btop \in Nat /\ ip \in DOMAIN L
      /\ AllLayouts(L) /\ Stacked(L, heap, stack, bindings, fr, m, low, blow) /\ IsPlace(l, m)
      /\ Current(heap, stack, bindings, reg_1, low, base, blow, l)
  BY TypedHere DEF Running, InFrame
<1>2. /\ f.at = ip /\ f.low = low /\ f.base = base /\ f.top = top /\ f.blow = blow /\ f.btop = btop
  BY DEF Frame
<1>3. IsPushed(fr2, fr, m, f) /\ k = m + 1 /\ k # 0
  BY <1>1 DEF IsPushed, Stacked
<1>4. top >= 1
  <2>1. Len(l.words) >= 1 /\ top = base + Len(l.words)
    BY <1>1 DEF Waits, Current
  <2> QED BY <1>1, <2>1
<1>5. f = Frame(ip, low, base, top, blow, btop)
  OBVIOUS
<1> HIDE DEF f, k, fr2
<1>6. Suspended(L, heap, st2, bindings, f)
  BY <1>1, <1>5, Suspends
<1>7. Stacked(L, heap, st2, bindings, fr, m, low, blow)
  <2>1. low <= top - 1
    <3>1. f.low <= f.base /\ f.base < f.top
      BY <1>1, <1>6, FrameBounds
    <3> QED BY <1>1, <1>2, <3>1
  <2>2. \A i \in 1..low : i \in 1..(top - 1)
    BY <1>1, <2>1
  <2>3. SameTo(st2, stack, low) /\ SameTo(bindings, bindings, blow)
    BY <2>2 DEF SameTo
  <2> QED BY <1>1, <2>3, FramesLater
<1>8. Stacked(L, heap, st2, bindings, fr2, k, top, btop)
  BY <1>1, <1>2, <1>3, <1>6, <1>7, Pushed
<1> QED BY <1>1, <1>3, <1>4, <1>8
-----------------------------------------------------------------------------
(* The words that calls push.                                              *)
Tagged(hp, st) == st \in Seq(Words) /\ \A i \in DOMAIN st : st[i].tag => st[i].n \in DOMAIN hp
TaggedChange(hp, new, st, n, ws) == Tagged(hp, st) /\ Tagged(hp, ws) /\ n \in 0..Len(st) /\ IsReplaced(new, st, n, ws)

\* TopReplaced for words that refer to objects where they are tagged.
LEMMA TaggedReplaced ==
  ASSUME NEW hp, NEW new, NEW st, NEW n, NEW ws, TaggedChange(hp, new, st, n, ws)
  PROVE  /\ Tagged(hp, new) /\ Len(st) \in Nat /\ Len(ws) \in Nat /\ Len(new) \in Nat
         /\ Len(new) = Len(st) - n + Len(ws)
         /\ \A i \in 1..(Len(st) - n) : new[i] = st[i]
         /\ \A i \in 1..Len(ws) : new[Len(st) - n + i] = ws[i]
<1>1. Replaces(new, st, n, ws)
  BY DEF TaggedChange, Tagged, Replaces
<1>2. /\ new \in Seq(Words) /\ Len(st) \in Nat /\ Len(ws) \in Nat /\ Len(new) \in Nat
      /\ Len(new) = Len(st) - n + Len(ws)
      /\ \A i \in 1..(Len(st) - n) : new[i] = st[i]
      /\ \A i \in 1..Len(ws) : new[Len(st) - n + i] = ws[i]
  BY ONLY <1>1, StackAfter DEF Relaid
<1>3. n \in Nat /\ Len(st) - n \in Nat /\ st \in Seq(Words) /\ ws \in Seq(Words)
      /\ DOMAIN st = 1..Len(st) /\ DOMAIN ws = 1..Len(ws) /\ DOMAIN new = 1..Len(new)
  <2>1. n \in 0..Len(st) /\ st \in Seq(Words) /\ ws \in Seq(Words)
    BY DEF TaggedChange, Tagged
  <2>2. n \in Nat /\ Len(st) - n \in Nat
    BY ONLY <1>2, <2>1
  <2> QED BY <1>2, <2>1, <2>2, LenProperties
<1> DEFINE k == Len(st) - n
<1>4. \A i \in DOMAIN new : new[i].tag => new[i].n \in DOMAIN hp
  <2> SUFFICES ASSUME NEW i \in DOMAIN new, new[i].tag
               PROVE  new[i].n \in DOMAIN hp
    OBVIOUS
  <2>0. \A j \in DOMAIN st : st[j].tag => st[j].n \in DOMAIN hp
    BY DEF TaggedChange, Tagged
  <2>9. \A j \in DOMAIN ws : ws[j].tag => ws[j].n \in DOMAIN hp
    BY DEF TaggedChange, Tagged
  <2>1. CASE i \in 1..k
    <3>1. i \in 1..Len(st)
      BY ONLY <1>2, <1>3, <2>1
    <3>2. i \in DOMAIN st /\ new[i] = st[i]
      BY <1>2, <1>3, <2>1, <3>1
    <3> QED BY <2>0, <3>2
  <2>2. CASE i \notin 1..k
    <3> DEFINE j == i - k
    <3>1. j \in 1..Len(ws) /\ i = k + j
      BY <1>2, <1>3, <2>2
    <3>2. new[i] = ws[j] /\ j \in DOMAIN ws
      BY <1>2, <1>3, <3>1
    <3> QED BY <2>9, <3>2
  <2> QED BY <2>1, <2>2
<1> QED BY <1>2, <1>4 DEF Tagged

\* Numbers of objects are pushed.
Pushes(hp, refs, ws) == refs \in Seq(Nat) /\ (\A i \in DOMAIN refs : refs[i] \in DOMAIN hp) /\ ws = Vals(refs)
\* Objects of a list, as words.
LEMMA ValsPushed ==
  ASSUME NEW hp, NEW refs, NEW ws, Pushes(hp, refs, ws)
  PROVE  /\ Tagged(hp, ws) /\ Len(ws) = Len(refs) /\ Len(ws) \in Nat
         /\ \A i \in 1..Len(ws) : IsRef(hp, ws[i]) /\ ws[i] = Val(refs[i])
<1>1. /\ refs \in Seq(Nat) /\ DOMAIN refs = 1..Len(refs) /\ Len(refs) \in Nat
      /\ \A i \in DOMAIN refs : refs[i] \in DOMAIN hp /\ refs[i] \in Nat
  BY LenProperties, ElementOfSeq DEF Pushes
<1>2. ws = [i \in 1..Len(refs) |-> Val(refs[i])]
  BY <1>1 DEF Pushes, Vals
<1>3. \A i \in 1..Len(refs) : Val(refs[i]) \in Words /\ IsRef(hp, Val(refs[i])) /\ Val(refs[i]).n \in DOMAIN hp
  BY <1>1 DEF Val, Words, IsRef
<1>4. ws \in [1..Len(refs) -> Words]
  BY <1>2, <1>3
<1>5. ws \in Seq(Words) /\ Len(ws) = Len(refs) /\ DOMAIN ws = 1..Len(refs)
  BY ONLY <1>1, <1>4, SMTT(20)
<1>6. \A i \in 1..Len(refs) : ws[i] = Val(refs[i])
  BY <1>2
<1> QED BY <1>1, <1>3, <1>5, <1>6 DEF Tagged
\* Turned round, a list of numbers has the same ones; so has a part of it.
IsReverse(t, s) == t = Reverse(s)
Within(refs, hp) == refs \in Seq(Nat) /\ \A i \in DOMAIN refs : refs[i] \in DOMAIN hp
\* A list of objects in the other order.
LEMMA ReversedWithin ==
  ASSUME NEW hp, NEW s, Within(s, hp), NEW t, IsReverse(t, s)
  PROVE  Within(t, hp) /\ Len(t) = Len(s) /\ Len(s) \in Nat
<1>1. s \in Seq(Nat) /\ DOMAIN s = 1..Len(s) /\ Len(s) \in Nat /\ \A i \in DOMAIN s : s[i] \in DOMAIN hp /\ s[i] \in Nat
  BY LenProperties, ElementOfSeq DEF Within
<1> DEFINE n == Len(s)
<1>2. t = [i \in 1..n |-> s[(n - i) + 1]]
  BY DEF IsReverse, Reverse
<1> HIDE DEF n
<1>3. n \in Nat /\ \A i \in 1..n : (n - i) + 1 \in 1..n
  BY <1>1 DEF n
<1>4. \A i \in 1..n : t[i] \in Nat /\ t[i] \in DOMAIN hp
  BY <1>1, <1>2, <1>3 DEF n
<1>5. t \in [1..n -> Nat]
  BY <1>2, <1>4
<1>6. t \in Seq(Nat) /\ Len(t) = n /\ DOMAIN t = 1..n
  BY ONLY <1>3, <1>5
<1> QED BY <1>1, <1>4, <1>6 DEF Within, n

IsPart(t, s, from, to) == t = SubSeq(s, from, to)
\* Some objects of a list of objects.
LEMMA PartWithin ==
  ASSUME NEW hp, NEW s, Within(s, hp), NEW from \in Nat \ {0}, NEW to \in Nat, from <= to + 1, to <= Len(s),
         NEW t, IsPart(t, s, from, to)
  PROVE  Within(t, hp) /\ Len(t) = to + 1 - from
<1>1. s \in Seq(Nat) /\ DOMAIN s = 1..Len(s) /\ Len(s) \in Nat /\ \A i \in DOMAIN s : s[i] \in DOMAIN hp /\ s[i] \in Nat
  BY LenProperties, ElementOfSeq DEF Within
<1> DEFINE n == to + 1 - from
<1>2. n \in Nat /\ \A i \in 1..n : from + i - 1 \in 1..Len(s)
  BY <1>1
<1>3. t = [i \in 1..n |-> s[from + i - 1]]
  BY DEF IsPart
<1> HIDE DEF n
<1>4. \A i \in 1..n : t[i] \in Nat /\ t[i] \in DOMAIN hp
  BY <1>1, <1>2, <1>3
<1>5. t \in [1..n -> Nat]
  BY <1>3, <1>4
<1>6. t \in Seq(Nat) /\ Len(t) = n /\ DOMAIN t = 1..n
  BY ONLY <1>2, <1>5
<1> QED BY <1>4, <1>6 DEF Within, n
IsConcat(u, s, t) == u = s \o t
\* Two lists of such words, one behind the other.
LEMMA TaggedJoined ==
  ASSUME NEW hp, NEW s, Tagged(hp, s), NEW t, Tagged(hp, t), NEW u, IsConcat(u, s, t)
  PROVE  /\ Tagged(hp, u) /\ Len(u) = Len(s) + Len(t) /\ Len(s) \in Nat /\ Len(t) \in Nat
         /\ \A i \in 1..Len(s) : u[i] = s[i]
         /\ \A i \in 1..Len(t) : u[Len(s) + i] = t[i]
<1>1. /\ s \in Seq(Words) /\ DOMAIN s = 1..Len(s) /\ Len(s) \in Nat
      /\ t \in Seq(Words) /\ DOMAIN t = 1..Len(t) /\ Len(t) \in Nat
  BY LenProperties DEF Tagged
<1>2. /\ u \in Seq(Words) /\ Len(u) = Len(s) + Len(t)
      /\ \A i \in 1..(Len(s) + Len(t)) : u[i] = IF i <= Len(s) THEN s[i] ELSE t[i - Len(s)]
  BY <1>1, ConcatProperties DEF IsConcat
<1>3. DOMAIN u = 1..(Len(s) + Len(t))
  BY <1>2, LenProperties
<1>4. \A i \in 1..Len(s) : u[i] = s[i]
  BY <1>1, <1>2
<1> DEFINE k == Len(s)
           n == Len(t)
<1>5. \A i \in 1..n : u[k + i] = t[i]
  <2> SUFFICES ASSUME NEW i \in 1..n
               PROVE  u[k + i] = t[i]
    OBVIOUS
  <2>1. k + i \in 1..(k + n) /\ ~(k + i <= k) /\ (k + i) - k = i
    BY ONLY <1>1, i \in 1..n
  <2> HIDE DEF k
  <2>2. u[k + i] = t[(k + i) - k]
    BY <1>2, <2>1 DEF k
  <2> QED BY <2>1, <2>2
<1>6. ASSUME NEW i \in DOMAIN u, u[i].tag
      PROVE  u[i].n \in DOMAIN hp
  <2>1. CASE i \in 1..k
    BY <1>1, <1>4, <1>6, <2>1 DEF Tagged
  <2>2. CASE i \notin 1..k
    <3>1. i - k \in 1..n /\ k + (i - k) = i
      BY ONLY <1>1, <1>3, <1>6, <2>2
    <3>2. u[i] = t[i - k] /\ i - k \in DOMAIN t
      BY <1>1, <1>5, <3>1
    <3> QED BY <1>6, <3>2 DEF Tagged
  <2> QED BY <2>1, <2>2
<1> QED BY <1>1, <1>2, <1>4, <1>5, <1>6 DEF Tagged

\* The number of arguments left and the address that takes them.
LEMMA RawPair ==
  ASSUME NEW hp, NEW e \in Nat, NEW at \in Int, NEW last, last = <<Raw(e), Raw(at)>>
  PROVE  Tagged(hp, last) /\ Len(last) = 2 /\ last[1] = Raw(e) /\ last[2] = Raw(at)
<1>1. Raw(e) \in Words /\ Raw(at) \in Words /\ ~Raw(e).tag /\ ~Raw(at).tag
  BY DEF Raw, Words
<1> DEFINE u == Raw(e)
           v == Raw(at)
<1> HIDE DEF u, v
<1>2. last = <<u, v>> /\ u \in Words /\ v \in Words /\ ~u.tag /\ ~v.tag
  BY <1>1 DEF u, v
<1>3. last \in Seq(Words) /\ Len(last) = 2 /\ last[1] = u /\ last[2] = v /\ DOMAIN last = 1..2
  BY <1>2
<1>4. \A i \in 1..2 : i = 1 \/ i = 2
  OBVIOUS
<1> QED BY <1>2, <1>3, <1>4 DEF Tagged, u, v

\* What waits under a call whose arguments were too many: those, their number and a continuation.
Remains(hp, ws, e, at) ==
  /\ Tagged(hp, ws) /\ Len(ws) = e + 2 /\ ws[e + 1] = Raw(e) /\ ws[e + 2] = Raw(at)
  /\ \A j \in 1..e : IsRef(hp, ws[j])
\* Arguments, their number and APPL_CONT, as a function leaves them.
LEMMA Remaining ==
  ASSUME NEW hp, NEW refs, Tagged(hp, refs), \A j \in 1..Len(refs) : IsRef(hp, refs[j]), NEW at \in Int,
         NEW e, e = Len(refs), NEW last, last = <<Raw(e), Raw(at)>>, NEW ws, IsConcat(ws, refs, last)
  PROVE  Remains(hp, ws, e, at) /\ e \in Nat
<1>1. e \in Nat
  BY LenProperties DEF Tagged
<1>2. Tagged(hp, last) /\ Len(last) = 2 /\ last[1] = Raw(e) /\ last[2] = Raw(at)
  BY <1>1, RawPair
<1> HIDE DEF IsConcat
<1>3. /\ Tagged(hp, ws) /\ Len(ws) = Len(refs) + Len(last)
      /\ \A i \in 1..Len(refs) : ws[i] = refs[i]
      /\ \A i \in 1..Len(last) : ws[Len(refs) + i] = last[i]
  <2>1. Tagged(hp, refs) /\ Tagged(hp, last) /\ IsConcat(ws, refs, last)
    BY <1>2
  <2> QED BY ONLY <2>1, TaggedJoined
<1>4. 1 \in 1..2 /\ 2 \in 1..2
  OBVIOUS
<1> QED BY <1>1, <1>2, <1>3, <1>4 DEF Remains

\* call_words: the arguments of the call, as many as it takes, on top of the rest.
CallPushed(hp, ws, n, e, at) ==
  /\ Tagged(hp, ws) /\ e \in Nat
  /\ Len(ws) = n + (IF e = 0 THEN 0 ELSE e + 2)
  /\ \A i \in 1..n : IsRef(hp, ws[Len(ws) - n + i])
  /\ e # 0 => /\ ws[e + 1] = Raw(e) /\ ws[e + 2] = Raw(at)
              /\ \A j \in 1..e : IsRef(hp, ws[j])
\* What call pushes: the arguments of the function, and below them those left.
LEMMA CallIsPushed ==
  ASSUME NEW hp, NEW fields, Within(fields, hp), NEW n \in Nat, n <= Len(fields),
         NEW at, at = address_of_global("APPL_CONT"), at \in Int,
         NEW e, e = Len(fields) - n, NEW ws, ws = call_words(fields, n)
  PROVE  CallPushed(hp, ws, n, e, at)
<1> DEFINE k == Len(fields)
           from == n + 1
           one == 1
           extra == SubSeq(fields, from, k)
           first == SubSeq(fields, one, n)
           extra2 == Reverse(extra)
           first2 == Reverse(first)
           top == Vals(first2)
           rest == Vals(extra2)
           none == <<>>
           low == IF extra = none THEN none ELSE rest \o <<Raw(Len(extra)), Raw(at)>>
<1>1. ws = low \o top
  BY DEF call_words, extra_words
<1>2. /\ IsPart(extra, fields, from, k) /\ IsPart(first, fields, one, n) /\ IsReverse(extra2, extra) /\ IsReverse(first2, first)
      /\ top = Vals(first2) /\ rest = Vals(extra2) /\ one = 1 /\ from = n + 1 /\ k = Len(fields) /\ none = <<>>
      /\ low = IF extra = none THEN none ELSE rest \o <<Raw(Len(extra)), Raw(at)>>
  BY DEF IsPart, IsReverse
<1>3. k \in Nat /\ from \in Nat \ {0} /\ one \in Nat \ {0} /\ from <= k + 1 /\ one <= n + 1 /\ e \in Nat /\ e = k + 1 - from /\ n = n + 1 - one
  <2>1. k \in Nat
    BY LenProperties DEF Within
  <2> QED BY <2>1, <1>2
<1> HIDE DEF k, from, one, extra, first, extra2, first2, top, rest, low, none
<1>4. Within(extra, hp) /\ Len(extra) = e
  <2>1. Within(extra, hp) /\ Len(extra) = k + 1 - from
    <3>1. k <= Len(fields)
      BY <1>2, <1>3
    <3> QED BY ONLY Within(fields, hp), <1>2, <1>3, <3>1, PartWithin
  <2> QED BY <1>3, <2>1
<1>5. Within(first, hp) /\ Len(first) = n
  <2>1. Within(first, hp) /\ Len(first) = n + 1 - one
    BY ONLY Within(fields, hp), n \in Nat, n <= Len(fields), <1>2, <1>3, PartWithin
  <2> QED BY <1>3, <2>1
<1>6. Within(extra2, hp) /\ Len(extra2) = e
  BY <1>2, <1>4, ReversedWithin
<1>7. Within(first2, hp) /\ Len(first2) = n
  BY <1>2, <1>5, ReversedWithin
<1>8. /\ Tagged(hp, top) /\ Len(top) = n /\ \A i \in 1..n : IsRef(hp, top[i])
  <2>1. Pushes(hp, first2, top)
    BY <1>2, <1>7 DEF Pushes, Within
  <2> QED BY <1>7, <2>1, ValsPushed
<1>9. /\ Tagged(hp, rest) /\ Len(rest) = e /\ \A i \in 1..Len(rest) : IsRef(hp, rest[i])
  <2>1. Pushes(hp, extra2, rest)
    BY <1>2, <1>6 DEF Pushes, Within
  <2> QED BY <1>6, <2>1, ValsPushed
<1>10. extra = none <=> e = 0
  BY <1>2, <1>4 DEF Within
<1>11. CASE e = 0
  <2>1. ws = none \o top
    BY <1>1, <1>2, <1>10, <1>11
  <2>2. ws = top
    <3>1. top \in Seq(Words)
      BY <1>8 DEF Tagged
    <3> QED BY <1>2, <2>1, <3>1
  <2>3. \A i \in 1..n : n - n + i = i
    OBVIOUS
  <2> QED BY <1>3, <1>8, <1>11, <2>2, <2>3 DEF CallPushed
<1>12. CASE e # 0
  <2> DEFINE last == <<Raw(e), Raw(at)>>
  <2>1. IsConcat(low, rest, last) /\ last = <<Raw(e), Raw(at)>>
    BY <1>2, <1>4, <1>10, <1>12 DEF IsConcat
  <2> HIDE DEF last
  <2>2. Remains(hp, low, e, at)
    BY <1>9, <2>1, Remaining
  <2>3. IsConcat(ws, low, top)
    BY <1>1 DEF IsConcat
  <2>4. /\ Tagged(hp, ws) /\ Len(ws) = Len(low) + Len(top) /\ Len(low) \in Nat
        /\ \A i \in 1..Len(low) : ws[i] = low[i]
        /\ \A i \in 1..Len(top) : ws[Len(low) + i] = top[i]
    <3>1. Tagged(hp, low) /\ Tagged(hp, top)
      BY <1>8, <2>2 DEF Remains
    <3> QED BY ONLY <3>1, <2>3, TaggedJoined
  <2>5. Len(low) = e + 2
    BY <2>2 DEF Remains
  <2>6. Len(ws) = n + (e + 2) /\ Len(ws) - n = Len(low)
    BY ONLY <1>3, <1>8, <2>4, <2>5, n \in Nat
  <2>7. \A j \in 1..e : j \in 1..Len(low)
    BY ONLY <1>3, <2>5
  <2>8. e + 1 \in 1..Len(low) /\ e + 2 \in 1..Len(low)
    BY ONLY <1>3, <2>5
  <2>9. \A i \in 1..n : IsRef(hp, ws[Len(ws) - n + i])
    BY <1>8, <2>4, <2>6
  <2>10. /\ ws[e + 1] = Raw(e) /\ ws[e + 2] = Raw(at)
         /\ \A j \in 1..e : IsRef(hp, ws[j])
    BY <2>2, <2>4, <2>7, <2>8 DEF Remains
  <2> QED BY <1>3, <1>12, <2>4, <2>6, <2>9, <2>10 DEF CallPushed
<1> QED BY <1>11, <1>12
-----------------------------------------------------------------------------
(* Functions and thunks.                                                   *)
LEMMA InfoHere ==
  ASSUME NEW L, NEW A, NEW fr, NEW m, NEW low, NEW base, NEW blow, Running(L, A, fr, m, low, base, blow),
         ~IsMade(L[ip].mode), Verified(chunk, L, A), NEW i \in DOMAIN heap, heap[i].type \in {"closure", "thunk"},
         NEW b, b = info(i).address, NEW n, n = info(i).arity
  PROVE  /\ b \in DOMAIN L /\ n \in Nat /\ Begins(L[b], n) /\ Val(i) \in Words /\ Val(i).n = i /\ Val(i).tag
         /\ L[b].reg # NOTHING => Known(heap, Val(i), L[b].reg, 0)
         /\ heap[i].type = "thunk" => n = 0
<1> DEFINE k == heap[i].n
           f == chunk.closures[k]
<1>1. /\ Shaped(heap[i], heap, chunk, A) /\ Filled(heap[i], heap) /\ i \in Nat
  BY ObjectHere
<1>2. k \in DOMAIN chunk.closures /\ (heap[i].type = "thunk" => f.arity = 0)
  BY <1>1 DEF Shaped
<1>3. IsInfo(chunk, L, k)
  BY <1>2 DEF Verified
<1>4. b = f.address /\ n = f.arity
  BY DEF info
<1>5. /\ b \in DOMAIN L /\ n \in Nat /\ Begins(L[b], n) /\ L[b].reg \in {NOTHING, SELF(k)}
  BY <1>3, <1>4 DEF IsInfo
<1>6. Val(i) \in Words /\ Val(i).n = i /\ Val(i).tag
  BY <1>1 DEF Val, Words
<1>7. Known(heap, Val(i), SELF(k), 0)
  BY <1>1, <1>6 DEF Known, SELF, Kind, IsRef
<1> QED BY <1>2, <1>4, <1>5, <1>6, <1>7

\* The functions of the machine are within the code.
LEMMA GlobalHere ==
  ASSUME NEW L, NEW A, Verified(chunk, L, A), NEW f \in {"UPDATE_THUNK", "APPL_CONT"}
  PROVE  address_of_global(f) = GlobalAt(chunk, f) /\ GlobalAt(chunk, f) \in Int
<1>1. GlobalAt(chunk, f) \in DOMAIN L
  BY DEF Verified
<1>2. GlobalAt(chunk, f) \in 0..(Len(chunk.code) - 1)
  BY <1>1 DEF Verified, Obeys
<1> QED BY <1>2 DEF address_of_global, GlobalAt

\* A function begins, its arguments on top of the frames.
Calls(L, A, fr, m, top, i, n, b) ==
  /\ AllLayouts(L) /\ b \in DOMAIN L /\ n \in Nat /\ Begins(L[b], n)
  /\ L[b].reg # NOTHING => Known(heap, Val(i), L[b].reg, 0)
  /\ Val(i) \in Words /\ i \in DOMAIN heap
  /\ m # 0 /\ top \in Nat /\ Len(bindings) \in Nat
  /\ Stacked(L, heap, stack', bindings, fr, m, top, Len(bindings))
  /\ Typed(heap, stack, bindings, reg_1, exception_reg) /\ Tagged(heap, stack') /\ GoodHeap(heap, READY, chunk, A)
  /\ Len(stack') = top + n
  /\ \A j \in 1..n : IsRef(heap, stack'[top + j])
\* A function is called with just its arguments.
LEMMA CallHere ==
  ASSUME NEW L, NEW A, NEW fr, NEW m, NEW top, NEW i, NEW n, NEW b, Calls(L, A, fr, m, top, i, n, b),
         reg_1' = Val(i), JumpTo(b), UNCHANGED <<heap, bindings>>
  PROVE  Sound(L, A)
<1> DEFINE btop == Len(bindings)
           st == stack'
           w == Val(i)
<1>1. w.n = i /\ w \in Words
  BY DEF Val, Calls
<1>2. /\ AllLayouts(L) /\ b \in DOMAIN L /\ n \in Nat /\ Begins(L[b], n)
      /\ L[b].reg # NOTHING => Known(heap, w, L[b].reg, 0)
      /\ i \in DOMAIN heap
      /\ m # 0 /\ top \in Nat /\ btop \in Nat
      /\ Stacked(L, heap, st, bindings, fr, m, top, btop)
      /\ Typed(heap, stack, bindings, reg_1, exception_reg) /\ Tagged(heap, st) /\ GoodHeap(heap, READY, chunk, A)
      /\ Len(st) = top + n
      /\ \A j \in 1..n : IsRef(heap, st[top + j])
  BY DEF Calls
<1>3. Len(bindings) = btop /\ st = stack' /\ w = Val(i)
  OBVIOUS
<1> HIDE DEF btop, st, w
<1>4. Typed(heap, st, bindings, w, exception_reg)
  BY <1>1, <1>2 DEF Typed, Tagged
<1>5. KeepsTo(chunk, L, A, heap, st, bindings, w, exception_reg, b)
  BY <1>2, <1>3, <1>4, Entered
<1> QED BY <1>3, <1>5 DEF Sound, GoesOnWell, JumpTo, outside

\* The same where arguments remain that are too many: they wait for its result.
CallsOver(L, A, fr, m, low, e, i, n, b) ==
  /\ AllLayouts(L) /\ b \in DOMAIN L /\ n \in Nat /\ Begins(L[b], n)
  /\ L[b].reg # NOTHING => Known(heap, Val(i), L[b].reg, 0)
  /\ Val(i) \in Words /\ i \in DOMAIN heap
  /\ m # 0 /\ low \in Nat /\ Len(bindings) \in Nat /\ e \in Nat
  /\ Stacked(L, heap, stack', bindings, fr, m, low, Len(bindings))
  /\ Typed(heap, stack, bindings, reg_1, exception_reg) /\ Tagged(heap, stack') /\ GoodHeap(heap, READY, chunk, A)
  /\ Len(stack') = low + (IF e = 0 THEN 0 ELSE e + 2) + n
  /\ \A j \in 1..n : IsRef(heap, stack'[Len(stack') - n + j])
  /\ e # 0 => /\ stack'[low + e + 1] = Raw(e) /\ stack'[low + e + 2] = Raw(GlobalAt(chunk, "APPL_CONT"))
              /\ \A j \in (low + 1)..(low + e) : IsRef(heap, stack'[j])
\* A function is called with more arguments than it takes.
LEMMA CallOverHere ==
  ASSUME NEW L, NEW A, Verified(chunk, L, A),
         NEW fr, NEW m, NEW low, NEW e, NEW i, NEW n, NEW b, CallsOver(L, A, fr, m, low, e, i, n, b),
         reg_1' = Val(i), JumpTo(b), UNCHANGED <<heap, bindings>>
  PROVE  Sound(L, A)
<1>1. CASE e = 0
  <2>1. Len(stack') = low + n /\ Len(stack') - n = low
    BY <1>1 DEF CallsOver
  <2>2. Calls(L, A, fr, m, low, i, n, b)
    BY <2>1 DEF Calls, CallsOver
  <2> QED BY <2>2, CallHere
<1>2. CASE e # 0
  <2> DEFINE base == low + e + 1
             top == base + 1
             st == stack'
             at == GlobalAt(chunk, "APPL_CONT")
             btop == Len(bindings)
  <2>1. /\ low \in Nat /\ e \in Nat /\ n \in Nat /\ Len(st) = low + (e + 2) + n /\ m # 0 /\ AllLayouts(L) /\ btop \in Nat
        /\ Stacked(L, heap, st, bindings, fr, m, low, btop)
        /\ st[low + e + 1] = Raw(e) /\ st[low + e + 2] = Raw(at)
        /\ \A j \in (low + 1)..(low + e) : IsRef(heap, st[j])
    BY <1>2 DEF CallsOver
  <2>2. /\ base \in Nat /\ base > low /\ base - low - 1 = e /\ base - 1 = low + e /\ top \in Nat
        /\ low + e + 2 = top /\ Len(st) = top + n /\ Len(st) - n = top
    BY <2>1
  <2>3. base = low + e + 1 /\ top = base + 1 /\ st = stack' /\ at = GlobalAt(chunk, "APPL_CONT") /\ btop = Len(bindings)
    OBVIOUS
  <2> HIDE DEF base, top, st, at, btop
  <2>4. Arguments(heap, st, low, base)
    BY <2>1, <2>2, <2>3 DEF Arguments
  <2>5. st[top] = Raw(at)
    BY <2>1, <2>2
  <2>6. PICK fr2, m2 : m2 # 0 /\ Stacked(L, heap, st, bindings, fr2, m2, top, btop)
    BY <2>1, <2>2, <2>3, <2>4, <2>5, ApplyWaits
  <2>7. Calls(L, A, fr2, m2, top, i, n, b)
    <3>1. \A j \in 1..n : IsRef(heap, st[top + j])
      BY <2>2, <2>3 DEF CallsOver
    <3> QED BY <2>1, <2>2, <2>3, <2>6, <3>1 DEF Calls, CallsOver
  <2> QED BY <2>7, CallHere
<1> QED BY <1>1, <1>2

\* The function that evaluates a value is left, to return with it where it is.
LeavesWith(L, ws) == Waits(L[ip]) /\ Tagged(heap, ws) /\ Replace(1, <<Raw(ip)>> \o ws)
\* A function waits at its EVAL with what it left on the stack.
LEMMA LeftWaiting ==
  ASSUME NEW L, NEW A, NEW fr, NEW m, NEW low, NEW base, NEW blow, Running(L, A, fr, m, low, base, blow),
         ObeysHere(L, A), NEW ws, LeavesWith(L, ws), NEW top, top = Len(stack)
  PROVE  /\ Tagged(heap, stack') /\ Len(stack') = top + Len(ws) /\ top \in Nat /\ Len(ws) \in Nat
         /\ \A i \in 1..Len(ws) : stack'[top + i] = ws[i]
         /\ \E fr2, m2 : m2 # 0 /\ Stacked(L, heap, stack', bindings, fr2, m2, top, Len(bindings))
<1> DEFINE one == 1
           w == Raw(ip)
           here == <<w>>
           pushed == here \o ws
           st == stack
           new == stack'
           btop == Len(bindings)
<1>1. /\ Typed(heap, stack, bindings, reg_1, exception_reg) /\ Len(stack) \in Nat /\ Len(bindings) \in Nat
      /\ Len(L[ip].words) \in Nat
  BY TypedHere
<1>2. ip \in Nat
  BY NextIsAddress
<1>3. /\ Tagged(heap, here) /\ Len(here) = 1 /\ here[1] = w
  <2>1. w \in Words /\ ~w.tag
    BY <1>2 DEF Raw, Words
  <2> HIDE DEF w
  <2> QED BY <2>1 DEF Tagged
<1>4. Tagged(heap, st) /\ Len(st) = top /\ Tagged(heap, ws) /\ Waits(L[ip])
  BY <1>1 DEF Tagged, Typed, LeavesWith
<1>5. 0 < Len(L[ip].words) /\ Len(L[ip].words) >= 1
  BY <1>1, <1>4, WaitingModes
<1>6. top >= 1
  BY <1>1, <1>5, WordHere
<1>7. /\ IsReplaced(new, st, one, pushed) /\ IsConcat(pushed, here, ws) /\ one = 1 /\ w = Raw(ip) /\ st = stack /\ new = stack'
      /\ btop = Len(bindings)
  BY DEF LeavesWith, Replace, IsReplaced, IsConcat
<1> HIDE DEF one, w, here, pushed, st, new, btop
<1>8. /\ Tagged(heap, pushed) /\ Len(pushed) = Len(here) + Len(ws) /\ Len(ws) \in Nat
      /\ \A i \in 1..Len(here) : pushed[i] = here[i]
      /\ \A i \in 1..Len(ws) : pushed[Len(here) + i] = ws[i]
  <2>1. Tagged(heap, here) /\ Tagged(heap, ws) /\ IsConcat(pushed, here, ws)
    BY <1>3, <1>4, <1>7
  <2> QED BY ONLY <2>1, TaggedJoined
<1>9. TaggedChange(heap, new, st, one, pushed)
  BY <1>1, <1>4, <1>6, <1>7, <1>8 DEF TaggedChange
<1>10. /\ Tagged(heap, new) /\ Len(new) = Len(st) - one + Len(pushed)
       /\ \A i \in 1..(Len(st) - one) : new[i] = st[i]
       /\ \A i \in 1..Len(pushed) : new[Len(st) - one + i] = pushed[i]
  BY ONLY <1>9, TaggedReplaced
<1>11. Len(new) = top + Len(ws) /\ Len(pushed) = 1 + Len(ws)
  BY <1>1, <1>3, <1>4, <1>7, <1>8, <1>10
<1>12. SameTo(new, st, top - 1)
  BY <1>4, <1>7, <1>10 DEF SameTo
<1>13. new[top] = w
  <2>1. 1 \in 1..Len(pushed) /\ top - 1 + 1 = top /\ 1 \in 1..1
    BY <1>1, <1>8, <1>11, <1>4, <1>7
  <2>2. new[top - 1 + 1] = pushed[1]
    BY <1>4, <1>7, <1>10, <2>1
  <2> QED BY <1>3, <1>8, <2>1, <2>2
<1>14. \A i \in 1..Len(ws) : new[top + i] = ws[i]
  <2> SUFFICES ASSUME NEW i \in 1..Len(ws)
               PROVE  new[top + i] = ws[i]
    OBVIOUS
  <2> DEFINE j == 1 + i
  <2>1. j \in 1..Len(pushed) /\ top - 1 + j = top + i /\ j = 1 + i
    BY <1>1, <1>4, <1>7, <1>8, <1>11
  <2> HIDE DEF j
  <2>2. new[top - 1 + j] = pushed[j]
    BY <1>4, <1>7, <1>10, <2>1
  <2> QED BY <1>3, <1>8, <2>1, <2>2
<1>15. \E fr2, m2 : m2 # 0 /\ Stacked(L, heap, new, bindings, fr2, m2, top, btop)
  BY <1>4, <1>7, <1>12, <1>13, EvalWaits
<1> QED BY <1>1, <1>4, <1>7, <1>8, <1>10, <1>11, <1>14, <1>15

\* Three words.
LEMMA OneAndTwo ==
  ASSUME NEW u \in Words, NEW v \in Words, NEW w \in Words
  PROVE  <<u>> \o <<v, w>> = <<u, v, w>>
<1> DEFINE s == <<u>>
           t == <<v, w>>
           x == s \o t
           y == <<u, v, w>>
<1>1. s \in Seq(Words) /\ t \in Seq(Words) /\ y \in Seq(Words) /\ Len(s) = 1 /\ Len(t) = 2 /\ Len(y) = 3
      /\ s[1] = u /\ t[1] = v /\ t[2] = w /\ y[1] = u /\ y[2] = v /\ y[3] = w
  OBVIOUS
<1>2. IsConcat(x, s, t)
  BY DEF IsConcat
<1> HIDE DEF s, t, x, y
<1>3. /\ x \in Seq(Words) /\ Len(x) = 3
      /\ \A i \in 1..3 : x[i] = IF i <= 1 THEN s[i] ELSE t[i - 1]
  BY <1>1, <1>2, ConcatProperties DEF IsConcat
<1>4. 1 \in 1..3 /\ 2 \in 1..3 /\ 3 \in 1..3 /\ 1 <= 1 /\ ~(2 <= 1) /\ ~(3 <= 1) /\ 2 - 1 = 1 /\ 3 - 1 = 2
      /\ \A i \in 1..3 : i = 1 \/ i = 2 \/ i = 3
  OBVIOUS
<1>5. x[1] = u /\ x[2] = v /\ x[3] = w
  BY <1>1, <1>3, <1>4
<1>6. \A i \in 1..Len(x) : x[i] = y[i]
  BY <1>1, <1>3, <1>4, <1>5
<1>7. x = y
  BY <1>1, <1>3, <1>6, SeqEqual
<1> QED BY <1>7 DEF x, y, s, t

\* A thunk is entered, with UPDATE_THUNK below its words.
LEMMA EVAL_Thunk ==
  ASSUME NEW L, NEW A, NEW fr, NEW m, NEW low, NEW base, NEW blow, Running(L, A, fr, m, low, base, blow),
         ObeysHere(L, A), Verified(chunk, L, A), Waits(L[ip]), NEW t \in DOMAIN heap, heap[t].type = "thunk",
         reg_1' = Val(t), Replace(1, <<Raw(ip), Val(t), Raw(address_of_global("UPDATE_THUNK"))>>),
         JumpTo(info(t).address), UNCHANGED <<heap, bindings>>
  PROVE  Sound(L, A)
<1> DEFINE at == GlobalAt(chunk, "UPDATE_THUNK")
           v == Val(t)
           w == Raw(at)
           ws == <<v, w>>
           low2 == Len(stack)
           top == low2 + 2
           st == stack'
           btop == Len(bindings)
           b == info(t).address
           n == info(t).arity
<1>1. address_of_global("UPDATE_THUNK") = at /\ at \in Int
  BY GlobalHere
<1>2. ~IsMade(L[ip].mode)
  BY WaitingModes
<1>3. /\ b \in DOMAIN L /\ n \in Nat /\ Begins(L[b], n) /\ v \in Words /\ v.n = t /\ v.tag /\ n = 0
      /\ L[b].reg # NOTHING => Known(heap, v, L[b].reg, 0)
  BY <1>2, InfoHere
<1>4. w \in Words /\ ~w.tag
  BY <1>1 DEF Raw, Words
<1>5. <<Raw(ip)>> \o ws = <<Raw(ip), v, w>>
  <2> DEFINE u == Raw(ip)
  <2>1. u \in Words
    <3>1. ip \in Nat
      BY NextIsAddress
    <3> QED BY <3>1 DEF Raw, Words
  <2> HIDE DEF u, v, w
  <2>2. v \in Words /\ w \in Words
    BY <1>3, <1>4
  <2>3. <<u>> \o <<v, w>> = <<u, v, w>>
    BY <2>1, <2>2, OneAndTwo
  <2> QED BY <2>3 DEF u
<1>50. ws = <<v, w>> /\ v = Val(t) /\ w = Raw(at) /\ low2 = Len(stack) /\ top = low2 + 2 /\ st = stack' /\ btop = Len(bindings)
      /\ at = GlobalAt(chunk, "UPDATE_THUNK") /\ b = info(t).address
  OBVIOUS
<1> HIDE DEF v, w, at, low2, top, st, btop, b, n
<1>6. ws \in Seq(Words) /\ Len(ws) = 2 /\ ws[1] = v /\ ws[2] = w /\ DOMAIN ws = 1..2
  BY <1>3, <1>4
<1> HIDE DEF ws
<1>7. Tagged(heap, ws)
  <2>1. \A i \in 1..2 : i = 1 \/ i = 2
    OBVIOUS
  <2> QED BY <1>3, <1>4, <1>6, <2>1 DEF Tagged
<1>8. LeavesWith(L, ws)
  BY <1>1, <1>5, <1>7, <1>50 DEF LeavesWith
<1>9. /\ Tagged(heap, st) /\ Len(st) = low2 + Len(ws) /\ low2 \in Nat
      /\ \A i \in 1..Len(ws) : st[low2 + i] = ws[i]
      /\ \E fr2, m2 : m2 # 0 /\ Stacked(L, heap, st, bindings, fr2, m2, low2, btop)
  <2>1. low2 = Len(stack)
    BY <1>50
  <2>2. /\ Tagged(heap, stack') /\ Len(stack') = low2 + Len(ws) /\ low2 \in Nat /\ Len(ws) \in Nat
        /\ \A i \in 1..Len(ws) : stack'[low2 + i] = ws[i]
        /\ \E fr2, m2 : m2 # 0 /\ Stacked(L, heap, stack', bindings, fr2, m2, low2, Len(bindings))
    BY ONLY Running(L, A, fr, m, low, base, blow), ObeysHere(L, A), <1>8, <2>1, LeftWaiting, SMTT(20)
  <2> QED BY <1>50, <2>2
<1>10. PICK fr2, m2 : m2 # 0 /\ Stacked(L, heap, st, bindings, fr2, m2, low2, btop)
  BY <1>9
<1>11. /\ Typed(heap, stack, bindings, reg_1, exception_reg) /\ AllLayouts(L) /\ btop \in Nat
       /\ GoodHeap(heap, READY, chunk, A)
  <2>1. GoodHeap(heap, L[ip].mode, chunk, A) /\ ~IsMade(READY)
    BY TypedHere DEF IsMade, READY, Kind
  <2>2. GoodHeap(heap, READY, chunk, A)
    BY <1>2, <2>1, ModeForgotten
  <2> QED BY <1>50, <2>2, TypedHere DEF Running
<1>12. st[low2 + 1] = v /\ st[top] = w
  <2>1. 1 \in 1..2 /\ 2 \in 1..2
    OBVIOUS
  <2> QED BY <1>6, <1>9, <1>50, <2>1
<1>13. PICK fr3, m3 : m3 # 0 /\ Stacked(L, heap, st, bindings, fr3, m3, top, btop)
  <2>1. /\ Stacked(L, heap, st, bindings, fr2, m2, low2, btop) /\ m2 # 0 /\ low2 \in Nat /\ btop \in Nat /\ AllLayouts(L)
        /\ at = GlobalAt(chunk, "UPDATE_THUNK") /\ st[low2 + 1] = Val(t) /\ top = low2 + 2 /\ st[top] = Raw(at)
    BY <1>9, <1>10, <1>11, <1>12, <1>50
  <2> QED BY ONLY Verified(chunk, L, A), t \in DOMAIN heap, heap[t].type = "thunk", <2>1, UpdateWaits
<1>14. Len(st) = top + n /\ top \in Nat
  BY <1>3, <1>6, <1>9, <1>50
<1>15. Calls(L, A, fr3, m3, top, t, n, b)
  BY <1>3, <1>9, <1>11, <1>13, <1>14, <1>50 DEF Calls
<1> QED BY <1>15, <1>50, CallHere

\* An application that has its arguments is called.
LEMMA EVAL_Call ==
  ASSUME NEW L, NEW A, NEW fr, NEW m, NEW low, NEW base, NEW blow, Running(L, A, fr, m, low, base, blow),
         ObeysHere(L, A), Verified(chunk, L, A), Waits(L[ip]), NEW a \in DOMAIN heap, heap[a].type = "application",
         NEW f, f = heap[a].link, NEW n, n = info(f).arity, Saturated(a), reg_1' = Val(f),
         Replace(1, <<Raw(ip)>> \o call_words(heap[a].fields, n)),
         JumpTo(info(f).address), UNCHANGED <<heap, bindings>>
  PROVE  Sound(L, A)
<1> DEFINE at == GlobalAt(chunk, "APPL_CONT")
           fields == heap[a].fields
           ws == call_words(fields, n)
           top == Len(stack)
           st == stack'
           btop == Len(bindings)
           b == info(f).address
           e == Len(fields) - n
<1>1. address_of_global("APPL_CONT") = at /\ at \in Int
  BY GlobalHere
<1>2. ~IsMade(L[ip].mode)
  BY WaitingModes
<1>3. /\ Shaped(heap[a], heap, chunk, A) /\ Filled(heap[a], heap)
  BY <1>2, ObjectHere
<1>4. f \in DOMAIN heap /\ heap[f].type = "closure" /\ Within(fields, heap)
  BY <1>3 DEF Shaped, Filled, Within
<1>5. /\ b \in DOMAIN L /\ n \in Nat /\ Begins(L[b], n) /\ Val(f) \in Words
      /\ L[b].reg # NOTHING => Known(heap, Val(f), L[b].reg, 0)
  BY <1>2, <1>4, InfoHere
<1>6. n <= Len(fields) /\ Len(fields) \in Nat
  BY <1>4, LenProperties DEF Saturated, Within
<1>50. ws = call_words(fields, n) /\ top = Len(stack) /\ st = stack' /\ btop = Len(bindings)
      /\ at = GlobalAt(chunk, "APPL_CONT") /\ b = info(f).address /\ e = Len(fields) - n /\ fields = heap[a].fields
  OBVIOUS
<1> HIDE DEF ws, at, top, st, btop, b, e, fields
<1>7. CallPushed(heap, ws, n, e, at)
  BY <1>1, <1>4, <1>5, <1>6, <1>50, CallIsPushed
<1>8. /\ Tagged(heap, ws) /\ e \in Nat
      /\ Len(ws) = n + (IF e = 0 THEN 0 ELSE e + 2)
      /\ \A i \in 1..n : IsRef(heap, ws[Len(ws) - n + i])
      /\ e # 0 => /\ ws[e + 1] = Raw(e) /\ ws[e + 2] = Raw(at)
                  /\ \A j \in 1..e : IsRef(heap, ws[j])
  BY <1>7 DEF CallPushed
<1>9. LeavesWith(L, ws)
  BY <1>8, <1>50 DEF LeavesWith
<1>10. /\ Tagged(heap, st) /\ Len(st) = top + Len(ws) /\ top \in Nat /\ Len(ws) \in Nat
       /\ \A i \in 1..Len(ws) : st[top + i] = ws[i]
       /\ \E fr2, m2 : m2 # 0 /\ Stacked(L, heap, st, bindings, fr2, m2, top, btop)
  <2>1. top = Len(stack)
    BY <1>50
  <2>2. /\ Tagged(heap, stack') /\ Len(stack') = top + Len(ws) /\ top \in Nat /\ Len(ws) \in Nat
        /\ \A i \in 1..Len(ws) : stack'[top + i] = ws[i]
        /\ \E fr2, m2 : m2 # 0 /\ Stacked(L, heap, stack', bindings, fr2, m2, top, Len(bindings))
    BY ONLY Running(L, A, fr, m, low, base, blow), ObeysHere(L, A), <1>9, <2>1, LeftWaiting, SMTT(20)
  <2> QED BY <1>50, <2>2
<1>11. PICK fr2, m2 : m2 # 0 /\ Stacked(L, heap, st, bindings, fr2, m2, top, btop)
  BY <1>10
<1>12. /\ Typed(heap, stack, bindings, reg_1, exception_reg) /\ AllLayouts(L) /\ btop \in Nat
       /\ GoodHeap(heap, READY, chunk, A)
  <2>1. GoodHeap(heap, L[ip].mode, chunk, A) /\ ~IsMade(READY)
    BY TypedHere DEF IsMade, READY, Kind
  <2>2. GoodHeap(heap, READY, chunk, A)
    BY <1>2, <2>1, ModeForgotten
  <2> QED BY <1>50, <2>2, TypedHere DEF Running
<1>13. Len(st) = top + (IF e = 0 THEN 0 ELSE e + 2) + n
  BY <1>5, <1>8, <1>10
<1>14. \A j \in 1..n : IsRef(heap, st[Len(st) - n + j])
  <2> SUFFICES ASSUME NEW j \in 1..n
               PROVE  IsRef(heap, st[Len(st) - n + j])
    OBVIOUS
  <2> DEFINE k == Len(ws) - n + j
  <2>1. k \in 1..Len(ws) /\ Len(st) - n + j = top + k /\ k = Len(ws) - n + j
    <3>1. Len(ws) \in Nat /\ n \in Nat /\ Len(ws) >= n
      BY <1>5, <1>8, <1>10
    <3> QED BY ONLY <1>10, <3>1, j \in 1..n
  <2> HIDE DEF k
  <2> QED BY <1>8, <1>10, <2>1
<1>15. e # 0 => /\ st[top + e + 1] = Raw(e) /\ st[top + e + 2] = Raw(at)
                /\ \A j \in (top + 1)..(top + e) : IsRef(heap, st[j])
  <2> SUFFICES ASSUME e # 0
               PROVE  /\ st[top + e + 1] = Raw(e) /\ st[top + e + 2] = Raw(at)
                      /\ \A j \in (top + 1)..(top + e) : IsRef(heap, st[j])
    OBVIOUS
  <2> DEFINE i == e + 1
             k == e + 2
  <2>1. i \in 1..Len(ws) /\ k \in 1..Len(ws) /\ top + e + 1 = top + i /\ top + e + 2 = top + k /\ \A j \in 1..e : j \in 1..Len(ws)
    BY <1>5, <1>8, <1>10, SMTT(20)
  <2>2. ws[i] = Raw(e) /\ ws[k] = Raw(at)
    BY <1>8
  <2> HIDE DEF i, k
  <2>3. st[top + e + 1] = Raw(e) /\ st[top + e + 2] = Raw(at)
    BY <1>10, <2>1, <2>2
  <2>4. ASSUME NEW j \in (top + 1)..(top + e)
        PROVE  IsRef(heap, st[j])
    <3> DEFINE x == j - top
    <3>1. x \in 1..e /\ j = top + x
      BY <1>8, <1>10
    <3> HIDE DEF x
    <3> QED BY <1>8, <1>10, <2>1, <3>1
  <2> QED BY <2>3, <2>4
<1>16. CallsOver(L, A, fr2, m2, top, e, f, n, b)
  <2>1. b \in DOMAIN L /\ n \in Nat /\ Begins(L[b], n) /\ Val(f) \in Words /\ f \in DOMAIN heap
        /\ (L[b].reg # NOTHING => Known(heap, Val(f), L[b].reg, 0))
    BY <1>4, <1>5
  <2>2. /\ m2 # 0 /\ top \in Nat /\ Len(bindings) \in Nat /\ e \in Nat
        /\ Stacked(L, heap, stack', bindings, fr2, m2, top, Len(bindings))
        /\ Tagged(heap, stack')
    BY <1>8, <1>10, <1>11, <1>12, <1>50
  <2>3. /\ Len(stack') = top + (IF e = 0 THEN 0 ELSE e + 2) + n
        /\ \A j \in 1..n : IsRef(heap, stack'[Len(stack') - n + j])
    BY <1>13, <1>14, <1>50
  <2>4. e # 0 => /\ stack'[top + e + 1] = Raw(e) /\ stack'[top + e + 2] = Raw(GlobalAt(chunk, "APPL_CONT"))
                 /\ \A j \in (top + 1)..(top + e) : IsRef(heap, stack'[j])
    BY <1>15, <1>50
  <2> QED BY <1>12, <2>1, <2>2, <2>3, <2>4, Zenon DEF CallsOver
<1> QED BY <1>16, <1>50, CallOverHere

\* A value that is evaluated, or becomes it, stays where it is.
EvaluatedTo(L, A, v, ws) ==
  /\ Waits(L[ip]) /\ ws = <<Val(v)>> /\ v \in DOMAIN heap'
  /\ heap'[v].whnf
  /\ IsReplaced(stack', stack, 1, ws)
  /\ Grows(heap, heap') /\ GoodHeap(heap', READY, chunk, A)
  /\ Continue /\ UNCHANGED <<bindings, reg_1>>
  /\ Goes(L, Replaced(L[ip], 1, <<WHNF>>), next)
\* The word on top is a value that is evaluated.
LEMMA EvaluatedHere ==
  ASSUME NEW L, NEW A, NEW fr, NEW m, NEW low, NEW base, NEW blow, Running(L, A, fr, m, low, base, blow),
         NEW v \in Nat, NEW ws, EvaluatedTo(L, A, v, ws)
  PROVE  Sound(L, A)
<1> DEFINE one == 1
           k == WHNF
           w == Val(v)
           kinds == <<k>>
           l2 == Replaced(L[ip], one, kinds)
<1>1. /\ L[ip].mode # RETURNING /\ L[ip].mode.kind # "tested" /\ ~IsMade(L[ip].mode) /\ Len(L[ip].words) >= 1
  BY WaitingModes DEF EvaluatedTo
<1>2. one \in 0..Len(L[ip].words)
  BY <1>1, TypedHere
<1>3. w \in Words /\ w.n = v /\ k.kind = "whnf" /\ w.tag
  BY DEF Val, Words, WHNF, Kind
<1>4. ws = <<w>> /\ kinds = <<k>> /\ l2 = Replaced(L[ip], one, kinds) /\ Goes(L, l2, next) /\ IsReplaced(stack', stack, one, ws)
  BY DEF EvaluatedTo
<1>5. v \in DOMAIN heap' /\ heap'[v].whnf
  BY DEF EvaluatedTo
<1> HIDE DEF one, k, w, kinds, l2
<1>6. Known(heap', w, k, blow)
  BY <1>3, <1>5 DEF Known, IsRef
<1>7. GoodWords(heap', ws, kinds, blow) /\ NoneNew(kinds)
  BY <1>3, <1>4, <1>5, <1>6, OneWord
<1>8. Grows(heap, heap') /\ GoodHeap(heap', READY, chunk, A) /\ Continue /\ UNCHANGED <<bindings, reg_1>>
  BY DEF EvaluatedTo
<1> QED BY <1>1, <1>2, <1>4, <1>7, <1>8, ChangedHere

\* Any other object is evaluated as it is.
LEMMA EVAL_Other ==
  ASSUME NEW L, NEW A, NEW fr, NEW m, NEW low, NEW base, NEW blow, Running(L, A, fr, m, low, base, blow),
         Waits(L[ip]), Goes(L, Replaced(L[ip], 1, <<WHNF>>), next), NEW t \in DOMAIN heap,
         heap' = [heap EXCEPT ![t].whnf = TRUE], Replace(1, <<Val(t)>>), Continue, UNCHANGED <<bindings, reg_1>>
  PROVE  Sound(L, A)
<1> DEFINE object == [heap[t] EXCEPT !.whnf = TRUE]
           ws == <<Val(t)>>
<1>1. ~IsMade(L[ip].mode)
  BY WaitingModes
<1>2. /\ Shaped(heap[t], heap, chunk, A) /\ IsObject(heap[t]) /\ Filled(heap[t], heap) /\ t \in Nat
  BY <1>1, ObjectHere DEF Shaped
<1>3. IsUpdated(heap', heap, t, object) /\ object = [heap[t] EXCEPT !.whnf = TRUE] /\ ws = <<Val(t)>>
  BY DEF IsUpdated
<1> HIDE DEF object, ws
<1>4. /\ object = Object(heap[t].type, heap[t].n, heap[t].fields, heap[t].link, TRUE)
      /\ object.type = heap[t].type /\ object.n = heap[t].n /\ object.fields = heap[t].fields
      /\ object.link = heap[t].link /\ object.whnf
  BY <1>2, <1>3 DEF IsObject, Object
<1>5. Shaped(object, heap, chunk, A) /\ Filled(object, heap)
  <2>1. IsObject(object)
    <3>1. object = Object(object.type, object.n, object.fields, object.link, object.whnf)
      BY <1>4 DEF Object
    <3> QED BY <3>1 DEF IsObject
  <2> QED BY <1>2, <1>4, <2>1 DEF Shaped, Filled
<1>6. GoodHeap(heap', READY, chunk, A) /\ Grows(heap, heap')
  <2>1. GoodHeap(heap, L[ip].mode, chunk, A) /\ ~IsMade(READY)
    BY TypedHere DEF IsMade, READY, Kind
  <2> QED BY <1>1, <1>3, <1>4, <1>5, <2>1, HeapUpdated
<1>7. t \in DOMAIN heap' /\ heap'[t].whnf
  <2>1. heap' = [heap EXCEPT ![t] = object]
    BY <1>3 DEF IsUpdated
  <2> QED BY <1>4, <2>1
<1>8. EvaluatedTo(L, A, t, ws)
  BY <1>3, <1>6, <1>7 DEF EvaluatedTo, Replace, IsReplaced
<1> QED BY <1>2, <1>8, EvaluatedHere

\* The value of a word is evaluated, or a thunk or an application is called for it.
LEMMA EVAL_Sound ==
  ASSUME NEW L, NEW A, NEW fr, NEW m, NEW low, NEW base, NEW blow, Running(L, A, fr, m, low, base, blow),
         ObeysHere(L, A), Verified(chunk, L, A), EVAL
  PROVE  Sound(L, A)
<1> DEFINE val == Ref(0)
           target == IF heap[val].whnf THEN val ELSE forwarded(val)
<1>1. op = "EVAL" /\ UNCHANGED bindings
  BY DEF EVAL, Op
<1>2. Enters(chunk, L, ip)
  BY <1>1, EntersHere DEF EnterOps
<1>3. Waits(L[ip]) /\ Goes(L, Replaced(L[ip], 1, <<WHNF>>), next)
  BY <1>1, <1>2, HereIs DEF Enters, Here, GoesOn
<1>4. ~IsMade(L[ip].mode) /\ Len(L[ip].words) >= 1 /\ FromTop(L[ip].words, 0) = VALUE
  BY <1>3, WaitingModes
<1>5. 0 < Len(L[ip].words)
  BY <1>4, TypedHere
<1>6. val \in DOMAIN heap /\ Word(0) = Val(val) /\ Word(0) \in Words
  <2>1. Known(heap, Word(0), VALUE, blow) /\ Word(0) \in Words
    BY <1>4, <1>5, WordHere
  <2>2. IsRef(heap, Word(0))
    BY <2>1 DEF Known, IsReference, VALUE, Kind
  <2>3. Word(0) = [tag |-> Word(0).tag, n |-> Word(0).n]
    BY <2>1 DEF Words
  <2> QED BY <2>1, <2>2, <2>3 DEF IsRef, Ref, Val
<1>7. /\ heap[val].whnf => /\ Continue /\ UNCHANGED <<stack, stack_len, reg_1, heap>>
      /\ ~heap[val].whnf /\ heap[target].type = "thunk" =>
           /\ reg_1' = Val(target)
           /\ Replace(1, <<Raw(ip), Val(target), Raw(address_of_global("UPDATE_THUNK"))>>)
           /\ JumpTo(info(target).address) /\ UNCHANGED heap
      /\ ~heap[val].whnf /\ heap[target].type = "application" /\ Saturated(target) =>
           /\ reg_1' = Val(heap[target].link)
           /\ Replace(1, <<Raw(ip)>> \o call_words(heap[target].fields, info(heap[target].link).arity))
           /\ JumpTo(info(heap[target].link).address) /\ UNCHANGED heap
      /\ ~heap[val].whnf /\ heap[target].type # "thunk" /\ ~(heap[target].type = "application" /\ Saturated(target)) =>
           /\ heap' = [heap EXCEPT ![target].whnf = TRUE]
           /\ Replace(1, <<Val(target)>>) /\ Continue /\ UNCHANGED reg_1
  <2>1. CASE heap[val].whnf
    BY <2>1, Zenon DEF EVAL
  <2>2. CASE ~heap[val].whnf /\ heap[target].type = "thunk"
    <3>1. "thunk" # "application"
      OBVIOUS
    <3> QED BY <2>2, <3>1 DEF EVAL
  <2>3. CASE ~heap[val].whnf /\ heap[target].type = "application" /\ Saturated(target)
    BY <2>3 DEF EVAL
  <2>4. CASE ~heap[val].whnf /\ heap[target].type # "thunk" /\ ~(heap[target].type = "application" /\ Saturated(target))
    BY <2>4 DEF EVAL
  <2> QED BY <2>1, <2>2, <2>3, <2>4
<1>8. target \in DOMAIN heap
  <2>1. Shaped(heap[val], heap, chunk, A)
    BY <1>6, ObjectHere
  <2> QED BY <1>6, <2>1 DEF forwarded, Shaped
<1> HIDE DEF target
<1>9. CASE heap[val].whnf
  <2>1. val \in Nat /\ Grows(heap, heap) /\ GoodHeap(heap, READY, chunk, A)
    <3>1. GoodHeap(heap, L[ip].mode, chunk, A) /\ ~IsMade(READY)
      BY TypedHere DEF IsMade, READY, Kind
    <3>2. GoodHeap(heap, READY, chunk, A)
      BY <1>4, <3>1, ModeForgotten
    <3> QED BY <1>6, <3>2, ObjectHere, TypedHere
  <2> DEFINE ws == <<Val(val)>>
             one == 1
             st == stack
  <2>2. /\ IsList(st) /\ one \in 0..Len(st) /\ IsList(ws) /\ ReplacedAs(st, st, one, ws)
    <3>1. st \in Seq(Words) /\ Len(st) \in Nat /\ 0 < Len(st)
      <4>1. 0 < Len(st)
        BY <1>5, WordHere
      <4> QED BY <4>1, TypedHere DEF Typed
    <3>2. IsList(st)
      BY <3>1, ListOver
    <3>3. Word(0) = st[Len(st)]
      BY <3>1 DEF Word
    <3> DEFINE w == Val(val)
    <3>4. w = st[Len(st)] /\ w \in Words
      BY <1>6, <3>3
    <3> HIDE DEF w
    <3>5. ws \in Seq(Words) /\ Len(ws) = 1 /\ ws[1] = w
      BY <3>4 DEF w
    <3>6. IsList(ws)
      BY <3>5, ListOver
    <3> HIDE DEF st, ws
    <3>7. \A i \in 1..1 : st[Len(st) - 1 + i] = ws[i]
      <4>1. \A i \in 1..1 : i = 1 /\ Len(st) - 1 + i = Len(st)
        BY <3>1
      <4> QED BY <3>4, <3>5, <4>1
    <3> QED BY <3>1, <3>2, <3>5, <3>6, <3>7 DEF ReplacedAs
  <2> HIDE DEF ws
  <2>3. IsReplaced(st, st, one, ws)
    <3> HIDE DEF st, one
    <3> QED BY <2>2, ReplacedIs
  <2>4. EvaluatedTo(L, A, val, ws)
    BY <1>1, <1>3, <1>6, <1>7, <1>9, <2>1, <2>3 DEF EvaluatedTo, ws
  <2> QED BY <2>1, <2>4, EvaluatedHere
<1>10. CASE ~heap[val].whnf /\ heap[target].type = "thunk"
  <2>1. /\ reg_1' = Val(target)
        /\ Replace(1, <<Raw(ip), Val(target), Raw(address_of_global("UPDATE_THUNK"))>>)
        /\ JumpTo(info(target).address) /\ UNCHANGED <<heap, bindings>>
    BY <1>1, <1>7, <1>10
  <2> QED BY <1>3, <1>8, <1>10, <2>1, EVAL_Thunk
<1>11. CASE ~heap[val].whnf /\ heap[target].type = "application" /\ Saturated(target)
  <2>1. /\ reg_1' = Val(heap[target].link)
        /\ Replace(1, <<Raw(ip)>> \o call_words(heap[target].fields, info(heap[target].link).arity))
        /\ JumpTo(info(heap[target].link).address) /\ UNCHANGED <<heap, bindings>>
    BY <1>1, <1>7, <1>11
  <2> QED BY <1>3, <1>8, <1>11, <2>1, EVAL_Call
<1>12. CASE ~heap[val].whnf /\ heap[target].type # "thunk" /\ ~(heap[target].type = "application" /\ Saturated(target))
  <2>1. /\ heap' = [heap EXCEPT ![target].whnf = TRUE]
        /\ Replace(1, <<Val(target)>>) /\ Continue /\ UNCHANGED <<bindings, reg_1>>
    BY <1>1, <1>7, <1>12
  <2> QED BY <1>3, <1>8, <2>1, EVAL_Other
<1> QED BY <1>9, <1>10, <1>11, <1>12
-----------------------------------------------------------------------------
(* handle_continuation: the arguments that waited, with those that are held *)
Gathered(hp, st, low, words, count) ==
  /\ Tagged(hp, words) /\ count \in Nat /\ low \in Nat /\ Len(words) = low + count
  /\ SameTo(words, st, low)
  /\ \A j \in (low + 1)..(low + count) : IsRef(hp, words[j])
\* The arguments that waited and those held by the application, on the stack.
LEMMA Gathers ==
  ASSUME NEW hp, NEW st, NEW low \in Nat, NEW base, Tagged(hp, st), Len(st) = base + 1, Arguments(hp, st, low, base),
         NEW held, Within(held, hp), NEW vs, vs = Vals(Reverse(held)),
         NEW words, NEW two, two = 2, IsReplaced(words, st, two, vs), NEW count, count = st[base].n + Len(held)
  PROVE  Gathered(hp, st, low, words, count)
<1> DEFINE turned == Reverse(held)
           h == Len(held)
           a == base - low - 1
<1>1. IsReverse(turned, held) /\ vs = Vals(turned) /\ h = Len(held) /\ a = base - low - 1
  BY DEF IsReverse
<1>2. /\ base \in Nat /\ base > low /\ st[base] = Raw(a) /\ \A j \in (low + 1)..(base - 1) : IsRef(hp, st[j])
  BY DEF Arguments
<1> HIDE DEF turned, h, a
<1>3. Within(turned, hp) /\ Len(turned) = h /\ h \in Nat
  BY <1>1, ReversedWithin
<1>4. Tagged(hp, vs) /\ Len(vs) = h /\ \A i \in 1..h : IsRef(hp, vs[i])
  <2>1. Pushes(hp, turned, vs)
    BY <1>1, <1>3 DEF Pushes, Within
  <2>2. /\ Tagged(hp, vs) /\ Len(vs) = Len(turned) /\ Len(vs) \in Nat
        /\ \A i \in 1..Len(vs) : IsRef(hp, vs[i]) /\ vs[i] = Val(turned[i])
    BY ONLY <2>1, ValsPushed
  <2> QED BY <1>3, <2>2
<1>5. count = a + h /\ a \in Nat /\ count \in Nat
  <2>1. a \in Nat
    BY <1>1, <1>2
  <2>2. st[base].n = a
    BY <1>2 DEF Raw
  <2> QED BY <1>1, <1>3, <2>1, <2>2
<1>6. TaggedChange(hp, words, st, two, vs)
  BY <1>2, <1>4 DEF TaggedChange
<1>7. /\ Tagged(hp, words)
      /\ Len(words) = Len(st) - two + Len(vs)
      /\ \A i \in 1..(Len(st) - two) : words[i] = st[i]
      /\ \A i \in 1..Len(vs) : words[Len(st) - two + i] = vs[i]
  BY ONLY <1>6, TaggedReplaced
<1>8. Len(st) - two = base - 1 /\ base - 1 = low + a /\ Len(words) = low + count
  BY <1>1, <1>2, <1>3, <1>4, <1>5, <1>7
<1>9. SameTo(words, st, low)
  <2>1. \A i \in 1..low : i \in 1..(base - 1)
    BY <1>5, <1>8
  <2> QED BY <1>7, <1>8, <2>1 DEF SameTo
<1>10. ASSUME NEW j \in (low + 1)..(low + count)
       PROVE  IsRef(hp, words[j])
  <2>1. CASE j <= base - 1
    <3>1. j \in (low + 1)..(base - 1) /\ j \in 1..(base - 1)
      BY <1>2, <1>5, <2>1
    <3> QED BY <1>2, <1>7, <1>8, <3>1
  <2>2. CASE ~(j <= base - 1)
    <3> DEFINE i == j - (base - 1)
    <3>1. i \in 1..h /\ j = base - 1 + i
      BY <1>2, <1>3, <1>5, <1>8, <2>2
    <3> HIDE DEF i
    <3> QED BY <1>4, <1>7, <1>8, <3>1
  <2> QED BY <2>1, <2>2
<1> QED BY <1>5, <1>7, <1>8, <1>9, <1>10 DEF Gathered

\* With enough of them the function begins, those it does not take under it.
WithoutThem(st, words, n, e, at) ==
  IF e = 0 THEN st = words
  ELSE st = Drop(words, n) \o <<Raw(e), Raw(at)>> \o SubSeq(words, Len(words) - n + 1, Len(words))
\* There are enough of them: the function is called.
LEMMA GatheredCall ==
  ASSUME NEW L, NEW A, NEW fr, NEW m, NEW low, NEW base, NEW blow, Running(L, A, fr, m, low, base, blow),
         ~IsMade(L[ip].mode), Verified(chunk, L, A), m # 0, Len(bindings) = blow,
         NEW words, NEW count, Gathered(heap, stack, low, words, count),
         NEW f \in DOMAIN heap, heap[f].type = "closure", NEW n, n = info(f).arity, n <= count, NEW e, e = count - n,
         NEW at, at = GlobalAt(chunk, "APPL_CONT"),
         WithoutThem(stack', words, n, e, at),
         reg_1' = Val(f), JumpTo(info(f).address), UNCHANGED <<heap, bindings>>
  PROVE  Sound(L, A)
<1> DEFINE b == info(f).address
           st == stack'
           k == Len(words)
<1>1. /\ b \in DOMAIN L /\ n \in Nat /\ Begins(L[b], n) /\ Val(f) \in Words
      /\ L[b].reg # NOTHING => Known(heap, Val(f), L[b].reg, 0)
  BY InfoHere
<1>2. /\ Tagged(heap, words) /\ count \in Nat /\ low \in Nat /\ k = low + count
      /\ SameTo(words, stack, low)
      /\ \A j \in (low + 1)..(low + count) : IsRef(heap, words[j])
  BY DEF Gathered
<1>3. e \in Nat /\ count = e + n /\ n \in 0..k /\ k \in Nat /\ k - n = low + e
  BY <1>1, <1>2
<1>4. at \in Int
  BY GlobalHere
<1>50. b = info(f).address /\ st = stack' /\ k = Len(words)
  OBVIOUS
<1> HIDE DEF b, st, k
<1>51. low \in Nat /\ e \in Nat /\ n \in Nat /\ count = e + n /\ k = low + count /\ k - n = low + e /\ k = Len(words)
  BY <1>1, <1>2, <1>3, <1>50
<1>5. /\ Tagged(heap, st) /\ Len(st) = low + (IF e = 0 THEN 0 ELSE e + 2) + n
      /\ SameTo(st, words, low)
      /\ \A j \in 1..n : IsRef(heap, st[Len(st) - n + j])
      /\ e # 0 => /\ st[low + e + 1] = Raw(e) /\ st[low + e + 2] = Raw(at)
                  /\ \A j \in (low + 1)..(low + e) : IsRef(heap, st[j])
  <2>1. CASE e = 0
    <3>1. st = words
      BY <1>50, <2>1 DEF WithoutThem
    <3>2. k - n = low /\ k = low + n /\ \A j \in 1..n : low + j \in (low + 1)..(low + count)
      BY ONLY <1>51, <2>1
    <3>3. \A j \in 1..n : IsRef(heap, st[k - n + j])
      BY <1>2, <3>1, <3>2
    <3> QED BY <1>2, <1>50, <2>1, <3>1, <3>2, <3>3 DEF SameTo
  <2>2. CASE e # 0
    <3> DEFINE none == <<>>
               mid == Drop(words, n) \o none
               last == <<Raw(e), Raw(at)>>
               mid2 == Drop(words, n) \o last
               end == SubSeq(words, Len(words) - n + 1, Len(words))
    <3>1. /\ IsReplaced(mid2, words, n, last) /\ IsEnd(end, words, n) /\ last = <<Raw(e), Raw(at)>>
          /\ IsConcat(st, mid2, end)
      BY <1>50, <2>2 DEF IsReplaced, IsEnd, IsConcat, WithoutThem
    <3> HIDE DEF mid, last, mid2, end, none
    <3>2. Tagged(heap, last) /\ Len(last) = 2 /\ last[1] = Raw(e) /\ last[2] = Raw(at)
      BY <1>3, <1>4, <3>1, RawPair
    <3>3. TaggedChange(heap, mid2, words, n, last)
      BY <1>2, <1>3, <1>50, <3>1, <3>2 DEF TaggedChange
    <3>4. /\ Tagged(heap, mid2) /\ Len(mid2) = Len(words) - n + Len(last)
          /\ \A i \in 1..(Len(words) - n) : mid2[i] = words[i]
          /\ \A i \in 1..Len(last) : mid2[Len(words) - n + i] = last[i]
      BY ONLY <3>3, TaggedReplaced
    <3>5. end \in Seq(Words) /\ Len(end) = n /\ \A i \in 1..n : end[i] = words[Len(words) - n + i]
      <4>1. words \in Seq(Words) /\ n \in 0..Len(words)
        BY <1>2, <1>3, <1>50 DEF Tagged
      <4> QED BY ONLY <3>1, <4>1, LastOnes
    <3>6. Len(mid2) = low + e + 2 /\ Len(words) - n = low + e
      BY <1>2, <1>3, <1>50, <3>2, <3>4
    <3>7. \A i \in 1..n : IsRef(heap, end[i])
      <4>1. \A i \in 1..n : low + e + i \in (low + 1)..(low + count)
        BY ONLY <1>51
      <4> QED BY <1>2, <3>5, <3>6, <4>1
    <3>8. Tagged(heap, end)
      <4>1. DOMAIN end = 1..n
        BY <3>5, LenProperties
      <4> QED BY <3>5, <3>7, <4>1 DEF Tagged, IsRef
    <3>9. /\ Tagged(heap, st) /\ Len(st) = Len(mid2) + Len(end)
          /\ \A i \in 1..Len(mid2) : st[i] = mid2[i]
          /\ \A i \in 1..Len(end) : st[Len(mid2) + i] = end[i]
      <4>1. IsConcat(st, mid2, end) /\ Tagged(heap, mid2)
        BY <3>1, <3>4
      <4> QED BY ONLY <4>1, <3>8, TaggedJoined
    <3>10. Len(st) = low + (e + 2) + n /\ Len(st) - n = Len(mid2)
      <4>1. Len(st) = (low + e + 2) + n
        BY <3>5, <3>6, <3>9
      <4> QED BY ONLY <1>51, <3>6, <4>1
    <3>11. \A j \in 1..n : IsRef(heap, st[Len(st) - n + j])
      BY <3>5, <3>7, <3>9, <3>10
    <3>12. \A i \in 1..(low + e) : st[i] = words[i]
      <4>1. \A i \in 1..(low + e) : i \in 1..Len(mid2)
        BY ONLY <1>51, <3>6
      <4> QED BY <3>4, <3>6, <3>9, <4>1
    <3>13. SameTo(st, words, low)
      <4>1. \A i \in 1..low : i \in 1..(low + e)
        BY ONLY <1>51
      <4> QED BY <3>12, <4>1 DEF SameTo
    <3>14. \A j \in (low + 1)..(low + e) : IsRef(heap, st[j])
      <4>1. \A j \in (low + 1)..(low + e) : j \in 1..(low + e) /\ j \in (low + 1)..(low + count)
        BY ONLY <1>51
      <4> QED BY <1>2, <3>12, <4>1
    <3>15. st[low + e + 1] = Raw(e) /\ st[low + e + 2] = Raw(at)
      <4> DEFINE x == low + e + 1
                 y == low + e + 2
      <4>1. x \in 1..Len(mid2) /\ y \in 1..Len(mid2) /\ 1 \in 1..Len(last) /\ 2 \in 1..Len(last)
            /\ x = Len(words) - n + 1 /\ y = Len(words) - n + 2
        <5>1. Len(last) = 2
          BY <3>2
        <5> QED BY ONLY <1>51, <3>6, <5>1
      <4> HIDE DEF x, y
      <4>2. st[x] = last[1] /\ st[y] = last[2]
        BY <3>4, <3>9, <4>1
      <4> QED BY <3>2, <4>2 DEF x, y
    <3> QED BY <2>2, <3>9, <3>10, <3>11, <3>13, <3>14, <3>15
  <2> QED BY <2>1, <2>2
<1>6. /\ Typed(heap, stack, bindings, reg_1, exception_reg) /\ AllLayouts(L) /\ blow \in Nat
      /\ GoodHeap(heap, READY, chunk, A) /\ Stacked(L, heap, stack, bindings, fr, m, low, blow)
  <2>1. GoodHeap(heap, L[ip].mode, chunk, A) /\ ~IsMade(READY)
    BY TypedHere DEF IsMade, READY, Kind
  <2>2. GoodHeap(heap, READY, chunk, A)
    BY <2>1, ModeForgotten
  <2> QED BY <2>2, TypedHere DEF Running, InFrame
<1>7. Stacked(L, heap, st, bindings, fr, m, low, blow)
  <2>1. SameTo(st, stack, low) /\ SameTo(bindings, bindings, blow)
    BY <1>2, <1>5 DEF SameTo
  <2> QED BY <1>2, <1>6, <2>1, HeapKept, FramesLater
<1>8. CallsOver(L, A, fr, m, low, e, f, n, b)
  <2>1. /\ low \in Nat /\ e \in Nat /\ Len(bindings) \in Nat
        /\ Stacked(L, heap, stack', bindings, fr, m, low, Len(bindings)) /\ Tagged(heap, stack')
    BY <1>2, <1>3, <1>5, <1>6, <1>7, <1>50
  <2>2. /\ Len(stack') = low + (IF e = 0 THEN 0 ELSE e + 2) + n
        /\ \A j \in 1..n : IsRef(heap, stack'[Len(stack') - n + j])
    BY <1>5, <1>50
  <2>3. e # 0 => /\ stack'[low + e + 1] = Raw(e) /\ stack'[low + e + 2] = Raw(GlobalAt(chunk, "APPL_CONT"))
                 /\ \A j \in (low + 1)..(low + e) : IsRef(heap, stack'[j])
    BY <1>5, <1>50
  <2> QED BY <1>1, <1>6, <2>1, <2>2, <2>3, Zenon DEF CallsOver
<1> QED BY <1>8, <1>50, CallOverHere

\* With too few an application holds them, and is the result.
Holds(words, count, f, popped) ==
  /\ popped = [i \in 1..count |-> words[Len(words) - i + 1].n]
  /\ heap' = Append(heap, Object("application", 0, popped, f, FALSE))
  /\ stack' = Append(Drop(words, count + 1), Val(Len(heap) + 1))
  /\ JumpTo(words[Len(words) - count].n)
\* There are too few: they become one application.
LEMMA GatheredFew ==
  ASSUME NEW L, NEW A, NEW fr, NEW m, NEW low, NEW base, NEW blow, Running(L, A, fr, m, low, base, blow),
         ~IsMade(L[ip].mode), m # 0, Len(bindings) = blow,
         NEW words, NEW count, Gathered(heap, stack, low, words, count),
         NEW f \in DOMAIN heap, heap[f].type = "closure", NEW popped, Holds(words, count, f, popped),
         UNCHANGED <<reg_1, bindings>>
  PROVE  Sound(L, A)
<1> DEFINE object == Object("application", 0, popped, f, FALSE)
           size == Len(heap)
           v == Val(size + 1)
           cut == Drop(words, count + 1)
           at == words[Len(words) - count].n
           g == fr[m]
           k == m - 1
<1>1. /\ Tagged(heap, words) /\ count \in Nat /\ low \in Nat /\ Len(words) = low + count
      /\ SameTo(words, stack, low)
      /\ \A j \in (low + 1)..(low + count) : IsRef(heap, words[j])
  BY DEF Gathered
<1>2. /\ Typed(heap, stack, bindings, reg_1, exception_reg) /\ AllLayouts(L) /\ blow \in Nat
      /\ GoodHeap(heap, READY, chunk, A) /\ Stacked(L, heap, stack, bindings, fr, m, low, blow) /\ ~IsMade(READY)
  <2>1. GoodHeap(heap, L[ip].mode, chunk, A) /\ ~IsMade(READY)
    BY TypedHere DEF IsMade, READY, Kind
  <2>2. GoodHeap(heap, READY, chunk, A)
    BY <2>1, ModeForgotten
  <2> QED BY <2>1, <2>2, TypedHere DEF Running, InFrame
<1>3. /\ f \in Nat /\ f # 0 /\ IsList(heap) /\ DOMAIN heap = 1..size /\ size \in Nat
  BY ObjectHere
<1>4. /\ popped = [i \in 1..count |-> words[Len(words) - i + 1].n]
      /\ IsAppended(heap', heap, object) /\ IsAppended(stack', cut, v) /\ JumpTo(at)
  BY DEF Holds, IsAppended
<1>5. /\ Suspended(L, heap, stack, bindings, g) /\ g.top = low
  BY <1>2, Unstacked
<1>6. low >= 1
  <2>1. g.base \in Nat /\ g.base < g.top
    BY <1>2, <1>5, FrameBounds
  <2> QED BY <1>1, <1>5, <2>1
<1>50. object = Object("application", 0, popped, f, FALSE) /\ size = Len(heap) /\ v = Val(size + 1)
       /\ cut = Drop(words, count + 1) /\ at = words[Len(words) - count].n /\ g = fr[m] /\ k = m - 1
  OBVIOUS
<1> HIDE DEF object, size, v, cut, at, g, k
<1>7. Within(popped, heap)
  <2>1. ASSUME NEW i \in 1..count
        PROVE  popped[i] \in Nat /\ popped[i] \in DOMAIN heap
    <3> DEFINE j == Len(words) - i + 1
    <3>1. j \in (low + 1)..(low + count)
      BY <1>1
    <3>2. popped[i] = words[j].n
      BY <1>4
    <3> HIDE DEF j
    <3>3. words[j].n \in DOMAIN heap
      BY <1>1, <3>1 DEF IsRef
    <3> QED BY <1>3, <3>2, <3>3
  <2>2. popped \in [1..count -> Nat]
    BY <1>4, <2>1
  <2>3. popped \in Seq(Nat) /\ DOMAIN popped = 1..count
    BY ONLY <1>1, <2>2
  <2> QED BY <2>1, <2>3 DEF Within
<1>8. /\ DOMAIN heap' = 1..(size + 1) /\ heap'[size + 1] = object /\ \A i \in DOMAIN heap : i \in DOMAIN heap' /\ heap'[i] = heap[i]
  <2>1. /\ IsList(heap') /\ Len(heap) \in Nat /\ Len(heap') = Len(heap) + 1 /\ DOMAIN heap = 1..Len(heap) /\ DOMAIN heap' = 1..(Len(heap) + 1)
        /\ heap'[Len(heap) + 1] = object /\ \A i \in DOMAIN heap : heap'[i] = heap[i]
    BY <1>3, <1>4, Appended
  <2> QED BY <1>3, <1>50, <2>1
<1>9. /\ object.type = "application" /\ object.n = 0 /\ object.fields = popped /\ object.link = f /\ object.whnf = FALSE
  BY <1>50 DEF Object
<1>10. Fits(object, heap', chunk, A, READY)
  <2>1. IsObject(object)
    BY <1>9, <1>50 DEF IsObject
  <2>2. Shaped(object, heap', chunk, A)
    BY <1>3, <1>7, <1>8, <1>9, <2>1 DEF Shaped, Within
  <2>3. \A i \in DOMAIN object.fields : object.fields[i] \in DOMAIN heap'
    BY <1>7, <1>8, <1>9 DEF Within
  <2> QED BY <1>2, <2>2, <2>3 DEF Fits, Filled
<1>11. GoodHeap(heap', READY, chunk, A) /\ Grows(heap, heap')
  BY <1>2, <1>4, <1>10, HeapAppended
<1>12. /\ v \in Words /\ IsRef(heap', v) /\ v.n \in DOMAIN heap'
  BY <1>3, <1>8, <1>50 DEF Val, Words, IsRef
<1>13. /\ cut \in Seq(Words) /\ Len(cut) = low - 1 /\ \A i \in 1..(low - 1) : cut[i] = words[i]
  <2> DEFINE n == low - 1
  <2>1. n \in 0..Len(words) /\ Len(words) - (count + 1) = n
    BY ONLY <1>1, <1>6
  <2>2. IsCut(cut, words, n)
    BY <1>50, <2>1 DEF IsCut, Drop
  <2>3. words \in Seq(Words)
    BY <1>1 DEF Tagged
  <2> HIDE DEF n
  <2>4. IsList(words)
    BY <2>3, ListOver
  <2>5. Len(cut) = n /\ DOMAIN cut = 1..n /\ (\A i \in 1..n : cut[i] = words[i]) /\ (\A i \in 1..n : i \in DOMAIN words)
    BY ONLY <2>1, <2>2, <2>4, ListCutTo
  <2>6. cut \in Seq(Words)
    <3>1. cut = SubSeq(words, 1, n) /\ 1 \in 1..(Len(words) + 1) /\ n \in 0..Len(words)
      BY <1>1, <2>1, <2>2 DEF IsCut
    <3> QED BY <2>3, <3>1, SubSeqProperties
  <2> QED BY <2>5, <2>6 DEF n
<1>14. /\ stack' \in Seq(Words) /\ Len(stack') = low /\ stack'[low] = v
       /\ \A i \in 1..(low - 1) : stack'[i] = words[i]
  <2>1. stack' = Append(cut, v)
    BY <1>4 DEF IsAppended
  <2>2. /\ stack' \in Seq(Words) /\ Len(stack') = Len(cut) + 1 /\ (\A i \in 1..Len(cut) : stack'[i] = cut[i])
        /\ stack'[Len(cut) + 1] = v
    BY <1>12, <1>13, <2>1, AppendProperties
  <2>3. Len(cut) + 1 = low
    BY ONLY <1>1, <1>13
  <2> QED BY <1>13, <2>2, <2>3
<1>15. \A i \in DOMAIN stack' : stack'[i].tag => stack'[i].n \in DOMAIN heap'
  <2> SUFFICES ASSUME NEW i \in DOMAIN stack', stack'[i].tag
               PROVE  stack'[i].n \in DOMAIN heap'
    OBVIOUS
  <2>1. i \in 1..low
    BY <1>14, LenProperties
  <2>2. CASE i = low
    BY <1>12, <1>14, <2>2
  <2>3. CASE i # low
    <3>1. i \in 1..(low - 1) /\ i \in 1..Len(words)
      BY ONLY <1>1, <2>1, <2>3
    <3>2. i \in DOMAIN words /\ stack'[i] = words[i]
      BY <1>1, <1>14, <3>1, LenProperties DEF Tagged
    <3> QED BY <1>1, <1>8, <3>2 DEF Tagged
  <2> QED BY <2>2, <2>3
<1>16. Typed(heap', stack', bindings, reg_1, exception_reg)
  BY <1>2, <1>8, <1>14, <1>15 DEF Typed, IsRef
<1>17. SameTo(stack', stack, low - 1) /\ SameTo(bindings, bindings, blow)
  <2>1. \A i \in 1..(low - 1) : i \in 1..low
    BY ONLY <1>1
  <2> QED BY <1>1, <1>14, <2>1 DEF SameTo
<1>18. Resumes(chunk, L, A, heap, stack, bindings, fr, m, low, blow, g, k, heap', READY, stack', bindings, reg_1, exception_reg)
  BY <1>2, <1>11, <1>12, <1>14, <1>16, <1>17, <1>50 DEF Resumes
<1>19. /\ InFrame(chunk, L, A, heap', stack', bindings, reg_1, exception_reg, g.at, fr, k, g.low, g.base, g.blow)
       /\ Waits(L[g.at]) /\ stack[low] = Raw(g.at)
  BY ONLY <1>18, Resumed
<1>20. at = g.at
  <2>1. Len(words) - count = low /\ low \in 1..low
    BY ONLY <1>1, <1>6
  <2>2. words[low] = stack[low]
    BY <1>1, <2>1 DEF SameTo
  <2> QED BY <1>19, <1>50, <2>1, <2>2 DEF Raw
<1>21. KeepsTo(chunk, L, A, heap', stack', bindings, reg_1, exception_reg, at)
  <2>1. L[g.at].mode # RETURNING
    BY <1>19, WaitingModes
  <2> QED BY <1>5, <1>19, <1>20, <2>1 DEF KeepsTo, Kept, Suspended
<1> QED BY <1>4, <1>21 DEF Sound, GoesOnWell, JumpTo, outside

\* HANDLE_CONTINUATION, with what it computes first.
Handles(closure, arity, count, words, popped) ==
  /\ stack_len' = Grown(Len(stack) - 2, Len(words))
  /\ CASE count < arity ->
            /\ Len(heap) < MaxHeap
            /\ heap' = Append(heap, Object("application", 0, popped, closure, FALSE))
            /\ stack' = Append(Drop(words, count + 1), Val(Len(heap) + 1))
            /\ JumpTo(words[Len(words) - count].n)
            /\ UNCHANGED reg_1
       [] count = arity ->
            /\ stack' = words
            /\ reg_1' = Val(closure)
            /\ JumpTo(info(closure).address)
            /\ UNCHANGED heap
       [] OTHER ->
            /\ stack' = Drop(words, arity)
                          \o <<Raw(count - arity), Raw(address_of_global("APPL_CONT"))>>
                          \o SubSeq(words, Len(words) - arity + 1, Len(words))
            /\ reg_1' = Val(closure)
            /\ JumpTo(info(closure).address)
            /\ UNCHANGED heap
  /\ UNCHANGED bindings
\* A function that came back is given the arguments that waited for it.
LEMMA HANDLE_CONTINUATION_Sound ==
  ASSUME NEW L, NEW A, NEW fr, NEW m, NEW low, NEW base, NEW blow, Running(L, A, fr, m, low, base, blow),
         ObeysHere(L, A), Verified(chunk, L, A), HANDLE_CONTINUATION
  PROVE  Sound(L, A)
<1> DEFINE l == L[ip]
           val == Ref(0)
           partial == Obj(0).type = "application"
           held == IF partial THEN Obj(0).fields ELSE <<>>
           closure == IF partial THEN Obj(0).link ELSE Ref(0)
           arity == info(closure).arity
           count == Word(1).n + Len(held)
           words == Drop(stack, 2) \o Vals(Reverse(held))
           popped == [i \in 1..count |-> words[Len(words) - i + 1].n]
           at == GlobalAt(chunk, "APPL_CONT")
           e == count - arity
           two == 2
<1>1. op = "HANDLE_CONTINUATION" /\ (Obj(0).type \in {"closure", "application"} => UNCHANGED bindings)
  BY DEF HANDLE_CONTINUATION, Op
<1>2. Enters(chunk, L, ip)
  BY <1>1, EntersHere DEF EnterOps
<1>3. /\ l.mode = APPLYING /\ l.place = "function" /\ l.binds = <<>> /\ Len(l.words) = 1 /\ HasReferences(l, 1)
  BY <1>1, <1>2, HereIs DEF Enters, Here
<1>4. /\ ~IsMade(l.mode) /\ l.mode # FAILING
  BY <1>3 DEF APPLYING, FAILING, IsMade, Kind
<1>5. /\ Typed(heap, stack, bindings, reg_1, exception_reg) /\ Current(heap, stack, bindings, reg_1, low, base, blow, l)
      /\ low \in Nat /\ base \in Nat /\ blow \in Nat /\ IsPlace(l, m)
      /\ Stacked(L, heap, stack, bindings, fr, m, low, blow) /\ Len(stack) \in Nat
  BY TypedHere DEF Running, InFrame
<1>6. Arguments(heap, stack, low, base) /\ Len(stack) = base + 1 /\ Len(bindings) = blow /\ m # 0
  <2>1. Len(l.binds) = 0
    BY <1>3
  <2>2. Underneath(heap, stack, low, base, l) /\ Len(stack) = base + 1 /\ Len(bindings) = blow + 0
    BY <1>3, <1>4, <1>5, <2>1 DEF Current
  <2>3. m # 0
    BY <1>3, <1>5 DEF IsPlace
  <2> QED BY <1>3, <1>5, <2>2, <2>3 DEF Underneath
<1>7. val \in DOMAIN heap
  <2>1. Known(heap, Word(0), FromTop(l.words, 0), blow) /\ IsReference(FromTop(l.words, 0))
    BY <1>3, WordHere DEF HasReferences
  <2> QED BY <2>1 DEF Known, IsRef, Ref
<1>8. CASE Obj(0).type \notin {"closure", "application"}
  <2>1. runtime_error
    BY <1>8, Zenon DEF HANDLE_CONTINUATION
  <2> QED BY <2>1, ErrorHere
<1>9. CASE Obj(0).type \in {"closure", "application"}
  <2>1. Handles(closure, arity, count, words, popped)
    BY <1>9, Zenon DEF HANDLE_CONTINUATION, Handles
  <2>2. /\ Shaped(Obj(0), heap, chunk, A) /\ Filled(Obj(0), heap)
    BY <1>4, <1>7, ObjectHere DEF Obj
  <2>3. closure \in DOMAIN heap /\ heap[closure].type = "closure"
    BY <1>7, <1>9, <2>2 DEF Shaped, Obj
  <2>4. Within(held, heap)
    BY <2>2 DEF Shaped, Filled, Within
  <2>5. Tagged(heap, stack)
    BY <1>5 DEF Typed, Tagged
  <2>6. Word(1) = stack[base]
    BY <1>5, <1>6 DEF Word
  <2>7. IsReplaced(words, stack, two, Vals(Reverse(held))) /\ count = stack[base].n + Len(held) /\ two = 2
    BY <2>6 DEF IsReplaced
  <2>8. address_of_global("APPL_CONT") = at
    BY GlobalHere
  <2>50. e = count - arity /\ arity = info(closure).arity /\ at = GlobalAt(chunk, "APPL_CONT")
    OBVIOUS
  <2> HIDE DEF val, partial, held, closure, arity, count, words, popped, at, e, two
  <2>9. Gathered(heap, stack, low, words, count)
    BY <1>5, <1>6, <2>4, <2>5, <2>7, Gathers
  <2>10. arity \in Nat /\ count \in Nat
    <3>1. arity \in Nat
      BY <1>4, <2>3, <2>50, InfoHere
    <3> QED BY <2>9, <3>1 DEF Gathered
  <2>14. /\ count < arity => Holds(words, count, closure, popped) /\ UNCHANGED <<reg_1, bindings>>
         /\ count = arity => /\ stack' = words /\ reg_1' = Val(closure) /\ JumpTo(info(closure).address)
                             /\ UNCHANGED <<heap, bindings>>
         /\ ~(count < arity) /\ count # arity =>
              /\ stack' = Drop(words, arity) \o <<Raw(count - arity), Raw(address_of_global("APPL_CONT"))>>
                            \o SubSeq(words, Len(words) - arity + 1, Len(words))
              /\ reg_1' = Val(closure) /\ JumpTo(info(closure).address)
              /\ UNCHANGED <<heap, bindings>>
    <3>0. popped = [i \in 1..count |-> words[Len(words) - i + 1].n]
      BY DEF popped
    <3>1. CASE count < arity
      <4>1. count # arity
        BY ONLY <2>10, <3>1
      <4> QED BY <2>1, <3>0, <3>1, <4>1 DEF Handles, Holds
    <3>2. CASE count = arity
      <4>1. ~(count < arity)
        BY ONLY <2>10, <3>2
      <4> QED BY <2>1, <3>2, <4>1 DEF Handles
    <3>3. CASE ~(count < arity) /\ count # arity
      BY <2>1, <3>3 DEF Handles
    <3> QED BY <3>1, <3>2, <3>3
  <2>11. CASE count < arity
    BY <1>4, <1>6, <2>14, <2>3, <2>9, <2>11, GatheredFew
  <2>12. CASE ~(count < arity)
    <3>1. /\ reg_1' = Val(closure) /\ JumpTo(info(closure).address) /\ UNCHANGED <<heap, bindings>>
      BY <2>14, <2>12
    <3>2. arity <= count /\ (e = 0 <=> count = arity)
      BY ONLY <2>10, <2>12, <2>50
    <3>3. WithoutThem(stack', words, arity, e, at)
      <4>1. CASE count = arity
        BY <2>14, <3>2, <4>1 DEF WithoutThem
      <4>2. CASE count # arity
        BY <2>14, <2>8, <2>12, <2>50, <3>2, <4>2 DEF WithoutThem
      <4> QED BY <4>1, <4>2
    <3> QED BY <1>4, <1>6, <2>3, <2>9, <2>50, <3>1, <3>2, <3>3, GatheredCall
  <2> QED BY <2>11, <2>12
<1> QED BY <1>8, <1>9

-----------------------------------------------------------------------------

(***************************************************************************)
(* Every chunk survives in a file: what chunk_from makes of the cells that *)
(* write_chunk_to wrote is the chunk, and of fewer of them nothing.        *)
(***************************************************************************)
\* The cells of list are in the file behind the first so many cells.
HasAt(file, before, list) ==
  /\ before \in Nat /\ before + Len(list) <= Len(file)
  /\ \A i \in 1..Len(list) : file[before + i] = list[i]
\* What is left of a file of which so many cells were written.
IsBeginning(part, file, written) ==
  /\ written \in 0..Len(file) /\ Len(part) = written
  /\ \A i \in 1..written : part[i] = file[i]
Read(position, data) == [ok |-> TRUE, position |-> position, data |-> data]

-----------------------------------------------------------------------------
(* Sequences.                                                              *)
(* What lies in a part of a list lies in the list.                         *)
LEMMA InFront ==
  ASSUME NEW S, NEW s \in Seq(S), NEW t \in Seq(S), NEW st, st = s \o t,
         NEW list \in Seq(S), NEW p, HasAt(s, p, list)
  PROVE  HasAt(st, p, list)
<1> DEFINE n == Len(s)
           m == Len(t)
           l == Len(list)
<1>1. /\ Len(st) = n + m /\ n \in Nat /\ m \in Nat /\ l \in Nat
      /\ \A i \in 1..n : st[i] = s[i]
  BY Concatenated, LenProperties
<1>2. p \in Nat /\ p + l <= n /\ \A i \in 1..l : s[p + i] = list[i]
  BY DEF HasAt
<1> HIDE DEF n, m, l
<1>3. p + l <= n + m
  BY <1>1, <1>2
<1>4. \A i \in 1..l : p + i \in 1..n
  BY <1>1, <1>2
<1>5. \A i \in 1..l : st[p + i] = list[i]
  BY <1>1, <1>2, <1>4
<1> QED BY <1>1, <1>2, <1>3, <1>5 DEF HasAt, l

\* A list behind another one.
LEMMA AtTheEnd ==
  ASSUME NEW S, NEW s \in Seq(S), NEW t \in Seq(S), NEW st, st = s \o t
  PROVE  HasAt(st, Len(s), t)
<1>1. /\ Len(st) = Len(s) + Len(t) /\ Len(s) \in Nat /\ Len(t) \in Nat
      /\ \A i \in 1..Len(t) : st[Len(s) + i] = t[i]
  BY Concatenated
<1> QED BY <1>1 DEF HasAt

-----------------------------------------------------------------------------
(* Reading cells: those that are there, or nothing.                        *)
LEMMA ReadsCells ==
  ASSUME NEW S, NEW file \in Seq(S), NEW part \in Seq(S), NEW written, IsBeginning(part, file, written),
         NEW list \in Seq(S), NEW p, HasAt(file, p, list)
  PROVE  read_cells(part, p, Len(list))
           = IF p + Len(list) <= written THEN Read(p + Len(list), list) ELSE Unreadable
<1> DEFINE l == Len(list)
           n == Len(file)
           data == SubSeq(part, p + 1, p + l)
<1>1. l \in Nat /\ n \in Nat
  BY LenProperties
<1>2. /\ p \in Nat /\ p + l <= n /\ \A i \in 1..l : file[p + i] = list[i]
      /\ written \in 0..n /\ Len(part) = written /\ \A i \in 1..written : part[i] = file[i]
  BY DEF HasAt, IsBeginning
<1>3. read_cells(part, p, l) = IF p + l > Len(part) THEN Unreadable ELSE Read(p + l, data)
  BY DEF read_cells, Read
<1> HIDE DEF l, n
<1>4. ASSUME p + l <= written
      PROVE  data = list
  <2>1. \A i \in (p + 1)..(p + l) : i \in 1..written
    BY <1>1, <1>2, <1>4
  <2>2. \A i \in (p + 1)..(p + l) : part[i] \in S
    BY <1>2, <2>1, ElementOfSeq
  <2>3. /\ data \in Seq(S) /\ Len(data) = IF p + 1 <= p + l THEN p + l - (p + 1) + 1 ELSE 0
        /\ \A i \in 1..(p + l - (p + 1) + 1) : data[i] = part[p + 1 + i - 1]
    BY <1>1, <1>2, <2>2, SubSeqProperties
  <2> HIDE DEF data
  <2>4. Len(data) = l
    BY <1>1, <1>2, <2>3
  <2>5. ASSUME NEW i \in 1..l
        PROVE  data[i] = list[i]
    <3>1. i \in 1..(p + l - (p + 1) + 1) /\ p + 1 + i - 1 = p + i /\ p + i \in (p + 1)..(p + l)
      BY <1>1, <1>2
    <3>2. data[i] = part[p + i]
      BY <2>3, <3>1
    <3> QED BY <1>2, <2>1, <3>1, <3>2
  <2> QED BY <1>1, <2>3, <2>4, <2>5, SameSeq DEF l
<1>5. p + l > written <=> ~(p + l <= written)
  BY <1>1, <1>2
<1> QED BY <1>2, <1>3, <1>4, <1>5 DEF l

(* Reading a list of which the file has the length, so many more than are  *)
(* saved, and the cells.                                                   *)
LEMMA ReadsList ==
  ASSUME NEW S, NEW file \in Seq(S), NEW part \in Seq(S), NEW written, IsBeginning(part, file, written),
         NEW list \in Seq(S), NEW p, NEW not_saved \in Nat, NEW count \in S, count = Len(list) + not_saved,
         HasAt(file, p, <<count>>), HasAt(file, p + 1, list), NEW data
  PROVE  /\ read_list(part, Read(p, data), not_saved)
              = IF p + 1 + Len(list) <= written THEN Read(p + 1 + Len(list), list) ELSE Unreadable
         /\ read_list(part, Unreadable, not_saved) = Unreadable
<1> DEFINE prev == Read(p, data)
           l == Len(list)
<1>1. /\ p \in Nat /\ Len(<<count>>) = 1 /\ p + 1 <= Len(file) /\ file[p + 1] = count
      /\ written \in Nat /\ Len(part) = written /\ l \in Nat
      /\ \A i \in 1..written : part[i] = file[i]
  <2>1. Len(<<count>>) = 1 /\ <<count>>[1] = count /\ 1 \in 1..1 /\ l \in Nat /\ Len(file) \in Nat
    BY LenProperties
  <2> QED BY <2>1 DEF HasAt, IsBeginning
<1>2. prev.ok = TRUE /\ prev.position = p /\ Unreadable.ok = FALSE
  BY DEF Read, Unreadable
<1>3. read_list(part, Unreadable, not_saved) = Unreadable
  BY <1>2 DEF read_list
<1>4. read_list(part, prev, not_saved)
        = IF p + 1 > written THEN Unreadable ELSE read_cells(part, p + 1, part[p + 1] - not_saved)
  BY <1>1, <1>2 DEF read_list
<1>5. read_cells(part, p + 1, l)
        = IF p + 1 + l <= written THEN Read(p + 1 + l, list) ELSE Unreadable
  BY ReadsCells
<1> HIDE DEF prev, l
<1>6. CASE p + 1 > written
  <2>1. ~(p + 1 + l <= written)
    BY <1>1, <1>6
  <2> QED BY <1>3, <1>4, <1>6, <2>1 DEF prev, l
<1>7. CASE ~(p + 1 > written)
  <2>1. p + 1 \in 1..written
    BY <1>1, <1>7
  <2>2. part[p + 1] - not_saved = l
    BY <1>1, <2>1 DEF l
  <2> QED BY <1>3, <1>4, <1>5, <1>7, <2>2 DEF prev, l
<1> QED BY <1>6, <1>7

-----------------------------------------------------------------------------
(* The names, one behind the other, and where each of them is.             *)
LEMMA NameCells ==
  ASSUME NEW A, NEW names \in Seq(Seq(A))
  PROVE  /\ name_cells(names) \in [0..Len(names) -> Seq(A)] /\ name_cells(names)[0] = << >>
         /\ \A k \in 1..Len(names) : name_cells(names)[k] = name_cells(names)[k - 1] \o names[k]
<1> DEFINE n == Len(names)
           B == Seq(A)
           none == << >>
           step == [k \in 1..n |-> [s \in B |-> s \o names[k]]]
           Is(f) == f = [k \in 0..n |-> IF k = 0 THEN << >> ELSE f[k - 1] \o names[k]]
           cells == name_cells(names)
<1>11. none \in B /\ n \in Nat
  OBVIOUS
<1>12. \A k \in 1..n : names[k] \in B
  OBVIOUS
<1>13. step \in [1..n -> [B -> B]]
  <2> HIDE DEF n
  <2>1. ASSUME NEW k \in 1..n
        PROVE  [s \in B |-> s \o names[k]] \in [B -> B]
    <3>1. \A s \in B : s \o names[k] \in B
      BY <1>12
    <3> QED BY <3>1
  <2> QED BY <2>1
<1>1. none \in B /\ n \in Nat /\ step \in [1..n -> [B -> B]]
  BY <1>11, <1>13
<1>2. PICK f \in [0..n -> B] : f[0] = none /\ \A k \in 1..n : f[k] = step[k][f[k - 1]]
  <2> HIDE DEF step, B, n, none
  <2> QED BY ONLY <1>1, Iterated, SMTT(30)
<1>3. Is(f)
  <2>1. \A k \in 0..n : f[k] = IF k = 0 THEN << >> ELSE f[k - 1] \o names[k]
    <3> SUFFICES ASSUME NEW k \in 0..n, k # 0
                 PROVE  f[k] = f[k - 1] \o names[k]
      BY <1>2
    <3>1. k \in 1..n /\ k - 1 \in 0..n
      BY <1>1
    <3>2. f[k] = step[k][f[k - 1]] /\ f[k - 1] \in B
      BY <1>2, <3>1
    <3> QED BY <3>1, <3>2
  <2> QED BY <1>2, <2>1
<1>4. Is(cells)
  BY <1>3, Zenon DEF name_cells
<1> HIDE DEF cells
<1>5. /\ cells[0] = << >> /\ DOMAIN cells = 0..n
      /\ \A k \in 1..n : cells[k] = cells[k - 1] \o names[k]
  <2>1. 0 \in 0..n /\ \A k \in 1..n : k \in 0..n /\ k # 0
    BY <1>1
  <2> QED BY <1>4, <2>1
<1>6. \A k \in 0..n : cells[k] \in B
  <2> DEFINE T == { k \in 0..n : cells[k] \in B }
  <2>1. \A k \in 1..n : names[k] \in Seq(A) /\ k \in 0..n
    BY <1>1
  <2> HIDE DEF n
  <2>2. 0 \in T
    <3>1. 0 \in 0..n /\ << >> \in B
      BY <1>1
    <3> QED BY <1>5, <3>1
  <2>3. ASSUME NEW k \in 1..n, k - 1 \in T
        PROVE  k \in T
    <3>1. cells[k - 1] \in Seq(A) /\ names[k] \in Seq(A)
      BY <2>1, <2>3
    <3>2. cells[k - 1] \o names[k] \in Seq(A)
      BY <3>1, ConcatProperties
    <3> QED BY <1>5, <2>1, <3>2
  <2> HIDE DEF T
  <2>4. 0..n \subseteq T
    BY <1>1, <2>2, <2>3, UpTo
  <2> QED BY <2>4 DEF T
<1>7. cells \in [0..n -> B]
  BY <1>4, <1>6
<1> QED BY <1>5, <1>7 DEF cells

\* Where each name lies among the cells of all of them.
LEMMA NamePlaces ==
  ASSUME NEW A, NEW names \in Seq(Seq(A)), NEW k \in 1..Len(names)
  PROVE  LET cells == name_cells(names)
             all == cells[Len(names)]
         IN /\ HasAt(all, Len(cells[k - 1]), names[k])
            /\ Len(cells[k - 1]) \in Nat /\ Len(names[k]) \in Nat
            /\ Len(cells[k]) = Len(cells[k - 1]) + Len(names[k])
<1> DEFINE n == Len(names)
           cells == name_cells(names)
           p == Len(cells[k - 1])
           T == { m \in 0..n : k <= m => HasAt(cells[m], p, names[k]) }
<1>1. /\ cells \in [0..n -> Seq(A)] /\ cells[0] = << >> /\ n \in Nat
      /\ \A m \in 1..n : cells[m] = cells[m - 1] \o names[m]
  BY NameCells, LenProperties
<1>2. \A m \in 1..n : names[m] \in Seq(A) /\ m \in 0..n /\ m - 1 \in 0..n
  BY <1>1
<1>3. 0 \in T
  BY <1>1
<1>4. ASSUME NEW m \in 1..n, m - 1 \in T
      PROVE  m \in T
  <2>1. /\ cells[m] = cells[m - 1] \o names[m] /\ m - 1 \in 0..n /\ m \in 0..n
        /\ cells[m - 1] \in Seq(A) /\ names[m] \in Seq(A) /\ names[k] \in Seq(A)
    BY <1>1, <1>2
  <2>2. CASE k <= m - 1
    <3>1. HasAt(cells[m - 1], p, names[k])
      BY <1>4, <2>2
    <3> HIDE DEF cells, p
    <3>2. HasAt(cells[m], p, names[k])
      BY <2>1, <3>1, InFront
    <3> QED BY <2>1, <3>2
  <2>3. CASE m = k
    <3>1. HasAt(cells[k], p, names[k])
      <4> HIDE DEF cells
      <4> QED BY <2>1, <2>3, AtTheEnd
    <3> QED BY <2>1, <2>3, <3>1
  <2>4. CASE ~(k <= m)
    BY <2>1, <2>4
  <2>5. k <= m - 1 \/ m = k \/ ~(k <= m)
    BY <1>1
  <2> QED BY <2>2, <2>3, <2>4, <2>5
<1>5. 0..n \subseteq T
  <2> HIDE DEF T
  <2> QED BY <1>1, <1>3, <1>4, UpTo
<1>6. n \in T /\ k <= n
  <2>1. n \in 0..n /\ k <= n
    BY <1>1
  <2> HIDE DEF T
  <2> QED BY <1>5, <2>1
<1>7. HasAt(cells[n], p, names[k])
  BY <1>6
<1>8. Len(cells[k]) = p + Len(names[k]) /\ p \in Nat /\ Len(names[k]) \in Nat
  <2>1. cells[k - 1] \in Seq(A) /\ names[k] \in Seq(A) /\ cells[k] = cells[k - 1] \o names[k]
    BY <1>1, <1>2
  <2> HIDE DEF cells
  <2> QED BY <2>1, Concatenated
<1> QED BY <1>7, <1>8

\* What lies in a part of a file lies in the file.
LEMMA Inside ==
  ASSUME NEW S, NEW all \in Seq(S), NEW list \in Seq(S), NEW file \in Seq(S), NEW p, HasAt(file, p, all),
         NEW q, HasAt(all, q, list)
  PROVE  HasAt(file, p + q, list)
<1> DEFINE n == Len(file)
           m == Len(all)
           l == Len(list)
<1>1. n \in Nat /\ m \in Nat /\ l \in Nat
  BY LenProperties
<1>2. /\ p \in Nat /\ p + m <= n /\ \A i \in 1..m : file[p + i] = all[i]
      /\ q \in Nat /\ q + l <= m /\ \A i \in 1..l : all[q + i] = list[i]
  BY DEF HasAt
<1> HIDE DEF n, m, l
<1>3. p + q \in Nat /\ p + q + l <= n
  BY <1>1, <1>2
<1>4. ASSUME NEW i \in 1..l
      PROVE  file[p + q + i] = list[i]
  <2>1. q + i \in 1..m /\ p + (q + i) = p + q + i
    BY <1>1, <1>2
  <2> QED BY <1>2, <2>1
<1> QED BY <1>3, <1>4 DEF HasAt, n, l

(* The first elements of a list, one more at a time.                       *)
LEMMA FirstOf ==
  ASSUME NEW S, NEW s \in Seq(S)
  PROVE  /\ SubSeq(s, 1, 0) = << >> /\ SubSeq(s, 1, Len(s)) = s
         /\ \A k \in 1..Len(s) : SubSeq(s, 1, k) = Append(SubSeq(s, 1, k - 1), s[k])
<1> DEFINE n == Len(s)
<1>1. n \in Nat /\ \A i \in 1..n : s[i] \in S
  BY LenProperties
<1> HIDE DEF n
<1>2. \A k \in 0..n : /\ SubSeq(s, 1, k) \in Seq(S) /\ Len(SubSeq(s, 1, k)) = k
                      /\ \A i \in 1..k : SubSeq(s, 1, k)[i] = s[i]
  <2> SUFFICES ASSUME NEW k \in 0..n
               PROVE  /\ SubSeq(s, 1, k) \in Seq(S) /\ Len(SubSeq(s, 1, k)) = k
                      /\ \A i \in 1..k : SubSeq(s, 1, k)[i] = s[i]
    OBVIOUS
  <2>1. k \in Nat /\ \A i \in 1..k : s[i] \in S
    BY <1>1
  <2> QED BY <2>1, SubSeqProperties
<1>3. SubSeq(s, 1, 0) = << >>
  BY <1>1, <1>2, EmptySeq
<1>4. SubSeq(s, 1, n) = s
  <2>1. n \in 0..n
    BY <1>1
  <2>2. SubSeq(s, 1, n) \in Seq(S) /\ Len(SubSeq(s, 1, n)) = n
        /\ \A i \in 1..n : SubSeq(s, 1, n)[i] = s[i]
    BY <1>2, <2>1
  <2> DEFINE t == SubSeq(s, 1, n)
  <2> HIDE DEF t
  <2>3. t = s
    BY <1>1, <2>2, SameSeq DEF t, n
  <2> QED BY <2>3 DEF t
<1>5. ASSUME NEW k \in 1..n
      PROVE  SubSeq(s, 1, k) = Append(SubSeq(s, 1, k - 1), s[k])
  <2> DEFINE t == SubSeq(s, 1, k)
             u == SubSeq(s, 1, k - 1)
             v == Append(u, s[k])
  <2>1. k \in 0..n /\ k - 1 \in 0..n /\ k \in Nat /\ k - 1 + 1 = k /\ s[k] \in S
    BY <1>1
  <2>2. /\ t \in Seq(S) /\ Len(t) = k /\ \A i \in 1..k : t[i] = s[i]
        /\ u \in Seq(S) /\ Len(u) = k - 1 /\ \A i \in 1..(k - 1) : u[i] = s[i]
    BY <1>2, <2>1
  <2> HIDE DEF t, u
  <2>3. v \in Seq(S) /\ Len(v) = k /\ v[k] = s[k] /\ \A i \in 1..(k - 1) : v[i] = u[i]
    BY <2>1, <2>2, AppendProperties
  <2> HIDE DEF v
  <2>4. ASSUME NEW i \in 1..k
        PROVE  t[i] = v[i]
    <3>1. i = k \/ i \in 1..(k - 1)
      BY <2>1
    <3> QED BY <2>2, <2>3, <3>1
  <2>5. t = v
    BY <2>1, <2>2, <2>3, <2>4, SameSeq
  <2> QED BY <2>5 DEF t, u, v
<1> QED BY <1>3, <1>4, <1>5 DEF n

\* The data of a read are exchanged.
LEMMA ReadNothing ==
  ASSUME NEW p, NEW data, NEW none
  PROVE  [Read(p, data) EXCEPT !.data = none] = Read(p, none)
<1> DEFINE r == Read(p, data)
           s == [r EXCEPT !.data = none]
<1>1. DOMAIN r = {"ok", "position", "data"} /\ r.ok = TRUE /\ r.position = p
  BY DEF Read
<1>2. r = [i \in DOMAIN r |-> r[i]]
  BY DEF Read
<1> HIDE DEF r
<1>3. s = [i \in DOMAIN r |-> IF i = "data" THEN none ELSE r[i]]
  BY <1>2
<1> HIDE DEF s
<1>4. s = Read(p, none)
  BY <1>1, <1>3 DEF Read
<1> QED BY <1>4 DEF s, r

\* Behind what could not be read no name is read.
LEMMA ReadsNoName ==
  ASSUME NEW part, NEW entry
  PROVE  read_name(part, Unreadable, entry) = Unreadable
BY DEF read_name, Unreadable

(* One name more is read behind those that were.                           *)
LEMMA ReadsName ==
  ASSUME NEW S, NEW file \in Seq(S), NEW part \in Seq(S), NEW written, IsBeginning(part, file, written),
         NEW name \in Seq(S), NEW q, HasAt(file, q, name), NEW before, NEW entry, entry.name_len = Len(name)
  PROVE  read_name(part, Read(q, before), entry)
           = IF q + Len(name) <= written THEN Read(q + Len(name), Append(before, name)) ELSE Unreadable
<1> DEFINE prev == Read(q, before)
           cells == read_cells(part, q, Len(name))
           after == q + Len(name)
<1>1. cells = IF after <= written THEN Read(after, name) ELSE Unreadable
  BY ReadsCells
<1>2. /\ Unreadable.ok = FALSE /\ prev.ok = TRUE /\ prev.position = q /\ prev.data = before
      /\ Read(after, name).ok = TRUE /\ Read(after, name).position = after /\ Read(after, name).data = name
  BY DEF Unreadable, Read
<1>3. read_name(part, prev, entry)
        = IF ~prev.ok \/ ~cells.ok THEN Unreadable
          ELSE [ok |-> TRUE, position |-> cells.position, data |-> Append(prev.data, cells.data)]
  BY <1>2 DEF read_name
<1> HIDE DEF after, cells, prev
<1>4. read_name(part, prev, entry) = IF after <= written THEN Read(after, Append(before, name)) ELSE Unreadable
  <2>1. CASE after <= written
    BY <1>1, <1>2, <1>3, <2>1 DEF Read
  <2>2. CASE ~(after <= written)
    BY <1>1, <1>2, <1>3, <2>2
  <2> QED BY <2>1, <2>2
<1> QED BY <1>4 DEF after, prev

(* The names of the types are read back.                                   *)
LEMMA ReadsNames ==
  ASSUME NEW S, NEW file \in Seq(S), NEW part \in Seq(S), NEW written, IsBeginning(part, file, written),
         NEW names \in Seq(Seq(S)), NEW p, NEW all, all = name_cells(names)[Len(names)],
         HasAt(file, p, all), p <= written
  PROVE  read_names(part, Read(p, [i \in DOMAIN names |-> TypeInfo(names[i])]))
           = IF p + Len(all) <= written THEN Read(p + Len(all), names) ELSE Unreadable
<1> DEFINE n == Len(names)
           infos == Read(p, [i \in DOMAIN names |-> TypeInfo(names[i])])
           at == [k \in 0..n |-> p + Len(name_cells(names)[k])]
           read == [k \in 0..n |-> IF at[k] <= written THEN Read(at[k], SubSeq(names, 1, k)) ELSE Unreadable]
           Is(f) == f = [k \in 0..n |->
                           IF k = 0 THEN [infos EXCEPT !.data = << >>]
                           ELSE read_name(part, f[k - 1], infos.data[k])]
           found == names_read(part, infos)
<1>1. /\ n \in Nat /\ DOMAIN names = 1..n /\ \A k \in 1..n : names[k] \in Seq(S)
      /\ p \in Nat /\ written \in Nat
      /\ name_cells(names) \in [0..n -> Seq(S)] /\ name_cells(names)[0] = << >>
  <2>1. n \in Nat /\ DOMAIN names = 1..n /\ \A k \in 1..n : names[k] \in Seq(S)
    BY LenProperties, ElementOfSeq
  <2>2. p \in Nat
    BY DEF HasAt
  <2>3. written \in Nat
    <3>1. written \in 0..Len(file) /\ Len(file) \in Nat
      BY LenProperties DEF IsBeginning
    <3> QED BY <3>1
  <2>4. name_cells(names) \in [0..n -> Seq(S)] /\ name_cells(names)[0] = << >>
    BY NameCells
  <2> QED BY <2>1, <2>2, <2>3, <2>4
<1>2. /\ at[0] = p /\ at[n] = p + Len(all)
      /\ \A k \in 0..n : at[k] \in Nat
      /\ \A k \in 1..n : /\ at[k] = at[k - 1] + Len(names[k])
                         /\ HasAt(file, at[k - 1], names[k])
                         /\ Len(names[k]) \in Nat
  <2>1. at[0] = p
    <3>1. at[0] = p + 0
      BY <1>1
    <3> QED BY <1>1, <3>1
  <2>2. at[n] = p + Len(all)
    BY <1>1
  <2>3. \A k \in 0..n : at[k] \in Nat
    BY <1>1, LenProperties
  <2>4. ASSUME NEW k \in 1..n
        PROVE  /\ at[k] = at[k - 1] + Len(names[k])
               /\ HasAt(file, at[k - 1], names[k])
               /\ Len(names[k]) \in Nat
    <3> DEFINE a == Len(name_cells(names)[k - 1])
               b == Len(name_cells(names)[k])
               c == Len(names[k])
    <3>1. HasAt(all, a, names[k]) /\ a \in Nat /\ c \in Nat /\ b = a + c
      BY NamePlaces
    <3>2. at[k] = p + b /\ at[k - 1] = p + a
      BY <1>1
    <3>3. all \in Seq(S) /\ names[k] \in Seq(S)
      <4>1. n \in 0..n
        BY <1>1
      <4> DEFINE cells == name_cells(names)
      <4>2. cells \in [0..n -> Seq(S)] /\ all = cells[n]
        BY <1>1
      <4> HIDE DEF cells, n
      <4> QED BY <1>1, <4>1, <4>2
    <3> HIDE DEF a, b, c, at
    <3>4. HasAt(file, p + a, names[k])
      BY <3>1, <3>3, Inside
    <3>5. p + b = p + a + c
      BY <1>1, <3>1
    <3> QED BY <3>1, <3>2, <3>4, <3>5 DEF c
  <2> QED BY <2>1, <2>2, <2>3, <2>4
<1>3. infos.data = [i \in 1..n |-> TypeInfo(names[i])] /\ infos.position = p /\ infos.ok = TRUE
  BY <1>1 DEF Read
<1>4. /\ SubSeq(names, 1, 0) = << >> /\ SubSeq(names, 1, n) = names
      /\ \A k \in 1..n : SubSeq(names, 1, k) = Append(SubSeq(names, 1, k - 1), names[k])
  BY FirstOf
<1>5. [infos EXCEPT !.data = << >>] = Read(p, << >>)
  <2> DEFINE data == [i \in DOMAIN names |-> TypeInfo(names[i])]
             none == << >>
  <2>1. infos = Read(p, data)
    OBVIOUS
  <2> HIDE DEF data, infos, none
  <2> QED BY <2>1, ReadNothing DEF none
<1>6. \A k \in 1..n : infos.data[k].name_len = Len(names[k])
  BY <1>3 DEF TypeInfo
<1>7. /\ \A k \in 0..n : read[k] = IF at[k] <= written THEN Read(at[k], SubSeq(names, 1, k)) ELSE Unreadable
      /\ DOMAIN read = 0..n
      /\ read = [k \in 0..n |-> read[k]]
  OBVIOUS
<1> HIDE DEF n, at, infos, read
<1>8. read[0] = [infos EXCEPT !.data = << >>]
  <2>1. 0 \in 0..n /\ at[0] <= written
    BY <1>1, <1>2
  <2> QED BY <1>2, <1>4, <1>5, <1>7, <2>1
<1>9. ASSUME NEW k \in 1..n
      PROVE  read[k] = read_name(part, read[k - 1], infos.data[k])
  <2> DEFINE before == SubSeq(names, 1, k - 1)
             q == at[k - 1]
             after == at[k]
             name == names[k]
             entry == infos.data[k]
  <2>1. k \in 0..n /\ k - 1 \in 0..n
    BY <1>1
  <2>2. /\ read[k - 1] = IF q <= written THEN Read(q, before) ELSE Unreadable
        /\ read[k] = IF after <= written THEN Read(after, Append(before, name)) ELSE Unreadable
    BY <1>4, <1>7, <2>1
  <2>3. after \in Nat /\ q \in Nat /\ Len(name) \in Nat /\ after = q + Len(name)
    BY <1>2, <2>1
  <2>4. name \in Seq(S)
    BY <1>1
  <2>8. HasAt(file, q, name)
    BY <1>2
  <2>9. entry.name_len = Len(name)
    BY <1>6
  <2> HIDE DEF before, q, after, name, entry
  <2>5. read_name(part, Read(q, before), entry)
          = IF q + Len(name) <= written THEN Read(q + Len(name), Append(before, name)) ELSE Unreadable
    BY <2>4, <2>8, <2>9, ReadsName
  <2>10. read_name(part, Unreadable, entry) = Unreadable
    BY ReadsNoName
  <2>6. CASE ~(q <= written)
    <3>1. ~(after <= written)
      BY <1>1, <2>3, <2>6
    <3> QED BY <2>2, <2>10, <2>6, <3>1 DEF entry
  <2>7. CASE q <= written
    BY <2>2, <2>3, <2>5, <2>7 DEF entry
  <2> QED BY <2>6, <2>7
<1>10. Is(read)
  <2>1. \A k \in 0..n : read[k] = IF k = 0 THEN [infos EXCEPT !.data = << >>]
                                  ELSE read_name(part, read[k - 1], infos.data[k])
    <3> SUFFICES ASSUME NEW k \in 0..n, k # 0
                 PROVE  read[k] = read_name(part, read[k - 1], infos.data[k])
      BY <1>8
    <3>1. k \in 1..n
      BY <1>1
    <3> QED BY <1>9, <3>1
  <2> QED BY <1>7, <2>1
<1>11. Len(infos.data) = n
  BY <1>1, <1>3
<1>12. Is(found)
  BY <1>10, <1>11, Zenon DEF names_read
<1> HIDE DEF found
<1>13. /\ found[0] = [infos EXCEPT !.data = << >>]
       /\ \A k \in 1..n : found[k] = read_name(part, found[k - 1], infos.data[k])
  <2>1. 0 \in 0..n /\ \A k \in 1..n : k \in 0..n /\ k # 0
    BY <1>1
  <2> QED BY <1>12, <2>1
<1>14. \A k \in 0..n : found[k] = read[k]
  <2> DEFINE T == { k \in 0..n : found[k] = read[k] }
  <2>1. 0 \in 0..n /\ \A k \in 1..n : k \in 0..n
    BY <1>1
  <2>2. 0 \in T
    BY <1>8, <1>13, <2>1
  <2>3. ASSUME NEW k \in 1..n, k - 1 \in T
        PROVE  k \in T
    BY <1>9, <1>13, <2>1, <2>3
  <2> HIDE DEF T
  <2>4. 0..n \subseteq T
    BY <1>1, <2>2, <2>3, UpTo
  <2> QED BY <2>4 DEF T
<1>15. read_names(part, infos) = read[n]
  <2>1. n \in 0..n
    BY <1>1
  <2> QED BY <1>11, <1>14, <2>1 DEF read_names, found
<1>16. read[n] = IF at[n] <= written THEN Read(at[n], names) ELSE Unreadable
  <2>1. n \in 0..n
    BY <1>1
  <2> QED BY <1>4, <1>7, <2>1
<1> QED BY <1>2, <1>15, <1>16 DEF infos

\* Nor are all of them.
LEMMA ReadsNoNames ==
  ASSUME NEW part
  PROVE  read_names(part, Unreadable) = Unreadable
<1> DEFINE found == names_read(part, Unreadable)
           first == [Unreadable EXCEPT !.data = << >>]
           Is(f) == f = [k \in 0..0 |-> IF k = 0 THEN first ELSE read_name(part, f[k - 1], Unreadable.data[k])]
<1>1. first = Unreadable /\ Len(Unreadable.data) = 0
  BY DEF Unreadable
<1> HIDE DEF first
<1>2. Is([k \in 0..0 |-> first])
  <2>1. \A k \in 0..0 : k = 0
    OBVIOUS
  <2> QED BY <2>1
<1>3. Is(found)
  BY <1>1, <1>2, Zenon DEF names_read, first
<1> HIDE DEF found
<1>4. found[0] = first
  BY <1>3
<1> QED BY <1>1, <1>4 DEF read_names, found

-----------------------------------------------------------------------------
(* The parts of a file.                                                    *)
LEMMA Joined ==
  ASSUME NEW S, NEW s \in Seq(S), NEW t \in Seq(S), NEW st, IsJoin(st, s, t)
  PROVE  st \in Seq(S)
BY ConcatProperties DEF IsJoin

\* Of two lists in a file the second begins where the first ends.
LEMMA TwoParts ==
  ASSUME NEW S, NEW s \in Seq(S), NEW t \in Seq(S), NEW st, IsJoin(st, s, t), NEW file \in Seq(S),
         NEW p, HasAt(file, p, st)
  PROVE  /\ HasAt(file, p, s) /\ HasAt(file, p + Len(s), t)
         /\ st \in Seq(S) /\ Len(st) = Len(s) + Len(t)
<1> DEFINE n == Len(s)
           m == Len(t)
<1>1. /\ n \in Nat /\ m \in Nat /\ st \in Seq(S) /\ Len(st) = n + m
      /\ \A i \in 1..n : st[i] = s[i]
      /\ \A i \in 1..m : st[n + i] = t[i]
  <2>1. st = s \o t
    BY DEF IsJoin
  <2> QED BY <2>1, Concatenated, LenProperties
<1>2. p \in Nat /\ p + (n + m) <= Len(file) /\ \A i \in 1..(n + m) : file[p + i] = st[i]
  BY <1>1 DEF HasAt
<1>3. Len(file) \in Nat
  BY LenProperties
<1> HIDE DEF n, m
<1>4. p + n <= Len(file) /\ p + n + m <= Len(file) /\ p + n \in Nat
  BY <1>1, <1>2, <1>3
<1>5. \A i \in 1..n : file[p + i] = s[i]
  <2>1. \A i \in 1..n : i \in 1..(n + m)
    BY <1>1
  <2> QED BY <1>1, <1>2, <2>1
<1>6. \A i \in 1..m : file[p + n + i] = t[i]
  <2>1. \A i \in 1..m : n + i \in 1..(n + m) /\ p + (n + i) = p + n + i
    BY <1>1, <1>2
  <2> QED BY <1>1, <1>2, <2>1
<1>7. HasAt(file, p, s)
  BY <1>2, <1>4, <1>5 DEF HasAt, n
<1>8. HasAt(file, p + n, t)
  BY <1>4, <1>6 DEF HasAt, m
<1> QED BY <1>1, <1>7, <1>8 DEF n, m

(* What lies behind the first part of a list.                              *)
LEMMA Behind ==
  ASSUME NEW S, NEW s \in Seq(S), NEW t \in Seq(S), NEW st, st = s \o t
  PROVE  SubSeq(st, Len(s) + 1, Len(st)) = t
<1> DEFINE n == Len(s)
           m == Len(t)
           u == SubSeq(st, n + 1, n + m)
<1>1. /\ n \in Nat /\ m \in Nat /\ st \in Seq(S) /\ Len(st) = n + m
      /\ \A i \in 1..m : st[n + i] = t[i] /\ t[i] \in S
  BY Concatenated, LenProperties, ElementOfSeq
<1> HIDE DEF n, m
<1>2. \A i \in (n + 1)..(n + m) : st[i] \in S
  <2> TAKE i \in (n + 1)..(n + m)
  <2>1. i \in 1..Len(st)
    BY <1>1
  <2> QED BY <1>1, <2>1, ElementOfSeq
<1>3. /\ u \in Seq(S) /\ Len(u) = IF n + 1 <= n + m THEN n + m - (n + 1) + 1 ELSE 0
      /\ \A i \in 1..(n + m - (n + 1) + 1) : u[i] = st[n + 1 + i - 1]
  BY <1>1, <1>2, SubSeqProperties
<1> HIDE DEF u
<1>4. Len(u) = m
  BY <1>1, <1>3
<1>5. ASSUME NEW i \in 1..m
      PROVE  u[i] = t[i]
  <2>1. i \in 1..(n + m - (n + 1) + 1) /\ n + 1 + i - 1 = n + i
    BY <1>1
  <2>2. u[i] = st[n + i]
    BY <1>3, <2>1
  <2> QED BY <1>1, <2>2
<1>6. u = t
  BY <1>1, <1>3, <1>4, <1>5, SameSeq DEF m
<1> QED BY <1>1, <1>6 DEF u, n

\* What was read up to a position in a part of a file.
Got(position, written, data) == IF position <= written THEN Read(position, data) ELSE Unreadable

\* A list that is wholly in the file is read as it was written.
LEMMA NextList ==
  ASSUME NEW S, NEW file \in Seq(S), NEW part \in Seq(S), NEW written, IsBeginning(part, file, written),
         NEW list \in Seq(S), NEW p, NEW not_saved \in Nat, NEW count \in S, count = Len(list) + not_saved,
         HasAt(file, p, <<count>>), HasAt(file, p + 1, list), NEW data, NEW q, q = p + 1 + Len(list)
  PROVE  read_list(part, Got(p, written, data), not_saved) = Got(q, written, list)
<1>1. read_list(part, Read(p, data), not_saved)
        = IF p + 1 + Len(list) <= written THEN Read(p + 1 + Len(list), list) ELSE Unreadable
  BY ReadsList
<1>2. read_list(part, Unreadable, not_saved) = Unreadable
  BY ReadsList
<1>3. p \in Nat /\ Len(list) \in Nat /\ written \in Nat
  <2>1. p \in Nat
    BY DEF HasAt
  <2>2. written \in 0..Len(file) /\ Len(file) \in Nat
    BY LenProperties DEF IsBeginning
  <2>3. Len(list) \in Nat
    BY LenProperties
  <2> QED BY <2>1, <2>2, <2>3
<1>4. CASE p <= written
  BY <1>1, <1>4 DEF Got
<1>5. CASE ~(p <= written)
  <2>1. ~(q <= written)
    BY <1>3, <1>5
  <2> QED BY <1>2, <1>5, <2>1 DEF Got
<1> QED BY <1>4, <1>5

\* So are the names.
LEMMA NextNames ==
  ASSUME NEW S, NEW file \in Seq(S), NEW part \in Seq(S), NEW written, IsBeginning(part, file, written),
         NEW names \in Seq(Seq(S)), NEW p, NEW all, all = name_cells(names)[Len(names)],
         HasAt(file, p, all), NEW infos, infos = [i \in DOMAIN names |-> TypeInfo(names[i])],
         NEW q, q = p + Len(all)
  PROVE  read_names(part, Got(p, written, infos)) = Got(q, written, names)
<1>1. CASE p <= written
  BY <1>1, ReadsNames DEF Got
<1>2. CASE ~(p <= written)
  <2>1. ~(q <= written)
    <3>1. p \in Nat
      BY DEF HasAt
    <3>2. written \in 0..Len(file) /\ Len(file) \in Nat
      BY LenProperties DEF IsBeginning
    <3>3. Len(all) \in Nat
      <4> DEFINE n == Len(names)
                 cells == name_cells(names)
      <4>1. n \in Nat /\ n \in 0..n
        BY LenProperties
      <4>2. cells \in [0..n -> Seq(S)]
        BY NameCells
      <4>3. all = cells[n]
        OBVIOUS
      <4> HIDE DEF n, cells
      <4>4. all \in Seq(S)
        BY <4>1, <4>2, <4>3
      <4> QED BY <4>4, LenProperties
    <3> QED BY <1>2, <3>1, <3>2, <3>3
  <2> QED BY <1>2, <2>1, ReadsNoNames DEF Got
<1> QED BY <1>1, <1>2

-----------------------------------------------------------------------------
(* A list with its length in front of it is read back.                     *)
LEMMA CountedParts ==
  ASSUME NEW S, NEW list \in Seq(S), NEW count \in S, NEW counted, IsJoin(counted, <<count>>, list),
         NEW file \in Seq(S), NEW p, HasAt(file, p, counted)
  PROVE  HasAt(file, p, <<count>>) /\ HasAt(file, p + 1, list) /\ Len(counted) = 1 + Len(list)
<1> DEFINE one == <<count>>
<1>1. one \in Seq(S)
  OBVIOUS
<1>4. Len(one) = 1
  OBVIOUS
<1>2. IsJoin(counted, one, list)
  BY DEF IsJoin
<1> HIDE DEF one
<1>3. HasAt(file, p, one) /\ HasAt(file, p + Len(one), list) /\ Len(counted) = Len(one) + Len(list)
  BY <1>1, <1>2, TwoParts
<1> QED BY <1>3, <1>4 DEF one

(* Where the parts of a chunk are in its file.                             *)
Parts(file, code, constants, closures, nt, infos, all, strings, p1, p2, p3, p4, p5) ==
  /\ HasAt(file, 0, <<HEADER>>)
  /\ HasAt(file, 1, <<Len(code)>>) /\ HasAt(file, 2, code) /\ p1 = 2 + Len(code)
  /\ HasAt(file, p1, <<Len(constants)>>) /\ HasAt(file, p1 + 1, constants) /\ p2 = p1 + 1 + Len(constants)
  /\ HasAt(file, p2, <<Len(closures)>>) /\ HasAt(file, p2 + 1, closures) /\ p3 = p2 + 1 + Len(closures)
  /\ HasAt(file, p3, <<nt>>) /\ HasAt(file, p3 + 1, infos) /\ p4 = p3 + 1 + Len(infos)
  /\ HasAt(file, p4, all) /\ p5 = p4 + Len(all)
  /\ HasAt(file, p5, <<Len(strings)>>) /\ HasAt(file, p5 + 1, strings)
  /\ Len(file) = p5 + 1 + Len(strings)

IsFile(file, code, constants, closures, nt, infos, all, strings) ==
  file = <<HEADER>> \o Counted(code) \o Counted(constants) \o Counted(closures)
           \o (<<nt>> \o infos \o all) \o Counted(strings)

\* The file has the header, then the lists in the order in which they are read.
LEMMA Layout ==
  ASSUME NEW S, Nat \subseteq S, HEADER \in S,
         NEW code \in Seq(S), NEW constants \in Seq(S), NEW closures \in Seq(S), NEW strings \in Seq(S),
         NEW nt \in Nat, NEW infos \in Seq(S), NEW all \in Seq(S),
         NEW file, IsFile(file, code, constants, closures, nt, infos, all, strings)
  PROVE  /\ file \in Seq(S)
         /\ \E p1, p2, p3, p4, p5 :
              Parts(file, code, constants, closures, nt, infos, all, strings, p1, p2, p3, p4, p5)
<1> DEFINE n1 == Len(code)
           n2 == Len(constants)
           n3 == Len(closures)
           n5 == Len(strings)
           h == <<HEADER>>
           c1 == <<n1>> \o code
           c2 == <<n2>> \o constants
           c3 == <<n3>> \o closures
           ti == <<nt>> \o infos
           t == ti \o all
           c5 == <<n5>> \o strings
           f1 == h \o c1
           f2 == f1 \o c2
           f3 == f2 \o c3
           f4 == f3 \o t
           p1 == Len(f1)
           p2 == Len(f2)
           p3 == Len(f3)
           p4 == p3 + Len(ti)
           p5 == Len(f4)
<1>1. n1 \in Nat /\ n2 \in Nat /\ n3 \in Nat /\ n5 \in Nat /\ Len(infos) \in Nat /\ Len(all) \in Nat
  BY LenProperties
<1>2. n1 \in S /\ n2 \in S /\ n3 \in S /\ n5 \in S /\ nt \in S
  BY <1>1
<1> HIDE DEF n1, n2, n3, n5
<1>3. h \in Seq(S)
  OBVIOUS
<1>32. Len(h) = 1
  OBVIOUS
<1>4. /\ c1 \in Seq(S) /\ c2 \in Seq(S) /\ c3 \in Seq(S) /\ ti \in Seq(S) /\ c5 \in Seq(S)
  <2>1. <<n1>> \in Seq(S) /\ <<n2>> \in Seq(S) /\ <<n3>> \in Seq(S) /\ <<n5>> \in Seq(S) /\ <<nt>> \in Seq(S)
    BY <1>2
  <2> QED BY <2>1, ConcatProperties
<1>5. IsJoin(file, f4, c5)
  BY DEF IsFile, IsJoin, Counted, n1, n2, n3, n5
<1> HIDE DEF h, c1, c2, c3, ti, c5
<1>30. /\ IsJoin(t, ti, all) /\ IsJoin(f1, h, c1) /\ IsJoin(f2, f1, c2) /\ IsJoin(f3, f2, c3)
       /\ IsJoin(f4, f3, t)
  BY DEF IsJoin
<1> HIDE DEF t, f1, f2, f3, f4
<1>6. t \in Seq(S)
  BY <1>4, <1>30, Joined
<1>7. f1 \in Seq(S)
  BY <1>3, <1>4, <1>30, Joined
<1>8. f2 \in Seq(S)
  BY <1>4, <1>7, <1>30, Joined
<1>9. f3 \in Seq(S)
  BY <1>4, <1>8, <1>30, Joined
<1>10. f4 \in Seq(S)
  BY <1>6, <1>9, <1>30, Joined
<1>11. file \in Seq(S)
  BY <1>4, <1>5, <1>10, Joined
<1>12. HasAt(file, 0, file)
  <2>1. Len(file) \in Nat /\ \A i \in 1..Len(file) : file[0 + i] = file[i]
    BY <1>11, LenProperties
  <2> QED BY <2>1 DEF HasAt
<1> DEFINE zero == 0
<1>13. HasAt(file, zero, file) /\ zero \in Nat
  BY <1>12
<1> HIDE DEF zero
<1>14. HasAt(file, zero, f4) /\ HasAt(file, zero + Len(f4), c5) /\ Len(file) = Len(f4) + Len(c5)
  BY ONLY <1>4, <1>5, <1>10, <1>11, <1>13, TwoParts
<1>15. HasAt(file, zero, f3) /\ HasAt(file, zero + Len(f3), t) /\ Len(f4) = Len(f3) + Len(t)
  <2>1. IsJoin(f4, f3, t)
    BY <1>30
  <2>2. HasAt(file, zero, f4)
    BY <1>14
  <2> QED BY ONLY <1>6, <1>9, <1>11, <1>13, <2>1, <2>2, TwoParts
<1>16. HasAt(file, zero, f2) /\ HasAt(file, zero + Len(f2), c3) /\ Len(f3) = Len(f2) + Len(c3)
  <2>1. IsJoin(f3, f2, c3)
    BY <1>30
  <2>2. HasAt(file, zero, f3) /\ c3 \in Seq(S)
    BY <1>4, <1>15
  <2> QED BY ONLY <1>8, <1>11, <1>13, <2>1, <2>2, TwoParts
<1>17. HasAt(file, zero, f1) /\ HasAt(file, zero + Len(f1), c2) /\ Len(f2) = Len(f1) + Len(c2)
  <2>1. IsJoin(f2, f1, c2)
    BY <1>30
  <2>2. HasAt(file, zero, f2) /\ c2 \in Seq(S)
    BY <1>4, <1>16
  <2> QED BY ONLY <1>7, <1>11, <1>13, <2>1, <2>2, TwoParts
<1>18. HasAt(file, zero, h) /\ HasAt(file, zero + Len(h), c1) /\ Len(f1) = Len(h) + Len(c1)
  <2>1. IsJoin(f1, h, c1)
    BY <1>30
  <2>2. HasAt(file, zero, f1) /\ c1 \in Seq(S)
    BY <1>4, <1>17
  <2> QED BY ONLY <1>3, <1>11, <1>13, <2>1, <2>2, TwoParts
<1>31. /\ HasAt(file, zero + p5, c5) /\ HasAt(file, zero + p3, t) /\ HasAt(file, zero + p2, c3)
       /\ HasAt(file, zero + p1, c2) /\ p1 = Len(h) + Len(c1) /\ p2 = p1 + Len(c2) /\ p3 = p2 + Len(c3)
       /\ p5 = p3 + Len(t) /\ Len(file) = p5 + Len(c5)
  BY <1>14, <1>15, <1>16, <1>17, <1>18
<1>19. p1 \in Nat /\ p2 \in Nat /\ p3 \in Nat /\ p5 \in Nat
  BY <1>7, <1>8, <1>9, <1>10, LenProperties
<1> HIDE DEF p1, p2, p3, p5
<1>20. /\ HasAt(file, p5, c5) /\ HasAt(file, p3, t) /\ HasAt(file, p2, c3) /\ HasAt(file, p1, c2)
       /\ HasAt(file, 1, c1)
  <2>1. zero + p5 = p5 /\ zero + p3 = p3 /\ zero + p2 = p2 /\ zero + p1 = p1 /\ zero + Len(h) = 1
    BY <1>32, <1>19 DEF zero
  <2> QED BY <1>18, <1>31, <2>1
<1>21. HasAt(file, p3, ti) /\ HasAt(file, p4, all) /\ Len(t) = Len(ti) + Len(all)
  BY <1>4, <1>11, <1>20, <1>30, TwoParts
<1>22. HasAt(file, 0, <<HEADER>>)
  BY <1>18 DEF zero, h
<1>23. HasAt(file, 1, <<n1>>) /\ HasAt(file, 2, code) /\ Len(c1) = 1 + n1
  <2> DEFINE one == 1
  <2>1. HasAt(file, one, c1) /\ IsJoin(c1, <<n1>>, code)
    BY <1>20 DEF IsJoin, c1
  <2>2. one + 1 = 2
    OBVIOUS
  <2> HIDE DEF one
  <2>3. HasAt(file, one, <<n1>>) /\ HasAt(file, one + 1, code) /\ Len(c1) = 1 + Len(code)
    BY <1>2, <1>11, <2>1, CountedParts
  <2> QED BY <2>2, <2>3 DEF one, n1
<1>24. HasAt(file, p1, <<n2>>) /\ HasAt(file, p1 + 1, constants) /\ Len(c2) = 1 + n2
  <2>1. HasAt(file, p1, c2) /\ IsJoin(c2, <<n2>>, constants)
    BY <1>20 DEF IsJoin, c2
  <2> QED BY <1>2, <1>11, <2>1, CountedParts DEF n2
<1>25. HasAt(file, p2, <<n3>>) /\ HasAt(file, p2 + 1, closures) /\ Len(c3) = 1 + n3
  <2>1. HasAt(file, p2, c3) /\ IsJoin(c3, <<n3>>, closures)
    BY <1>20 DEF IsJoin, c3
  <2> QED BY <1>2, <1>11, <2>1, CountedParts DEF n3
<1>26. HasAt(file, p3, <<nt>>) /\ HasAt(file, p3 + 1, infos) /\ Len(ti) = 1 + Len(infos)
  <2>1. HasAt(file, p3, ti) /\ IsJoin(ti, <<nt>>, infos)
    BY <1>21 DEF IsJoin, ti
  <2> QED BY <1>2, <1>11, <2>1, CountedParts
<1>27. HasAt(file, p5, <<n5>>) /\ HasAt(file, p5 + 1, strings) /\ Len(c5) = 1 + n5
  <2>1. HasAt(file, p5, c5) /\ IsJoin(c5, <<n5>>, strings)
    BY <1>20 DEF IsJoin, c5
  <2> QED BY <1>2, <1>11, <2>1, CountedParts DEF n5
<1>28. /\ p1 = 2 + n1 /\ p2 = p1 + 1 + n2 /\ p3 = p2 + 1 + n3 /\ p4 = p3 + 1 + Len(infos)
       /\ p5 = p4 + Len(all) /\ Len(file) = p5 + 1 + n5
  BY <1>1, <1>32, <1>31, <1>19, <1>21, <1>23, <1>24, <1>25, <1>26, <1>27
<1> HIDE DEF p4
<1>29. Parts(file, code, constants, closures, nt, infos, all, strings, p1, p2, p3, p4, p5)
  BY <1>21, <1>22, <1>23, <1>24, <1>25, <1>26, <1>27, <1>28 DEF Parts, n1, n2, n3, n5
<1> QED BY <1>11, <1>29

(* How the types are written: their number, and the lengths of the names   *)
(* and the names of those that the program created.                        *)
AreTypes(nt, infos, all, created) ==
  /\ nt = BUILTIN_TYPE_COUNT + Len(created)
  /\ infos = [i \in DOMAIN created |-> TypeInfo(created[i])]
  /\ all = name_cells(created)[Len(created)]

\* A file of which only the beginning was written.
LEMMA PartOf ==
  ASSUME NEW S, NEW file \in Seq(S), NEW written \in 0..Len(file)
  PROVE  SubSeq(file, 1, written) \in Seq(S) /\ IsBeginning(SubSeq(file, 1, written), file, written)
<1> DEFINE n == Len(file)
           part == SubSeq(file, 1, written)
<1>1. n \in Nat /\ \A i \in 1..n : file[i] \in S
  BY LenProperties, ElementOfSeq
<1>2. written \in Nat /\ \A i \in 1..written : file[i] \in S
  <2> HIDE DEF n
  <2> QED BY <1>1 DEF n
<1>3. part \in Seq(S) /\ Len(part) = written /\ \A i \in 1..written : part[i] = file[i]
  BY <1>2, SubSeqProperties
<1> QED BY <1>3 DEF IsBeginning

(* What is loaded from the part of a file that was written.                *)
LEMMA LoadsParts ==
  ASSUME NEW S, Nat \subseteq S, NEW file \in Seq(S),
         NEW code \in Seq(S), NEW constants \in Seq(S), NEW closures \in Seq(S), NEW strings \in Seq(S),
         NEW created \in Seq(Seq(S)), NEW nt, NEW infos \in Seq(S), NEW all,
         AreTypes(nt, infos, all, created),
         NEW p1, NEW p2, NEW p3, NEW p4, NEW p5,
         Parts(file, code, constants, closures, nt, infos, all, strings, p1, p2, p3, p4, p5),
         NEW written, NEW part \in Seq(S), IsBeginning(part, file, written)
  PROVE  chunk_from(part)
           = IF written = Len(file)
             THEN [code |-> code, constants |-> read_constants(Read(p2, constants)), closures |-> closures,
                   types |-> BuiltinTypes \o created, strings |-> strings]
             ELSE WRITE_CHUNK_ERR
<1> DEFINE header == <<HEADER>>
           r0 == read_cells(part, 0, 1)
           r1 == read_list(part, r0, 0)
           r2 == read_list(part, r1, 0)
           r3 == read_list(part, r2, 0)
           ri == read_list(part, r3, BUILTIN_TYPE_COUNT)
           r4 == read_names(part, ri)
           r5 == read_list(part, r4, 0)
           p6 == Len(file)
<1>1. /\ HasAt(file, 1, <<Len(code)>>) /\ HasAt(file, 2, code)
      /\ HasAt(file, p1, <<Len(constants)>>) /\ HasAt(file, p1 + 1, constants)
      /\ HasAt(file, p2, <<Len(closures)>>) /\ HasAt(file, p2 + 1, closures)
      /\ HasAt(file, p3, <<nt>>) /\ HasAt(file, p3 + 1, infos)
      /\ HasAt(file, p4, all)
      /\ HasAt(file, p5, <<Len(strings)>>) /\ HasAt(file, p5 + 1, strings)
  BY DEF Parts
<1>2. HasAt(file, 0, header)
  BY DEF Parts
<1>3. p1 = 2 + Len(code)
  BY DEF Parts
<1>4. p2 = p1 + 1 + Len(constants)
  BY DEF Parts
<1>5. p3 = p2 + 1 + Len(closures)
  BY DEF Parts
<1>6. p4 = p3 + 1 + Len(infos)
  BY DEF Parts
<1>7. p5 = p4 + Len(all)
  BY DEF Parts
<1>8. p6 = p5 + 1 + Len(strings)
  BY DEF Parts
<1>9. /\ Len(code) \in Nat /\ Len(constants) \in Nat /\ Len(closures) \in Nat /\ Len(strings) \in Nat
      /\ Len(infos) \in Nat /\ Len(created) \in Nat /\ p6 \in Nat
      /\ written \in 0..p6 /\ Len(part) = written /\ \A i \in 1..written : part[i] = file[i]
  BY LenProperties DEF IsBeginning
<1>10. BUILTIN_TYPE_COUNT = 9
  BY DEF BUILTIN_TYPE_COUNT, BuiltinTypes
<1>22. /\ nt = BUILTIN_TYPE_COUNT + Len(created)
       /\ infos = [i \in DOMAIN created |-> TypeInfo(created[i])]
  BY DEF AreTypes
<1>23. all = name_cells(created)[Len(created)]
  BY DEF AreTypes
<1>11. Len(infos) = Len(created)
  <2>1. DOMAIN created = 1..Len(created) /\ DOMAIN infos = DOMAIN created
    BY <1>22, LenProperties
  <2> HIDE DEF p6
  <2> QED BY <1>9, <2>1, LenProperties
<1>12. chunk_from(part) = chunk_of(r1, r2, r3, r4, r5)
  <2>1. chunk_from(part) = from_code(part, r1)
    <3>1. ~(part # << >> /\ part[1] # HEADER)
      <4> SUFFICES ASSUME part # << >>
                   PROVE  part[1] = HEADER
        OBVIOUS
      <4>1. 1 \in 1..written
        BY <1>9, EmptySeq
      <4>2. file[0 + 1] = HEADER
        BY <1>2 DEF HasAt
      <4> QED BY <1>9, <4>1, <4>2
    <3> QED BY <3>1 DEF chunk_from
  <2> QED BY <2>1 DEF from_code, from_constants, from_closures, from_types
<1> HIDE DEF p6
<1>13. r0 = Got(1, written, header)
  <2>1. HEADER \in S
    <3>1. Len(header) = 1 /\ header[1] = HEADER
      OBVIOUS
    <3>2. file[0 + 1] = HEADER /\ 1 <= p6
      BY <1>2, <3>1 DEF HasAt, p6
    <3> QED BY <1>9, <3>2, ElementOfSeq DEF p6
  <2>2. header \in Seq(S)
    BY <2>1
  <2>3. Len(header) = 1
    OBVIOUS
  <2> DEFINE zero == 0
  <2> HIDE DEF header
  <2>4. HasAt(file, zero, header)
    BY <1>2
  <2> HIDE DEF zero
  <2>5. read_cells(part, zero, Len(header))
          = IF zero + Len(header) <= written THEN Read(zero + Len(header), header) ELSE Unreadable
    BY <2>2, <2>4, ReadsCells
  <2> QED BY <2>3, <2>5 DEF zero, Got
<1> HIDE DEF r0, header
<1> DEFINE one == 1
           none == 0
<1>14. r1 = Got(p1, written, code)
  <2> DEFINE n == Len(code)
  <2>1. HasAt(file, one, <<n>>) /\ HasAt(file, one + 1, code) /\ n \in S /\ none \in Nat
    BY <1>1, <1>9
  <2>2. n = Len(code) + none /\ p1 = one + 1 + Len(code)
    BY <1>3, <1>9
  <2>3. r1 = read_list(part, Got(one, written, header), none)
    BY <1>13
  <2> HIDE DEF n, one, none, r1
  <2>4. read_list(part, Got(one, written, header), none) = Got(p1, written, code)
    BY <2>1, <2>2, NextList
  <2> QED BY <2>3, <2>4
<1> HIDE DEF r1
<1>15. r2 = Got(p2, written, constants)
  <2> DEFINE n == Len(constants)
  <2>1. HasAt(file, p1, <<n>>) /\ HasAt(file, p1 + 1, constants) /\ n \in S /\ none \in Nat
    BY <1>1, <1>9
  <2>2. n = Len(constants) + none /\ p2 = p1 + 1 + Len(constants)
    BY <1>4, <1>9
  <2>3. r2 = read_list(part, Got(p1, written, code), none)
    BY <1>14
  <2> HIDE DEF n, none, r2
  <2>4. read_list(part, Got(p1, written, code), none) = Got(p2, written, constants)
    BY <2>1, <2>2, NextList
  <2> QED BY <2>3, <2>4
<1> HIDE DEF r2
<1>16. r3 = Got(p3, written, closures)
  <2> DEFINE n == Len(closures)
  <2>1. HasAt(file, p2, <<n>>) /\ HasAt(file, p2 + 1, closures) /\ n \in S /\ none \in Nat
    BY <1>1, <1>9
  <2>2. n = Len(closures) + none /\ p3 = p2 + 1 + Len(closures)
    BY <1>5, <1>9
  <2>3. r3 = read_list(part, Got(p2, written, constants), none)
    BY <1>15
  <2> HIDE DEF n, none, r3
  <2>4. read_list(part, Got(p2, written, constants), none) = Got(p3, written, closures)
    BY <2>1, <2>2, NextList
  <2> QED BY <2>3, <2>4
<1> HIDE DEF r3
<1>17. ri = Got(p4, written, infos)
  <2> DEFINE builtin == BUILTIN_TYPE_COUNT
  <2>1. HasAt(file, p3, <<nt>>) /\ HasAt(file, p3 + 1, infos)
    BY <1>1
  <2>2. nt \in S /\ builtin \in Nat
    BY <1>9, <1>10, <1>22
  <2>3. nt = Len(infos) + builtin /\ p4 = p3 + 1 + Len(infos)
    BY <1>6, <1>9, <1>10, <1>11, <1>22
  <2>4. ri = read_list(part, Got(p3, written, closures), builtin)
    BY <1>16
  <2> HIDE DEF builtin, ri
  <2>5. read_list(part, Got(p3, written, closures), builtin) = Got(p4, written, infos)
    BY <2>1, <2>2, <2>3, NextList
  <2> QED BY <2>4, <2>5
<1> HIDE DEF ri
<1>18. r4 = Got(p5, written, created)
  <2>1. HasAt(file, p4, all)
    BY <1>1
  <2> QED BY <1>7, <1>17, <1>22, <1>23, <2>1, NextNames
<1> HIDE DEF r4
<1>19. r5 = Got(p6, written, strings)
  <2> DEFINE n == Len(strings)
  <2>1. HasAt(file, p5, <<n>>) /\ HasAt(file, p5 + 1, strings) /\ n \in S /\ none \in Nat
    BY <1>1, <1>9
  <2>2. n = Len(strings) + none /\ p6 = p5 + 1 + Len(strings)
    BY <1>8, <1>9
  <2>3. r5 = read_list(part, Got(p5, written, created), none)
    BY <1>18
  <2> HIDE DEF n, none, r5
  <2>4. read_list(part, Got(p5, written, created), none) = Got(p6, written, strings)
    BY <2>1, <2>2, NextList
  <2> QED BY <2>3, <2>4
<1> HIDE DEF r5
<1>20. CASE written = p6
  <2>1. Len(all) \in Nat
    <3> DEFINE n == Len(created)
               cells == name_cells(created)
    <3>2. n \in 0..n /\ all = cells[n]
      BY <1>9, <1>23
    <3>4. cells \in [0..n -> Seq(S)]
      BY NameCells
    <3> HIDE DEF n, cells
    <3>3. all \in Seq(S)
      BY <3>2, <3>4
    <3> QED BY <3>3, LenProperties
  <2>2. p6 <= written /\ p5 <= written /\ p3 <= written /\ p2 <= written /\ p1 <= written
    <3>1. p1 \in Nat
      BY <1>3, <1>9
    <3>2. p2 \in Nat /\ p1 <= p2
      BY <1>4, <1>9, <3>1
    <3>3. p3 \in Nat /\ p2 <= p3
      BY <1>5, <1>9, <3>2
    <3>4. p4 \in Nat /\ p3 <= p4
      BY <1>6, <1>9, <3>3
    <3>5. p5 \in Nat /\ p4 <= p5
      BY <1>7, <2>1, <3>4
    <3>6. p5 <= p6
      BY <1>8, <1>9, <3>5
    <3> QED BY <1>9, <1>20, <3>1, <3>2, <3>3, <3>4, <3>5, <3>6
  <2>3. /\ r1 = Read(p1, code) /\ r2 = Read(p2, constants) /\ r3 = Read(p3, closures)
        /\ r4 = Read(p5, created) /\ r5 = Read(p6, strings)
    BY <1>14, <1>15, <1>16, <1>18, <1>19, <2>2 DEF Got
  <2>4. /\ r1.data = code /\ r3.data = closures /\ r4.data = created /\ r5.data = strings /\ r5.ok = TRUE
    BY <2>3 DEF Read
  <2>5. chunk_of(r1, r2, r3, r4, r5)
          = [code |-> code, constants |-> read_constants(r2), closures |-> closures,
             types |-> BuiltinTypes \o created, strings |-> strings]
    BY <2>4 DEF chunk_of
  <2> QED BY <1>12, <1>20, <2>3, <2>5 DEF p6
<1>21. CASE written # p6
  <2>1. ~(p6 <= written)
    BY <1>9, <1>21
  <2>2. r5 = Unreadable
    BY <1>19, <2>1 DEF Got
  <2> QED BY <1>12, <1>21, <2>2 DEF chunk_of, Unreadable, p6
<1> QED BY <1>20, <1>21

(* A chunk whose cells are in S is loaded as it was saved.                 *)
LEMMA Survival ==
  ASSUME NEW S, Nat \subseteq S, HEADER \in S, \A n \in Nat : [name_len |-> n] \in S,
         NEW whole, NEW code \in Seq(S), NEW constants \in Seq(S), NEW closures \in Seq(S),
         NEW strings \in Seq(S), NEW types, NEW created \in Seq(Seq(S)),
         whole = [code |-> code, constants |-> constants, closures |-> closures, types |-> types,
                  strings |-> strings],
         types = BuiltinTypes \o created, BeginsWith(constants, BuiltinConstants),
         SubSeq(types, BUILTIN_TYPE_COUNT + 1, Len(types)) = created,
         Len(types) = BUILTIN_TYPE_COUNT + Len(created)
  PROVE  Survives(whole)
<1> DEFINE nt == Len(types)
           infos == [i \in DOMAIN created |-> TypeInfo(created[i])]
           all == name_cells(created)[Len(created)]
           file == Cells(whole)
           size == Len(file)
<1>1. Len(created) \in Nat /\ BUILTIN_TYPE_COUNT = 9
  BY LenProperties DEF BUILTIN_TYPE_COUNT, BuiltinTypes
<1>2. nt \in Nat
  BY <1>1
<1>3. infos \in Seq(S)
  <2> DEFINE n == Len(created)
  <2>1. DOMAIN created = 1..n /\ n \in Nat /\ \A i \in 1..n : created[i] \in Seq(S)
    BY LenProperties, ElementOfSeq
  <2>2. ASSUME NEW i \in 1..n
        PROVE  TypeInfo(created[i]) \in S
    BY <2>1, LenProperties DEF TypeInfo
  <2> HIDE DEF n
  <2>3. infos = [i \in 1..n |-> TypeInfo(created[i])]
    BY <2>1
  <2>4. infos \in [1..n -> S]
    BY <2>2, <2>3
  <2> HIDE DEF infos
  <2> QED BY <2>1, <2>4
<1>4. all \in Seq(S)
  <2> DEFINE n == Len(created)
             cells == name_cells(created)
  <2>1. n \in 0..n
    BY <1>1
  <2>2. cells \in [0..n -> Seq(S)]
    BY NameCells
  <2> HIDE DEF n, cells
  <2>3. cells[n] \in Seq(S)
    BY <2>1, <2>2
  <2> QED BY <2>3 DEF n, cells
<1>5. IsFile(file, code, constants, closures, nt, infos, all, strings)
  BY DEF IsFile, Cells, Types
<1> HIDE DEF nt, infos, all, file
<1>6. file \in Seq(S)
  BY <1>2, <1>3, <1>4, <1>5, Layout
<1>7. PICK p1, p2, p3, p4, p5 :
        Parts(file, code, constants, closures, nt, infos, all, strings, p1, p2, p3, p4, p5)
  BY <1>2, <1>3, <1>4, <1>5, Layout
<1>8. ASSUME NEW written \in 0..size
      PROVE  chunk_from(SubSeq(file, 1, written)) = IF written = size THEN whole ELSE WRITE_CHUNK_ERR
  <2> DEFINE part == SubSeq(file, 1, written)
  <2>1. part \in Seq(S) /\ IsBeginning(part, file, written)
    BY <1>6, PartOf
  <2> HIDE DEF part
  <2>2. AreTypes(nt, infos, all, created)
    BY DEF AreTypes, nt, infos, all
  <2>6. chunk_from(part)
           = IF written = Len(file)
             THEN [code |-> code, constants |-> read_constants(Read(p2, constants)), closures |-> closures,
                   types |-> BuiltinTypes \o created, strings |-> strings]
             ELSE WRITE_CHUNK_ERR
    BY <1>3, <1>6, <1>7, <2>1, <2>2, LoadsParts
  <2>7. read_constants(Read(p2, constants)) = constants
    BY DEF read_constants, Read, BeginsWith
  <2> QED BY <2>6, <2>7 DEF part, size
<1>9. ASSUME NEW accepted \in 0..size, write_chunk_to(whole, accepted).ok
      PROVE  chunk_from(write_chunk_to(whole, accepted).file) = whole
  <2>1. size \in Nat
    BY <1>6, LenProperties
  <2>2. accepted >= size /\ write_chunk_to(whole, accepted).file = SubSeq(file, 1, accepted)
    BY <1>9 DEF write_chunk_to, file
  <2> HIDE DEF size
  <2>3. accepted = size
    BY <2>1, <2>2
  <2> QED BY <1>8, <2>2, <2>3
<1> QED BY <1>8, <1>9 DEF Survives, file, size

-----------------------------------------------------------------------------
(* A chunk that is saved entirely is loaded as it was, and a file that was *)
(* written in part is refused, whatever the chunk: write_chunk_to and      *)
(* chunk_from of bytecode/binary.c agree on where everything is.           *)
THEOREM FilesSurvive ==
  ASSUME NEW whole, WellFormed(whole)
  PROVE  Survives(whole)
<1> DEFINE code == whole.code
           constants == whole.constants
           closures == whole.closures
           strings == whole.strings
           types == whole.types
           created == SubSeq(types, BUILTIN_TYPE_COUNT + 1, Len(types))
           Names == {"()", "int", "bool", "char", "Cons", "function", "File", "Slice", "type"}
           T == { types[i] : i \in DOMAIN types }
           A == UNION { { t[i] : i \in DOMAIN t } : t \in T }
           S == {HEADER} \union Nat \union Names \union { [name_len |-> n] : n \in Nat } \union A
                  \union { code[i] : i \in DOMAIN code } \union { constants[i] : i \in DOMAIN constants }
                  \union { closures[i] : i \in DOMAIN closures } \union { strings[i] : i \in DOMAIN strings }
<1>1. /\ code \in Seq({ code[i] : i \in DOMAIN code })
      /\ constants \in Seq({ constants[i] : i \in DOMAIN constants })
      /\ closures \in Seq({ closures[i] : i \in DOMAIN closures })
      /\ strings \in Seq({ strings[i] : i \in DOMAIN strings })
      /\ types \in Seq(T)
      /\ \A i \in DOMAIN types : types[i] \in Seq({ types[i][j] : j \in DOMAIN types[i] })
  BY DEF WellFormed, IsList
<1>2. BeginsWith(constants, BuiltinConstants) /\ types = BuiltinTypes \o created
  BY DEF WellFormed, BeginsWith, BUILTIN_TYPE_COUNT
<1>3. whole = [code |-> code, constants |-> constants, closures |-> closures, types |-> types,
               strings |-> strings]
  BY Zenon DEF WellFormed
<1>4. Nat \subseteq S /\ Names \subseteq S /\ HEADER \in S /\ \A n \in Nat : [name_len |-> n] \in S
  OBVIOUS
<1>5. /\ { code[i] : i \in DOMAIN code } \subseteq S /\ { constants[i] : i \in DOMAIN constants } \subseteq S
      /\ { closures[i] : i \in DOMAIN closures } \subseteq S /\ { strings[i] : i \in DOMAIN strings } \subseteq S
      /\ A \subseteq S
  OBVIOUS
<1>6. ASSUME NEW i \in DOMAIN types
      PROVE  { types[i][j] : j \in DOMAIN types[i] } \subseteq A
  <2>1. types[i] \in T
    OBVIOUS
  <2> HIDE DEF T, types
  <2>2. ASSUME NEW t \in T
        PROVE  { t[j] : j \in DOMAIN t } \subseteq A
    OBVIOUS
  <2> QED BY <2>1, <2>2
<1> HIDE DEF code, constants, closures, strings, types, created, A, S, Names
<1>7. code \in Seq(S) /\ constants \in Seq(S) /\ closures \in Seq(S) /\ strings \in Seq(S)
  BY <1>1, <1>5, Widened
<1>8. \A i \in DOMAIN types : types[i] \in Seq(S)
  <2> TAKE i \in DOMAIN types
  <2>1. { types[i][j] : j \in DOMAIN types[i] } \subseteq S
    BY <1>5, <1>6
  <2> QED BY <1>1, <2>1, Widened
<1>9. T \subseteq Seq(S)
  BY <1>8
<1>10. types \in Seq(Seq(S))
  BY <1>1, <1>9, Widened
<1>11. BuiltinTypes \in Seq(Seq(S)) /\ Len(BuiltinTypes) = 9 /\ BUILTIN_TYPE_COUNT = 9
  <2>1. BuiltinTypes \in Seq(Seq(Names)) /\ Len(BuiltinTypes) = 9
    <3> DEFINE Q == Seq(Names)
    <3>1. /\ <<"()">> \in Q /\ <<"int">> \in Q /\ <<"bool">> \in Q /\ <<"char">> \in Q /\ <<"Cons">> \in Q
          /\ <<"function">> \in Q /\ <<"File">> \in Q /\ <<"Slice">> \in Q /\ <<"type">> \in Q
      BY DEF Names
    <3> HIDE DEF Q
    <3>2. BuiltinTypes \in Seq(Q) /\ Len(BuiltinTypes) = 9
      BY <3>1 DEF BuiltinTypes
    <3> QED BY <3>2 DEF Q
  <2>2. Seq(Names) \subseteq Seq(S)
    BY <1>4, Widened
  <2> QED BY <2>1, <2>2, Widened DEF BUILTIN_TYPE_COUNT
<1>12. created \in Seq(Seq(S))
  <2> DEFINE n == Len(types)
  <2>1. n \in Nat /\ \A i \in 10..n : types[i] \in Seq(S)
    <3>1. n \in Nat /\ \A i \in 1..n : types[i] \in Seq(S)
      BY <1>10, LenProperties, ElementOfSeq
    <3> HIDE DEF n
    <3> QED BY <3>1
  <2>2. SubSeq(types, 10, n) \in Seq(Seq(S))
    BY <2>1, SubSeqProperties
  <2>3. created = SubSeq(types, 10, n)
    <3>1. BUILTIN_TYPE_COUNT + 1 = 10
      BY <1>11
    <3> QED BY <3>1 DEF created
  <2> QED BY <2>2, <2>3
<1>13. Len(types) = BUILTIN_TYPE_COUNT + Len(created)
  <2>1. Len(BuiltinTypes \o created) = Len(BuiltinTypes) + Len(created)
    BY <1>11, <1>12, ConcatProperties
  <2> QED BY <1>2, <1>11, <2>1
<1>14. SubSeq(types, BUILTIN_TYPE_COUNT + 1, Len(types)) = created
  BY DEF created
<1> QED BY <1>2, <1>3, <1>4, <1>7, <1>12, <1>13, <1>14, Survival

-----------------------------------------------------------------------------
(***************************************************************************)
(* The program is never changed, and could be saved.                       *)
(***************************************************************************)
(* handle_continuation jumps in one of three ways.                         *)
LEMMA Continued ==
  ASSUME HANDLE_CONTINUATION
  PROVE  runtime_error \/ \E address : JumpTo(address)
BY Zenon DEF HANDLE_CONTINUATION

(* No instruction touches the program.                                     *)
LEMMA ProgramKept ==
  ASSUME [Next]_vm_vars
  PROVE  program' = program
<1> USE DEF Continue, Advance, JumpTo, runtime_error, Panic, Stop
<1>1. CASE PUSH_REG_STACK \/ TRANSFER_STACK_REG \/ COPY_STACK_REG \/ SWAP \/ COPY \/ POP_U64
             \/ U64_ADD \/ PUSH_CONST \/ PUSH_BOOL
  BY <1>1, Zenon DEF PUSH_REG_STACK, TRANSFER_STACK_REG, COPY_STACK_REG, SWAP, COPY, POP_U64, U64_ADD,
       PUSH_CONST, PUSH_BOOL
<1>2. CASE JUMP \/ JUMP_REL \/ JUMP_GLOBALS \/ JUMP_REL_CONDITIONAL
             \/ READ_BINDING \/ CREATE_BINDING \/ REMOVE_BINDINGS \/ CAPTURE_READ
  BY <1>2, Zenon DEF JUMP, JUMP_REL, JUMP_GLOBALS, JUMP_REL_CONDITIONAL, READ_BINDING, CREATE_BINDING,
       REMOVE_BINDINGS, CAPTURE_READ
<1>3. CASE EVAL
  BY <1>3, Zenon DEF EVAL
<1>4. CASE HANDLE_CONTINUATION
  BY <1>4, Continued, Zenon
<1>5. CASE UPDATE_THUNK \/ PARTIAL_APPLY
             \/ CREATE_CLOSURE \/ CREATE_THUNK \/ WRITE_CAPTURES \/ CREATE_CONS \/ CREATE_OBJECT
             \/ READ_CONS \/ OBJECT_READ
  BY <1>5, Zenon DEF UPDATE_THUNK, PARTIAL_APPLY, CREATE_CLOSURE, CREATE_THUNK, WRITE_CAPTURES,
       CREATE_CONS, CREATE_OBJECT, READ_CONS, OBJECT_READ
<1>6. CASE IS_TYPE \/ IS_VARIANT \/ NUM_BIN_OP \/ NEGATE \/ COMPARISON_BIN_OP \/ EQUAL \/ NOT
  BY <1>6, Zenon DEF IS_TYPE, IS_VARIANT, Test, NUM_BIN_OP, NEGATE, COMPARISON_BIN_OP, EQUAL, NOT
<1>7. CASE TRANSFER_STACK_EXCEPTION \/ STD_STREAM \/ OPEN_FILE \/ CLOSE_FILE \/ STREAM_ERRORS
             \/ WRITE_VALUE \/ READ_LINE \/ READ_CONTENTS
  BY <1>7, Zenon DEF TRANSFER_STACK_EXCEPTION, STD_STREAM, OPEN_FILE, CLOSE_FILE, STREAM_ERRORS,
       WRITE_VALUE, READ_LINE, READ_CONTENTS, OnStream, Answer, Leave
<1>8. CASE PATTERN_MATCH_FAIL \/ END \/ Stopped \/ UNCHANGED vm_vars
  BY <1>8, Zenon DEF PATTERN_MATCH_FAIL, END, Stopped, vm_vars
<1> QED BY <1>1, <1>2, <1>3, <1>4, <1>5, <1>6, <1>7, <1>8, Zenon DEF Next, Step

-----------------------------------------------------------------------------
(* Lists.                                                                  *)
LEMMA ListsJoined ==
  ASSUME NEW s, NEW t, NEW st, IsJoin(st, s, t), IsList(s), IsList(t)
  PROVE  /\ IsList(st) /\ BeginsWith(st, s)
         /\ \A i \in DOMAIN st : (\E j \in DOMAIN s : st[i] = s[j]) \/ (\E j \in DOMAIN t : st[i] = t[j])
<1> DEFINE X == { s[i] : i \in DOMAIN s }
           Y == { t[i] : i \in DOMAIN t }
           S == X \union Y
           n == Len(s)
           m == Len(t)
<1>1. s \in Seq(X) /\ t \in Seq(Y) /\ X \subseteq S /\ Y \subseteq S
  BY DEF IsList
<1> HIDE DEF X, Y, S
<1>2. s \in Seq(S) /\ t \in Seq(S) /\ st = s \o t
  BY <1>1, Widened DEF IsJoin
<1>3. /\ st \in Seq(S) /\ Len(st) = n + m /\ n \in Nat /\ m \in Nat
      /\ \A i \in 1..n : st[i] = s[i]
      /\ \A i \in 1..m : st[n + i] = t[i]
  BY <1>2, Concatenated, LenProperties
<1>4. DOMAIN st = 1..(n + m) /\ DOMAIN s = 1..n /\ DOMAIN t = 1..m
  BY <1>2, <1>3, LenProperties
<1>5. IsList(st)
  BY <1>3, ListOver
<1>6. BeginsWith(st, s)
  <2>1. SubSeq(st, Len(s) + 1, Len(st)) = t
    BY <1>2, Behind
  <2> QED BY <1>2, <2>1 DEF BeginsWith
<1> HIDE DEF n, m
<1>7. ASSUME NEW i \in DOMAIN st
      PROVE  (\E j \in DOMAIN s : st[i] = s[j]) \/ (\E j \in DOMAIN t : st[i] = t[j])
  <2>1. CASE i <= n
    <3>1. i \in 1..n
      BY <1>3, <1>4, <2>1
    <3> QED BY <1>3, <1>4, <3>1
  <2>2. CASE ~(i <= n)
    <3>1. i - n \in 1..m /\ n + (i - n) = i
      BY <1>3, <1>4, <2>2
    <3> QED BY <1>3, <1>4, <3>1
  <2> QED BY <2>1, <2>2
<1> QED BY <1>5, <1>6, <1>7

\* The beginning of a list.
LEMMA ListCut ==
  ASSUME NEW s, IsList(s), NEW n \in 0..Len(s)
  PROVE  IsList(SubSeq(s, 1, n))
<1> DEFINE X == { s[i] : i \in DOMAIN s }
<1>1. s \in Seq(X)
  BY DEF IsList
<1> HIDE DEF X
<1>2. SubSeq(s, 1, n) \in Seq(X)
  BY <1>1, PartOf
<1> QED BY <1>2, ListOver

-----------------------------------------------------------------------------
(* The chunk of a program, with any of the tables and texts, can be saved. *)
LEMMA BuiltinTypesList ==
  IsList(BuiltinTypes) /\ \A i \in DOMAIN BuiltinTypes : IsList(BuiltinTypes[i])
<1> DEFINE Names == {"()", "int", "bool", "char", "Cons", "function", "File", "Slice", "type"}
           Q == Seq(Names)
<1>1. /\ <<"()">> \in Q /\ <<"int">> \in Q /\ <<"bool">> \in Q /\ <<"char">> \in Q /\ <<"Cons">> \in Q
      /\ <<"function">> \in Q /\ <<"File">> \in Q /\ <<"Slice">> \in Q /\ <<"type">> \in Q
  OBVIOUS
<1> HIDE DEF Q
<1>2. BuiltinTypes \in Seq(Q)
  BY <1>1 DEF BuiltinTypes
<1>3. \A i \in DOMAIN BuiltinTypes : BuiltinTypes[i] \in Seq(Names)
  BY <1>2, LenProperties, ElementOfSeq DEF Q
<1> HIDE DEF Names
<1> QED BY <1>2, <1>3, ListOver

\* The type infos and strings that programs are saved with are lists.
LEMMA TablesAndTexts ==
  /\ \A types \in Tables : IsList(types) /\ \A i \in DOMAIN types : IsList(types[i])
  /\ \A strings \in Texts : IsList(strings)
<1> DEFINE Chars == {"t", "u", "a", "b"}
           Q == Seq(Chars)
<1>1. <<"t">> \in Q /\ <<"t", "u">> \in Q
  OBVIOUS
<1>2. <<>> \in Q /\ <<"a", "b">> \in Q
  OBVIOUS
<1> HIDE DEF Q
<1>3. <<>> \in Seq(Q) /\ << <<"t">> >> \in Seq(Q) /\ << <<"t">>, <<"t", "u">> >> \in Seq(Q)
  BY <1>1
<1>4. Tables \subseteq Seq(Q) /\ Texts \subseteq Q
  BY <1>2, <1>3 DEF Tables, Texts
<1>5. \A types \in Tables : \A i \in DOMAIN types : types[i] \in Seq(Chars)
  BY <1>4, LenProperties, ElementOfSeq DEF Q
<1> HIDE DEF Chars
<1> QED BY <1>4, <1>5, ListOver DEF Q

\* Every program can be saved.
LEMMA Storable ==
  ASSUME program \in DOMAIN Programs, NEW types \in Tables, NEW strings \in Texts
  PROVE  WellFormed(ToBeSaved(types, strings))
<1> DEFINE all == BuiltinTypes \o types
           code == SubSeq(chunk.code, 1, chunk.global_function_start)
           saved == ToBeSaved(types, strings)
<1>1. IsProgram(chunk)
  BY ProgramsAssumption DEF chunk
<1>2. IsList(code)
  BY <1>1, ListCut DEF IsProgram
<1>3. IsList(types) /\ IsList(strings) /\ \A i \in DOMAIN types : IsList(types[i])
  BY TablesAndTexts
<1>10. IsJoin(all, BuiltinTypes, types)
  BY DEF IsJoin
<1> HIDE DEF all
<1>4. /\ IsList(all) /\ BeginsWith(all, BuiltinTypes)
      /\ \A i \in DOMAIN all : \/ \E j \in DOMAIN BuiltinTypes : all[i] = BuiltinTypes[j]
                               \/ \E j \in DOMAIN types : all[i] = types[j]
  BY <1>3, <1>10, BuiltinTypesList, ListsJoined
<1>5. \A i \in DOMAIN all : IsList(all[i])
  BY <1>3, <1>4, BuiltinTypesList
<1> HIDE DEF code
<1>6. saved = [code |-> code, constants |-> chunk.constants, closures |-> chunk.closures,
               types |-> all, strings |-> strings]
  BY DEF ToBeSaved, all, code
<1> HIDE DEF saved
<1>7. /\ saved.code = code /\ saved.constants = chunk.constants /\ saved.closures = chunk.closures
      /\ saved.types = all /\ saved.strings = strings
  BY <1>6
<1>8. IsList(chunk.constants) /\ IsList(chunk.closures) /\ BeginsWith(chunk.constants, BuiltinConstants)
  BY <1>1 DEF IsProgram
<1>9. WellFormed(saved)
  BY <1>2, <1>3, <1>4, <1>5, <1>6, <1>7, <1>8, Zenon DEF WellFormed
<1> QED BY <1>9 DEF saved

(* The program that is executed is one of the programs.                    *)
LEMMA ProgramKnown == Spec => [](program \in DOMAIN Programs)
<1>1. Init => program \in DOMAIN Programs
  BY DEF Init, run_vm
<1>2. program \in DOMAIN Programs /\ [Next]_vm_vars => (program \in DOMAIN Programs)'
  BY ProgramKept
<1> QED BY <1>1, <1>2, PTL DEF Spec

(* A program that is saved and loaded is the program, whatever its code,   *)
(* its constants and its functions (write_chunk_to and chunk_from).        *)
THEOREM SavedProgramsLoad == Spec => []LoadsWhatWasSaved
<1>1. program \in DOMAIN Programs => LoadsWhatWasSaved
  BY Storable, FilesSurvive DEF LoadsWhatWasSaved
<1> QED BY <1>1, ProgramKnown, PTL
-----------------------------------------------------------------------------
(* The machine keeps to the layouts.                                       *)
KeepsHere(L, A) == KeepsTo(chunk, L, A, heap, stack, bindings, reg_1, exception_reg, ip)
VerifiedHere(L, A) == Verified(chunk, L, A)

\* Verified code has layouts.
LEMMA AllAreLayouts ==
  ASSUME NEW L, NEW A, VerifiedHere(L, A)
  PROVE  AllLayouts(L)
BY DEF VerifiedHere, Verified, Obeys, AllLayouts

\* Wherever it does not return, the machine is in a function.
IsRunning(L, A) == \E fr, m, low, base, blow : Running(L, A, fr, m, low, base, blow)

\* The machine is in a function, or returns from one.
LEMMA RunsOrReturns ==
  ASSUME NEW L, NEW A, VerifiedHere(L, A), KeepsHere(L, A)
  PROVE  /\ ObeysHere(L, A)
         /\ L[ip].mode = RETURNING \/ IsRunning(L, A)
<1>1. ip \in DOMAIN L
  BY DEF KeepsHere, KeepsTo
<1>2. ObeysHere(L, A)
  BY <1>1 DEF VerifiedHere, Verified, ObeysHere
<1>3. ASSUME L[ip].mode # RETURNING
      PROVE  IsRunning(L, A)
  <2>1. Kept(chunk, L, A, heap, stack, bindings, reg_1, exception_reg, ip)
    BY <1>3 DEF KeepsHere, KeepsTo
  <2> QED BY <2>1, AllAreLayouts DEF Kept, IsRunning, Running
<1> QED BY <1>2, <1>3

\* Two words change places, or the result and the address below it.
LEMMA SWAP_Sound ==
  ASSUME NEW L, NEW A, NEW fr, NEW m, NEW low, NEW base, NEW blow, Running(L, A, fr, m, low, base, blow),
         ObeysHere(L, A), SWAP
  PROVE  Sound(L, A)
<1>1. Here.op = "SWAP"
  BY HereIs DEF SWAP, Op
<1>2. Moves(chunk, L, ip) \/ Leaves(chunk, L, ip)
  BY <1>1, Sorts DEF ObeysHere, Here, MoveOps
<1>3. CASE Moves(chunk, L, ip)
  BY <1>3, LocalSwap
<1>4. CASE Leaves(chunk, L, ip)
  BY <1>4, RETURN_Sound
<1> QED BY <1>2, <1>3, <1>4

(* The other instructions are executed in a function.                      *)
LEMMA ReturningOps ==
  ASSUME Step, op \in {"JUMP", "PATTERN_MATCH_FAIL", "END"}
  PROVE  JUMP \/ END \/ PATTERN_MATCH_FAIL
<1>1. \A name : Op(name) => op = name
  BY DEF Op
<1> DEFINE last == op \in {"JUMP", "PATTERN_MATCH_FAIL", "END"}
<1>2. ASSUME PUSH_REG_STACK \/ TRANSFER_STACK_REG \/ COPY_STACK_REG \/ SWAP \/ COPY \/ POP_U64
             \/ U64_ADD \/ PUSH_CONST \/ PUSH_BOOL
      PROVE  ~last
  BY <1>1, <1>2 DEF PUSH_REG_STACK, TRANSFER_STACK_REG, COPY_STACK_REG, SWAP, COPY, POP_U64, U64_ADD,
       PUSH_CONST, PUSH_BOOL
<1>3. ASSUME JUMP_REL \/ JUMP_GLOBALS \/ JUMP_REL_CONDITIONAL
             \/ READ_BINDING \/ CREATE_BINDING \/ REMOVE_BINDINGS \/ CAPTURE_READ
      PROVE  ~last
  BY <1>1, <1>3 DEF JUMP_REL, JUMP_GLOBALS, JUMP_REL_CONDITIONAL, READ_BINDING, CREATE_BINDING,
       REMOVE_BINDINGS, CAPTURE_READ
<1>4. ASSUME EVAL \/ HANDLE_CONTINUATION \/ UPDATE_THUNK \/ PARTIAL_APPLY
      PROVE  ~last
  <2>1. CASE EVAL
    BY <1>1, <2>1 DEF EVAL
  <2>2. CASE HANDLE_CONTINUATION
    <3>1. Op("HANDLE_CONTINUATION")
      BY <2>2, Zenon DEF HANDLE_CONTINUATION
    <3> QED BY <1>1, <3>1
  <2>3. CASE UPDATE_THUNK
    BY <1>1, <2>3 DEF UPDATE_THUNK
  <2>4. CASE PARTIAL_APPLY
    BY <1>1, <2>4 DEF PARTIAL_APPLY
  <2> QED BY <1>4, <2>1, <2>2, <2>3, <2>4
<1>5. ASSUME CREATE_CLOSURE \/ CREATE_THUNK \/ WRITE_CAPTURES \/ CREATE_CONS \/ CREATE_OBJECT
             \/ READ_CONS \/ OBJECT_READ
      PROVE  ~last
  BY <1>1, <1>5 DEF CREATE_CLOSURE, CREATE_THUNK, WRITE_CAPTURES, CREATE_CONS, CREATE_OBJECT, READ_CONS, OBJECT_READ
<1>6. ASSUME IS_TYPE \/ IS_VARIANT \/ NUM_BIN_OP \/ NEGATE \/ COMPARISON_BIN_OP \/ EQUAL \/ NOT
      PROVE  ~last
  BY <1>1, <1>6 DEF IS_TYPE, IS_VARIANT, NUM_BIN_OP, NEGATE, COMPARISON_BIN_OP, EQUAL, NOT
<1>7. ASSUME TRANSFER_STACK_EXCEPTION \/ STD_STREAM \/ OPEN_FILE \/ CLOSE_FILE \/ STREAM_ERRORS
             \/ WRITE_VALUE \/ READ_LINE \/ READ_CONTENTS
      PROVE  ~last
  <2>1. TRANSFER_STACK_EXCEPTION => op = "TRANSFER_STACK_REG"
    BY <1>1, Zenon DEF TRANSFER_STACK_EXCEPTION
  <2>2. STD_STREAM \/ OPEN_FILE \/ CLOSE_FILE \/ STREAM_ERRORS \/ WRITE_VALUE \/ READ_LINE \/ READ_CONTENTS
          => op = "CALL_EXTERN"
    BY <1>1, Zenon DEF STD_STREAM, OPEN_FILE, CLOSE_FILE, STREAM_ERRORS, WRITE_VALUE, READ_LINE,
         READ_CONTENTS, CallExtern
  <2>3. op = "TRANSFER_STACK_REG" \/ op = "CALL_EXTERN"
    BY <1>7, <2>1, <2>2
  <2> QED BY <2>3
<1>8. last
  OBVIOUS
<1> HIDE DEF last
<1> QED BY <1>2, <1>3, <1>4, <1>5, <1>6, <1>7, <1>8, Zenon DEF Step

(* Every instruction is sound.                                             *)
LEMMA RunningStep ==
  ASSUME NEW L, NEW A, NEW fr, NEW m, NEW low, NEW base, NEW blow, Running(L, A, fr, m, low, base, blow),
         ObeysHere(L, A), VerifiedHere(L, A),
         KeepsHere(L, A), Step
  PROVE  Sound(L, A)
<1>1. Verified(chunk, L, A) /\ KeepsTo(chunk, L, A, heap, stack, bindings, reg_1, exception_reg, ip)
  BY DEF VerifiedHere, KeepsHere
<1>2. CASE PUSH_REG_STACK \/ TRANSFER_STACK_REG \/ COPY_STACK_REG \/ SWAP \/ COPY \/ POP_U64
             \/ U64_ADD \/ PUSH_CONST \/ PUSH_BOOL
  BY <1>2, PUSH_REG_STACK_Sound, TRANSFER_STACK_REG_Sound, COPY_STACK_REG_Sound, SWAP_Sound, COPY_Sound,
     POP_U64_Sound, U64_ADD_Sound, PUSH_CONST_Sound, PUSH_BOOL_Sound, Zenon
<1>3. CASE JUMP
  BY <1>1, <1>3, JUMP_Sound
<1>4. CASE JUMP_REL \/ JUMP_GLOBALS \/ JUMP_REL_CONDITIONAL
             \/ READ_BINDING \/ CREATE_BINDING \/ REMOVE_BINDINGS \/ CAPTURE_READ
  BY <1>4, JUMP_REL_Sound, JUMP_GLOBALS_Sound, JUMP_REL_CONDITIONAL_Sound, READ_BINDING_Sound,
     CREATE_BINDING_Sound, REMOVE_BINDINGS_Sound, CAPTURE_READ_Sound, Zenon
<1>5. CASE EVAL
  BY <1>1, <1>5, EVAL_Sound
<1>6. CASE HANDLE_CONTINUATION
  BY <1>1, <1>6, HANDLE_CONTINUATION_Sound
<1>7. CASE UPDATE_THUNK \/ PARTIAL_APPLY \/ CREATE_CONS \/ CREATE_OBJECT \/ READ_CONS \/ OBJECT_READ
  BY <1>7, UPDATE_THUNK_Sound, PARTIAL_APPLY_Sound, CREATE_CONS_Sound, CREATE_OBJECT_Sound, READ_CONS_Sound,
     OBJECT_READ_Sound, Zenon
<1>8. CASE CREATE_CLOSURE \/ CREATE_THUNK \/ WRITE_CAPTURES
  BY <1>1, <1>8, CREATE_CLOSURE_Sound, CREATE_THUNK_Sound, WRITE_CAPTURES_Sound, Zenon
<1>9. CASE IS_TYPE \/ IS_VARIANT \/ NUM_BIN_OP \/ NEGATE \/ COMPARISON_BIN_OP \/ EQUAL \/ NOT
  BY <1>9, IS_TYPE_Sound, IS_VARIANT_Sound, NUM_BIN_OP_Sound, NEGATE_Sound, COMPARISON_Sound, EQUAL_Sound,
     NOT_Sound, Zenon
<1>10. CASE TRANSFER_STACK_EXCEPTION \/ STD_STREAM \/ OPEN_FILE \/ CLOSE_FILE \/ STREAM_ERRORS
             \/ WRITE_VALUE \/ READ_LINE \/ READ_CONTENTS
  BY <1>10, TRANSFER_STACK_EXCEPTION_Sound, STD_STREAM_Sound, OPEN_FILE_Sound, CLOSE_FILE_Sound,
     STREAM_ERRORS_Sound, WRITE_VALUE_Sound, READ_Sound, Zenon
<1>11. CASE END \/ PATTERN_MATCH_FAIL
  BY <1>11, END_Sound
<1> QED BY <1>2, <1>3, <1>4, <1>5, <1>6, <1>7, <1>8, <1>9, <1>10, <1>11, Zenon DEF Step

\* Every instruction keeps what the layouts say: one lemma for each of them.
LEMMA StepSound ==
  ASSUME NEW L, NEW A, VerifiedHere(L, A), KeepsHere(L, A), Step
  PROVE  Sound(L, A)
<1>1. ObeysHere(L, A) /\ (L[ip].mode = RETURNING \/ IsRunning(L, A))
  BY RunsOrReturns
<1>2. CASE L[ip].mode = RETURNING
  <2>1. op \in {"JUMP", "PATTERN_MATCH_FAIL", "END"}
    <3>1. Here.op \in {"JUMP", "PATTERN_MATCH_FAIL", "END"}
      BY <1>1, <1>2, Sorts DEF ObeysHere, Here
    <3> QED BY <3>1, HereIs
  <2>2. CASE JUMP
    BY <1>1, <2>2, JUMP_Sound DEF KeepsHere
  <2>3. CASE END \/ PATTERN_MATCH_FAIL
    BY <2>3, END_Sound
  <2> QED BY <2>1, <2>2, <2>3, ReturningOps
<1>3. CASE IsRunning(L, A)
  BY <1>1, <1>3, RunningStep DEF IsRunning
<1> QED BY <1>1, <1>2, <1>3

-----------------------------------------------------------------------------
(* The beginning.                                                          *)
LEMMA BuiltinsFirst ==
  ASSUME NEW s, IsList(s), BeginsWith(s, BuiltinConstants)
  PROVE  /\ DOMAIN s = 1..Len(s) /\ Len(s) \in Nat /\ Len(s) >= 3
         /\ s[1] = [type |-> "unit", n |-> 0]
         /\ s[2] = [type |-> "bool", n |-> 1]
         /\ s[3] = [type |-> "bool", n |-> 0]
<1> DEFINE X == { s[i] : i \in DOMAIN s }
           one == [type |-> "unit", n |-> 0]
           two == [type |-> "bool", n |-> 1]
           three == [type |-> "bool", n |-> 0]
           b == <<one, two, three>>
           rest == SubSeq(s, Len(b) + 1, Len(s))
           S == X \cup {one, two, three}
<1>1. s \in Seq(X) /\ X \subseteq S
  BY DEF IsList
<1>2. /\ b \in Seq(S) /\ Len(b) = 3 /\ b[1] = one /\ b[2] = two /\ b[3] = three
  <2> HIDE DEF one, two, three
  <2> QED OBVIOUS
<1>3. b = BuiltinConstants
  BY DEF BuiltinConstants
<1>4. IsJoin(s, b, rest)
  BY <1>3 DEF BeginsWith, IsJoin
<1> HIDE DEF X, S, b, one, two, three
<1>5. s \in Seq(S) /\ Len(s) \in Nat /\ DOMAIN s = 1..Len(s)
  <2>1. s \in Seq(S)
    BY ONLY <1>1, Widened
  <2> QED BY ONLY <2>1, LenProperties
<1>6. rest \in Seq(S)
  <2>1. \A i \in 4..Len(s) : s[i] \in S
    BY <1>5, ElementOfSeq
  <2>2. rest = SubSeq(s, 4, Len(s))
    BY <1>2
  <2> HIDE DEF rest
  <2> QED BY ONLY <1>5, <2>1, <2>2, SubSeqProperties
<1> HIDE DEF rest
<1>7. s \in Seq(S) /\ Len(s) = Len(b) + Len(rest) /\ Len(rest) \in Nat /\ \A i \in 1..Len(b) : s[i] = b[i]
  <2>1. b \in Seq(S) /\ s = b \o rest
    BY <1>2, <1>4 DEF IsJoin
  <2> QED BY ONLY <1>6, <2>1, Concatenated
<1>8. s[1] = b[1] /\ s[2] = b[2] /\ s[3] = b[3]
  BY <1>2, <1>7
<1> QED BY <1>2, <1>5, <1>7, <1>8 DEF one, two, three

\* run_vm: the heap is made of the constants.
IsBegun(hp, constants) ==
  hp = [i \in DOMAIN constants |->
          Object(constants[i].type, constants[i].n, <<>>, 0, constants[i].type \in BoxTypes)]

\* The heap that the execution begins with is good.
LEMMA HeapBegun ==
  ASSUME NEW c, IsProgram(c), NEW L, NEW A, Verified(c, L, A), NEW hp, IsBegun(hp, c.constants)
  PROVE  GoodHeap(hp, READY, c, A) /\ UNIT_BOX \in DOMAIN hp
<1> DEFINE k == c.constants
<1>1. /\ DOMAIN k = 1..Len(k) /\ Len(k) \in Nat /\ Len(k) >= 3
      /\ k[2].n = 1 /\ k[3].n = 0
  BY BuiltinsFirst DEF IsProgram
<1>2. \A i \in DOMAIN k : IsConstant(c, k[i])
  BY DEF Verified
<1>3. /\ DOMAIN hp = DOMAIN k
      /\ \A i \in DOMAIN hp : hp[i] = Object(k[i].type, k[i].n, <<>>, 0, k[i].type \in BoxTypes)
  BY DEF IsBegun
<1> HIDE DEF k
<1>4. IsList(hp)
  <2> DEFINE X == { hp[i] : i \in DOMAIN hp }
  <2>1. hp \in [1..Len(k) -> X]
    BY <1>1, <1>3 DEF IsBegun, k
  <2> HIDE DEF X
  <2>2. hp \in Seq(X)
    BY <1>1, <2>1
  <2> QED BY <2>2 DEF IsList, X
<1>5. ASSUME NEW i \in DOMAIN hp
      PROVE  Shaped(hp[i], hp, c, A) /\ Filled(hp[i], hp) /\ DOMAIN hp[i].fields = {}
  <2>1. /\ IsObject(hp[i]) /\ hp[i].type = k[i].type /\ hp[i].n = k[i].n /\ hp[i].fields = <<>>
        /\ hp[i].link = 0
    BY <1>3 DEF Object, IsObject
  <2>2. IsConstant(c, k[i])
    BY <1>2, <1>3
  <2>3. /\ hp[i].type \notin {"application", "cons", "object"}
        /\ hp[i].type \in {"closure", "thunk"} => k[i].n \in DOMAIN c.closures /\ c.closures[k[i].n].capture_count = 0
        /\ hp[i].type = "thunk" => c.closures[k[i].n].arity = 0
    BY <2>1, <2>2 DEF IsConstant, BoxTypes
  <2>4. <<>> \in Seq(Nat) /\ Len(<<>>) = 0 /\ DOMAIN <<>> = {}
    OBVIOUS
  <2> QED BY <2>1, <2>3, <2>4 DEF Shaped, Filled
<1>6. ~IsMade(READY)
  BY DEF IsMade, READY, Kind
<1>7. FALSE_BOX \in DOMAIN hp /\ TRUE_BOX \in DOMAIN hp /\ UNIT_BOX \in DOMAIN hp
  BY <1>1, <1>3 DEF FALSE_BOX, TRUE_BOX, UNIT_BOX
<1>8. hp[TRUE_BOX].n = 1 /\ hp[FALSE_BOX].n = 0
  BY <1>1, <1>3, <1>7 DEF Object, TRUE_BOX, FALSE_BOX
<1> QED BY <1>3, <1>4, <1>5, <1>6, <1>7, <1>8 DEF GoodHeap, k

\* The first instruction finds what the layouts say of address 0.
LEMMA Begun ==
  ASSUME NEW c, IsProgram(c), NEW L, NEW A, Verified(c, L, A), NEW hp, IsBegun(hp, c.constants)
  PROVE  KeepsTo(c, L, A, hp, <<>>, <<>>, Raw(0), Val(UNIT_BOX), 0)
<1>1. GoodHeap(hp, READY, c, A) /\ UNIT_BOX \in DOMAIN hp
  BY HeapBegun
<1>2. 0 \in DOMAIN L /\ L[0] = Start
  BY DEF Verified
<1>3. /\ Start.place = "main" /\ Start.mode = READY /\ Start.words = <<>> /\ Start.binds = <<>>
      /\ Start.reg = NOTHING
  BY DEF Start
<1>4. READY # RETURNING /\ READY # APPLYING /\ READY # FAILING /\ READY.kind # "tested"
  BY DEF READY, RETURNING, APPLYING, FAILING, Kind
<1>5. Typed(hp, <<>>, <<>>, Raw(0), Val(UNIT_BOX))
  <2>1. Raw(0) \in Words /\ ~Raw(0).tag /\ Val(UNIT_BOX) \in Words /\ Val(UNIT_BOX).tag /\ Val(UNIT_BOX).n = UNIT_BOX
    BY DEF Raw, Val, Words, UNIT_BOX
  <2>2. <<>> \in Seq(Words) /\ <<>> \in Seq(Nat) /\ DOMAIN <<>> = {}
    OBVIOUS
  <2> QED BY ONLY <1>1, <2>1, <2>2 DEF Typed, IsRef
<1>6. Stacked(L, hp, <<>>, <<>>, <<>>, 0, 0, 0)
  BY DEF Stacked, TopOf, BindingsOf
<1>7. Current(hp, <<>>, <<>>, Raw(0), 0, 0, 0, Start)
  <2>1. Len(<<>>) = 0 /\ DOMAIN <<>> = {} /\ 1..0 = {}
    OBVIOUS
  <2> QED BY <1>3, <1>4, <2>1 DEF Current, Underneath, AreWords, AreBindings
<1>8. InFrame(c, L, A, hp, <<>>, <<>>, Raw(0), Val(UNIT_BOX), 0, <<>>, 0, 0, 0, 0)
  BY <1>1, <1>2, <1>3, <1>5, <1>6, <1>7 DEF InFrame, IsPlace
<1> QED BY <1>2, <1>3, <1>4, <1>8 DEF KeepsTo, Kept

-----------------------------------------------------------------------------
(* The machine finds what an instruction takes.                            *)
Finds(n, raw) ==
  /\ Len(stack) >= n + raw
  /\ \A i \in 0..(n - 1) : Word(i).tag /\ Ref(i) \in DOMAIN heap

\* References that the layout has are on the stack.
LEMMA ReferencesFound ==
  ASSUME NEW L, NEW A, NEW fr, NEW m, NEW low, NEW base, NEW blow, Running(L, A, fr, m, low, base, blow),
         NEW n \in Nat, HasReferences(L[ip], n), NEW k \in 0..n
  PROVE  Finds(k, 0)
<1>1. Len(stack) \in Nat /\ Len(L[ip].words) \in Nat /\ Len(stack) >= n
  BY ReferencesOnTop, TypedHere DEF Running
<1>2. ASSUME NEW i \in 0..(k - 1)
      PROVE  Word(i).tag /\ Ref(i) \in DOMAIN heap
  <2>1. i \in Nat /\ i \in 0..(n - 1) /\ i < Len(L[ip].words)
    BY <1>1 DEF HasReferences
  <2>2. IsReference(FromTop(L[ip].words, i))
    BY <2>1 DEF HasReferences
  <2>3. Known(heap, Word(i), FromTop(L[ip].words, i), blow)
    BY <2>1, WordHere
  <2> QED BY <2>2, <2>3 DEF Known, IsRef, Ref
<1>3. Len(stack) >= k + 0
  BY <1>1
<1> QED BY <1>2, <1>3 DEF Finds

\* So are words.
LEMMA WordsFound ==
  ASSUME NEW L, NEW A, NEW fr, NEW m, NEW low, NEW base, NEW blow, Running(L, A, fr, m, low, base, blow),
         NEW n \in Nat, Len(L[ip].words) >= n
  PROVE  Finds(0, n)
<1>1. /\ Len(stack) \in Nat /\ Len(stack) = base + Len(L[ip].words) /\ base \in Nat
      /\ Len(L[ip].words) \in Nat
  BY TypedHere DEF Current
<1>2. Len(stack) >= 0 + n /\ 0..(0 - 1) = {}
  BY <1>1
<1> QED BY <1>2 DEF Finds

\* What FindsOperands asks for.
PoppedBy(o, x) == IF o = "CALL_EXTERN" THEN ExternOperands(x) ELSE Operands(o)
\* What pop_val and the stack are asked for is there.
LEMMA FoundOperands ==
  ASSUME Finds(PoppedBy(op, arg), RawOperands(op))
  PROVE  FindsOperands
BY DEF Finds, FindsOperands, PoppedBy

\* An instruction that computes finds its operands.
LEMMA PlainReady ==
  ASSUME NEW L, NEW A, NEW fr, NEW m, NEW low, NEW base, NEW blow, Running(L, A, fr, m, low, base, blow),
         Computes(chunk, L, A, ip)
  PROVE  FindsOperands
<1> DEFINE i == Here
           n == Taken(i)
<1>1. i.op = op /\ i.arg = arg
  BY HereIs
<1>2. IsPlain(i) /\ HasReferences(L[ip], n) /\ n \in Nat /\ (i.op = "PARTIAL_APPLY" => i.arg \in Nat)
  BY Sizes DEF Computes, Here
<1>3. CASE i.op = "TRANSFER_STACK_REG"
  <2>1. n = 1 /\ Operands(op) = 0 /\ RawOperands(op) = 1
    BY <1>1, <1>3 DEF Taken, Operands, RawOperands
  <2>2. Len(L[ip].words) >= 1
    BY <1>2, <2>1 DEF HasReferences
  <2>3. Finds(0, 1)
    BY <2>2, WordsFound
  <2> QED BY <1>1, <1>3, <2>1, <2>3, FoundOperands DEF PoppedBy
<1>4. CASE i.op = "PARTIAL_APPLY"
  <2>1. n = i.arg + 1 /\ Operands(op) = 1 /\ RawOperands(op) = 0
    BY <1>1, <1>4 DEF Taken, Operands, RawOperands
  <2>2. 1 \in 0..n
    BY <1>2, <1>4, <2>1
  <2>3. Finds(1, 0)
    BY <1>2, <2>2, ReferencesFound
  <2> QED BY <1>1, <1>4, <2>1, <2>3, FoundOperands DEF PoppedBy
<1>5. CASE i.op \notin {"TRANSFER_STACK_REG", "PARTIAL_APPLY"}
  <2>1. RawOperands(op) = 0
    BY <1>1, <1>2, <1>5 DEF RawOperands, IsPlain
  <2>2. n = PoppedBy(op, arg)
    BY <1>1, <1>5 DEF Taken, PoppedBy
  <2>3. n \in 0..n
    BY <1>2
  <2>4. Finds(n, 0)
    BY <1>2, <2>3, ReferencesFound
  <2> QED BY <2>1, <2>2, <2>4, FoundOperands
<1> QED BY <1>3, <1>4, <1>5

\* So does one that moves words,
LEMMA MovesReady ==
  ASSUME NEW L, NEW A, NEW fr, NEW m, NEW low, NEW base, NEW blow, Running(L, A, fr, m, low, base, blow),
         Moves(chunk, L, ip)
  PROVE  FindsOperands
<1> DEFINE raw == RawOperands(op)
<1>1. Here.op = op /\ Here.arg = arg
  BY HereIs
<1>2. /\ PoppedBy(op, arg) = 0 /\ raw \in Nat
      /\ raw # 0 => Len(L[ip].words) >= raw
  BY <1>1 DEF Moves, Here, PoppedBy, Operands, RawOperands, HasReferences
<1>3. Len(L[ip].words) \in Nat
  BY TypedHere
<1>4. Len(L[ip].words) >= raw
  BY <1>2, <1>3
<1> HIDE DEF raw
<1>5. Finds(0, raw)
  BY <1>2, <1>4, WordsFound
<1> QED BY <1>2, <1>5, FoundOperands DEF raw

\* one that branches, binds or makes an object,
LEMMA OthersReady ==
  ASSUME NEW L, NEW A, NEW fr, NEW m, NEW low, NEW base, NEW blow, Running(L, A, fr, m, low, base, blow),
         VerifiedHere(L, A), Forks(chunk, L, ip) \/ Binds(chunk, L, ip) \/ Makes(chunk, L, A, ip)
  PROVE  FindsOperands
<1> DEFINE popped == PoppedBy(op, arg)
<1>1. Here.op = op /\ Here.arg = arg
  BY HereIs
<1>2. CASE Forks(chunk, L, ip)
  <2>1. popped = 1 /\ RawOperands(op) = 0 /\ HasReferences(L[ip], 1)
    BY <1>1, <1>2 DEF Forks, Here, PoppedBy, Operands, RawOperands
  <2>2. Finds(1, 0)
    BY <2>1, ReferencesFound
  <2> QED BY <2>1, <2>2, FoundOperands
<1>3. CASE Binds(chunk, L, ip)
  <2>1. popped = 0 /\ RawOperands(op) \in {0, 1} /\ (RawOperands(op) = 1 => Len(L[ip].words) >= 1)
    BY <1>1, <1>3 DEF Binds, Here, PoppedBy, Operands, RawOperands, HasReferences
  <2>2. Len(L[ip].words) \in Nat
    BY TypedHere
  <2>3. Finds(0, RawOperands(op))
    <3>1. Len(L[ip].words) >= 0
      BY <2>2
    <3>2. Finds(0, 0)
      BY <3>1, WordsFound
    <3>3. RawOperands(op) = 1 => Finds(0, 1)
      BY <2>1, WordsFound
    <3> QED BY <2>1, <3>2, <3>3
  <2> QED BY <2>1, <2>3, FoundOperands
<1>4. CASE Makes(chunk, L, A, ip)
  <2>1. RawOperands(op) = 0
    BY <1>1, <1>4 DEF Makes, Here, RawOperands
  <2>2. popped = 0 \/ (popped = 1 /\ HasReferences(L[ip], 1))
    <3>1. CASE op \in {"CREATE_CLOSURE", "CREATE_THUNK"}
      BY <3>1 DEF PoppedBy, Operands
    <3>2. CASE op \in {"WRITE_CLOSURE", "WRITE_THUNK"}
      <4> DEFINE n == chunk.closures[L[ip].mode.n].capture_count
      <4>1. HasReferences(L[ip], n + 1) /\ L[ip].mode.n \in DOMAIN chunk.closures
        BY <1>1, <1>4, <3>2 DEF Makes, Here
      <4>2. n \in Nat
        BY <4>1 DEF VerifiedHere, Verified, IsInfo
      <4> HIDE DEF n
      <4>3. HasReferences(L[ip], 1)
        <5>1. Len(L[ip].words) \in Nat
          BY TypedHere
        <5>2. 0 \in 0..(n + 1 - 1) /\ Len(L[ip].words) >= 1
          BY <4>1, <4>2, <5>1 DEF HasReferences
        <5> DEFINE references == { i \in Nat : IsReference(FromTop(L[ip].words, i)) }
        <5>3. IsReference(FromTop(L[ip].words, 0))
          <6>1. 0..(n + 1 - 1) \subseteq references
            BY <4>1, <4>2 DEF HasReferences
          <6>2. 0 \in references
            BY <5>2, <6>1
          <6> QED BY <6>2
        <5>4. 0..(1 - 1) = {0}
          OBVIOUS
        <5>5. \A i \in 0..(1 - 1) : IsReference(FromTop(L[ip].words, i))
          BY <5>3, <5>4
        <5> QED BY <5>2, <5>5 DEF HasReferences
      <4> QED BY <3>2, <4>3 DEF PoppedBy, Operands
    <3>3. CASE op = "IS_VARIANT"
      BY <1>1, <1>4, <3>3 DEF Makes, Here, PoppedBy, Operands
    <3>4. CASE op = "OBJECT_READ"
      <4>1. Len(L[ip].words) >= 1 /\ FromTop(L[ip].words, 0).kind = "variant"
        BY <1>1, <1>4, <3>4 DEF Makes, Here
      <4>2. HasReferences(L[ip], 1)
        BY <4>1 DEF HasReferences, IsReference
      <4> QED BY <3>4, <4>2 DEF PoppedBy, Operands
    <3> QED BY <1>1, <1>4, <3>1, <3>2, <3>3, <3>4 DEF Makes, Here
  <2> HIDE DEF popped
  <2>3. Finds(popped, 0)
    <3>1. Len(L[ip].words) \in Nat
      BY TypedHere
    <3>2. CASE popped = 0
      <4>1. Len(L[ip].words) >= 0
        BY <3>1
      <4>2. Finds(0, 0)
        BY <4>1, WordsFound
      <4> QED BY <3>2, <4>2
    <3>3. CASE popped = 1 /\ HasReferences(L[ip], 1)
      <4>1. Finds(1, 0)
        BY <3>3, ReferencesFound
      <4> QED BY <3>3, <4>1
    <3> QED BY <2>2, <3>2, <3>3
  <2> QED BY <2>1, <2>3, FoundOperands DEF popped
<1> QED BY <1>2, <1>3, <1>4

\* and one that waits for a value.
LEMMA EntersReady ==
  ASSUME NEW L, NEW A, NEW fr, NEW m, NEW low, NEW base, NEW blow, Running(L, A, fr, m, low, base, blow),
         Enters(chunk, L, ip)
  PROVE  FindsOperands
<1> DEFINE l == L[ip]
<1>1. Here.op = op /\ Here.arg = arg
  BY HereIs
<1>2. CASE op = "EVAL"
  <2>1. HasReferences(l, 1)
    BY <1>1, <1>2 DEF Enters, Here, Waits, HasReferences, IsReference, VALUE, Kind
  <2>2. Finds(1, 0)
    BY <2>1, ReferencesFound
  <2> QED BY <1>2, <2>2, FoundOperands DEF PoppedBy, Operands, RawOperands
<1>3. CASE op = "JUMP_GLOBALS"
  <2>1. Len(L[ip].words) >= 0
    BY TypedHere
  <2>2. Finds(0, 0)
    BY <2>1, WordsFound
  <2> QED BY <1>3, <2>2, FoundOperands DEF PoppedBy, Operands, RawOperands
<1>4. CASE op = "UPDATE_THUNK"
  <2>1. Len(l.words) >= 2 /\ FromTop(l.words, 0) = WHNF /\ FromTop(l.words, 1) = THUNK
    BY <1>1, <1>4 DEF Enters, Here
  <2>2. IsReference(WHNF) /\ IsReference(THUNK)
    BY DEF IsReference, WHNF, THUNK, Kind
  <2>3. \A i \in 0..(2 - 1) : IsReference(FromTop(l.words, i))
    BY <2>1, <2>2
  <2>4. HasReferences(l, 2)
    BY <2>1, <2>3 DEF HasReferences
  <2>5. Finds(2, 0)
    BY <2>4, ReferencesFound
  <2> QED BY <1>4, <2>5, FoundOperands DEF PoppedBy, Operands, RawOperands
<1>5. CASE op = "HANDLE_CONTINUATION"
  <2>1. l.mode = APPLYING /\ Len(l.words) = 1 /\ HasReferences(l, 1)
    BY <1>1, <1>5 DEF Enters, Here
  <2>2. Finds(1, 0)
    BY <2>1, ReferencesFound
  <2>3. base \in Nat /\ base > low /\ low \in Nat /\ Len(stack) = base + 1
    <3>1. Current(heap, stack, bindings, reg_1, low, base, blow, l) /\ low \in Nat
      BY TypedHere
    <3>2. Arguments(heap, stack, low, base) /\ Len(stack) = base + 1
      BY <2>1, <3>1 DEF Current, Underneath
    <3> QED BY <3>1, <3>2 DEF Arguments
  <2>4. Len(stack) >= 1 + 1
    BY <2>3
  <2>5. Finds(1, 1)
    BY <2>2, <2>4 DEF Finds
  <2> QED BY <1>5, <2>5, FoundOperands DEF PoppedBy, Operands, RawOperands
<1> QED BY <1>1, <1>2, <1>3, <1>4, <1>5 DEF Enters, Here

\* A function that returns has a frame below it, and thus the address.
LEMMA LeavesReady ==
  ASSUME NEW L, NEW A, NEW fr, NEW m, NEW low, NEW base, NEW blow, Running(L, A, fr, m, low, base, blow),
         Leaves(chunk, L, ip), op = "SWAP"
  PROVE  FindsOperands
<1> DEFINE l == L[ip]
           f == fr[m]
<1>1. l.mode = READY /\ l.place = "function" /\ Len(l.words) = 1
  BY HereIs DEF Leaves, Here
<1>2. /\ AllLayouts(L) /\ Stacked(L, heap, stack, bindings, fr, m, low, blow) /\ IsPlace(l, m)
      /\ Current(heap, stack, bindings, reg_1, low, base, blow, l)
  BY DEF Running, InFrame
<1>3. base = low /\ Len(stack) = base + 1
  BY <1>1, <1>2 DEF Current, Underneath, READY, APPLYING, Kind
<1>4. m # 0
  BY <1>1, <1>2 DEF IsPlace
<1>5. Suspended(L, heap, stack, bindings, f) /\ f.top = low
  BY <1>2, <1>4, Unstacked
<1>6. f.base \in Nat /\ f.top \in Nat /\ f.base < f.top
  BY <1>2, <1>5, FrameBounds
<1>7. Len(stack) >= 0 + 2
  BY <1>3, <1>5, <1>6
<1>8. Finds(0, 2)
  BY <1>7 DEF Finds
<1> QED BY <1>8, FoundOperands DEF PoppedBy, Operands, RawOperands

\* No operand is executed as an instruction.
LEMMA IsInstruction ==
  ASSUME NEW c, NEW L, NEW A, NEW a, Obeys(c, L, A, a)
  PROVE  Instr(c, a).op # "operand"
<1> DEFINE i == Instr(c, a)
<1>1. Computes(c, L, A, a) => i.op # "operand"
  BY DEF Computes, IsPlain
<1>2. Moves(c, L, a) => i.op # "operand"
  BY DEF Moves
<1>3. Forks(c, L, a) => i.op # "operand"
  BY DEF Forks
<1>4. Binds(c, L, a) => i.op # "operand"
  BY DEF Binds
<1>5. Makes(c, L, A, a) => i.op # "operand"
  BY DEF Makes
<1>6. Enters(c, L, a) => i.op # "operand"
  BY DEF Enters
<1>7. Leaves(c, L, a) => i.op # "operand"
  BY DEF Leaves
<1> QED BY <1>1, <1>2, <1>3, <1>4, <1>5, <1>6, <1>7 DEF Obeys

(* Keeping to the layouts the machine finds what it needs.                 *)
LEMMA AlwaysReady ==
  ASSUME NEW L, NEW A, VerifiedHere(L, A), KeepsHere(L, A)
  PROVE  Ready
<1>1. ObeysHere(L, A) /\ (L[ip].mode = RETURNING \/ IsRunning(L, A))
  BY RunsOrReturns
<1>2. WithinCode
  BY <1>1 DEF ObeysHere, Obeys, WithinCode
<1>3. op # "operand"
  <2>1. Here.op # "operand"
    BY <1>1, IsInstruction DEF ObeysHere, Here
  <2> QED BY <2>1, HereIs
<1>4. CASE op \in {"END", "PATTERN_MATCH_FAIL"}
  <2>1. IsRunning(L, A) \/ Len(stack) \in Nat
    <3>1. L[ip].mode = RETURNING => stack \in Seq(Words)
      BY DEF KeepsHere, KeepsTo
    <3> QED BY <1>1, <3>1, LenProperties
  <2>2. IsRunning(L, A) => Len(stack) \in Nat
    BY TypedHere, LenProperties DEF IsRunning, Typed
  <2>3. Finds(0, 0)
    BY <2>1, <2>2 DEF Finds
  <2>4. FindsOperands
    BY <1>4, <2>3, FoundOperands DEF PoppedBy, Operands, RawOperands
  <2> QED BY <1>2, <1>3, <2>4 DEF Ready
<1>5. CASE L[ip].mode = RETURNING /\ op \notin {"END", "PATTERN_MATCH_FAIL"}
  <2>1. op = "JUMP"
    <3>1. Here.op \in {"JUMP", "PATTERN_MATCH_FAIL", "END"}
      BY <1>1, <1>5, Sorts DEF ObeysHere, Here
    <3> QED BY <1>5, <3>1, HereIs
  <2>2. Len(stack) >= 1
    BY <1>5 DEF KeepsHere, KeepsTo
  <2>3. Finds(0, 1)
    BY <2>2 DEF Finds
  <2>4. FindsOperands
    BY <2>1, <2>3, FoundOperands DEF PoppedBy, Operands, RawOperands
  <2> QED BY <1>2, <1>3, <2>4 DEF Ready
<1>6. CASE IsRunning(L, A) /\ L[ip].mode # RETURNING /\ op \notin {"END", "PATTERN_MATCH_FAIL"}
  <2>1. PICK fr, m, low, base, blow : Running(L, A, fr, m, low, base, blow)
    BY <1>6 DEF IsRunning
  <2>2. \/ Computes(chunk, L, A, ip) \/ Moves(chunk, L, ip) \/ Forks(chunk, L, ip) \/ Binds(chunk, L, ip)
        \/ Makes(chunk, L, A, ip) \/ Enters(chunk, L, ip) \/ Leaves(chunk, L, ip)
    BY <1>1 DEF ObeysHere, Obeys
  <2>3. Leaves(chunk, L, ip) => op = "SWAP"
    BY <1>6, HereIs DEF Leaves, Here
  <2>4. FindsOperands
    BY <2>1, <2>2, <2>3, PlainReady, MovesReady, OthersReady, EntersReady, LeavesReady
  <2> QED BY <1>2, <1>3, <2>4 DEF Ready
<1> QED BY <1>1, <1>2, <1>3, <1>4, <1>5, <1>6 DEF Ready

-----------------------------------------------------------------------------
(***************************************************************************)
(* The execution of verified code.                                         *)
(***************************************************************************)
Labels == Layouts[program].at
Arities == Layouts[program].arity
\* Where the machine is, and why it stopped.
Sane ==
  /\ program \in DOMAIN Programs
  /\ VerifiedHere(Labels, Arities) /\ KeepsHere(Labels, Arities)
  /\ status \in {"running", "ok", "error", "fault"}
  /\ status = "fault" => op \in {"DIVIDE", "CALL_EXTERN"}
  /\ status = "ok" => op = "END"

\* Before the first instruction.
LEMMA SaneAtFirst ==
  ASSUME Init, CodeObeys
  PROVE  Sane
<1>1. /\ program \in DOMAIN Programs /\ status = "running" /\ ip = 0 /\ stack = <<>> /\ bindings = <<>>
      /\ reg_1 = Raw(0) /\ exception_reg = Val(UNIT_BOX) /\ IsBegun(heap, chunk.constants)
  BY DEF Init, run_vm, IsBegun
<1>2. VerifiedHere(Labels, Arities)
  BY <1>1 DEF CodeObeys, VerifiedHere, Labels, Arities
<1>3. IsProgram(chunk)
  BY <1>1, ProgramsAssumption DEF chunk
<1> DEFINE L == Labels
           A == Arities
<1> HIDE DEF L, A
<1>4. KeepsTo(chunk, L, A, heap, <<>>, <<>>, Raw(0), Val(UNIT_BOX), 0)
  BY <1>1, <1>2, <1>3, Begun DEF VerifiedHere, L, A
<1>5. KeepsHere(Labels, Arities)
  BY <1>1, <1>4 DEF KeepsHere, L, A
<1> QED BY <1>1, <1>2, <1>5 DEF Sane

\* What a step makes of the machine, for layouts that are not those of another program.
LEMMA SaneStep ==
  ASSUME NEW L, NEW A, L = Labels, A = Arities, Sane, Step
  PROVE  Sane'
<1>1. Sound(L, A)
  BY StepSound DEF Sane
<1>2. program' = program
  BY ProgramKept DEF Next
<1>3. Labels' = L /\ Arities' = A /\ chunk' = chunk
  BY <1>2 DEF Labels, Arities, chunk
<1>4. (VerifiedHere(Labels, Arities))'
  <2>1. Verified(chunk, L, A)
    BY DEF Sane, VerifiedHere
  <2> QED BY <1>3, <2>1 DEF VerifiedHere
<1>5. CASE GoesOnWell(L, A)
  <2>1. KeepsTo(chunk, L, A, heap', stack', bindings', reg_1', exception_reg', ip') /\ status' = "running"
    BY <1>5 DEF GoesOnWell
  <2>2. (KeepsHere(Labels, Arities))'
    BY <1>3, <2>1 DEF KeepsHere
  <2> QED BY <1>2, <1>4, <2>1, <2>2 DEF Sane
<1>6. CASE StopsWell
  <2>1. /\ ip' = ip /\ stack' = stack /\ bindings' = bindings /\ reg_1' = reg_1 /\ heap' = heap
        /\ exception_reg' = exception_reg
    BY <1>6 DEF StopsWell
  <2>2. op' = op
    BY <1>3, <2>1 DEF op, At
  <2>3. (KeepsHere(Labels, Arities))'
    <3>1. KeepsTo(chunk, L, A, heap, stack, bindings, reg_1, exception_reg, ip)
      BY DEF Sane, KeepsHere
    <3> QED BY <1>3, <2>1, <3>1 DEF KeepsHere
  <2> QED BY <1>2, <1>4, <1>6, <2>2, <2>3 DEF Sane, StopsWell
<1> QED BY <1>1, <1>5, <1>6 DEF Sound

\* What the layouts say is true from the first instruction to the last.
LEMMA SaneAlways == Spec /\ CodeObeys => []Sane
<1>1. Init /\ CodeObeys => Sane
  BY SaneAtFirst
<1>2. Sane /\ [Next]_vm_vars => Sane'
  <2> SUFFICES ASSUME Sane, [Next]_vm_vars
               PROVE  Sane'
    OBVIOUS
  <2>1. CASE Step
    BY <2>1, SaneStep
  <2>2. CASE UNCHANGED vm_vars
    BY <2>2 DEF vm_vars, outside, Sane, VerifiedHere, KeepsHere, Labels, Arities, chunk, op, At
  <2> QED BY <2>1, <2>2 DEF Next, Stopped
<1> QED BY <1>1, <1>2, PTL DEF Spec

\* The words, the bindings and the heap of a machine that keeps to layouts.
LEMMA TypedThroughout ==
  ASSUME NEW L, NEW A, KeepsHere(L, A)
  PROVE  /\ \A n \in DOMAIN stack : stack[n].tag => stack[n].n \in DOMAIN heap
         /\ \A n \in DOMAIN bindings : bindings[n] \in DOMAIN heap
         /\ \A i \in DOMAIN heap : /\ heap[i].link \in {0} \cup DOMAIN heap
                                   /\ \A n \in DOMAIN heap[i].fields : heap[i].fields[n] \in {0} \cup DOMAIN heap
<1>1. CASE L[ip].mode = RETURNING
  <2> DEFINE size == Len(stack)
             below == Drop(stack, 1)
  <2>1. /\ stack \in Seq(Words) /\ size >= 1 /\ ~stack[size].tag
        /\ Kept(chunk, L, A, heap, below, bindings, reg_1, exception_reg, stack[size].n)
    BY <1>1 DEF KeepsHere, KeepsTo
  <2>2. /\ Typed(heap, below, bindings, reg_1, exception_reg)
        /\ \E mode : GoodHeap(heap, mode, chunk, A)
    BY <2>1 DEF Kept, InFrame
  <2>3. size \in Nat /\ DOMAIN stack = 1..size
    BY <2>1, LenProperties
  <2>4. Len(below) = size - 1 /\ \A i \in 1..(size - 1) : below[i] = stack[i]
    <3>1. size - 1 \in Nat /\ size - 1 <= size
      BY <2>1, <2>3
    <3>2. below = SubSeq(stack, 1, size - 1)
      BY DEF Drop
    <3> HIDE DEF below, size
    <3>3. stack \in Seq(Words) /\ size = Len(stack)
      BY <2>1 DEF size
    <3> QED BY ONLY <3>1, <3>2, <3>3, SubSeqProperties
  <2>5. DOMAIN below = 1..(size - 1)
    <3>1. below \in Seq(Words)
      BY <2>2 DEF Typed
    <3> QED BY <2>4, <3>1, LenProperties
  <2> HIDE DEF below, size
  <2>6. ASSUME NEW n \in DOMAIN stack, stack[n].tag
        PROVE  stack[n].n \in DOMAIN heap
    <3>1. n # size
      BY <2>1, <2>6
    <3>2. n \in 1..(size - 1)
      BY <2>3, <3>1
    <3>3. below[n] = stack[n] /\ n \in DOMAIN below
      BY <2>4, <2>5, <3>2
    <3> QED BY <2>2, <2>6, <3>3 DEF Typed
  <2>7. \A n \in DOMAIN bindings : bindings[n] \in DOMAIN heap
    BY <2>2 DEF Typed
  <2>8. \A i \in DOMAIN heap : /\ heap[i].link \in {0} \cup DOMAIN heap
                               /\ \A n \in DOMAIN heap[i].fields : heap[i].fields[n] \in {0} \cup DOMAIN heap
    BY <2>2 DEF GoodHeap, Shaped
  <2> QED BY <2>6, <2>7, <2>8
<1>2. CASE L[ip].mode # RETURNING
  <2>1. Kept(chunk, L, A, heap, stack, bindings, reg_1, exception_reg, ip)
    BY <1>2 DEF KeepsHere, KeepsTo
  <2>2. /\ Typed(heap, stack, bindings, reg_1, exception_reg)
        /\ \E mode : GoodHeap(heap, mode, chunk, A)
    BY <2>1 DEF Kept, InFrame
  <2>3. \A i \in DOMAIN heap : /\ heap[i].link \in {0} \cup DOMAIN heap
                               /\ \A n \in DOMAIN heap[i].fields : heap[i].fields[n] \in {0} \cup DOMAIN heap
    BY <2>2 DEF GoodHeap, Shaped
  <2> QED BY <2>2, <2>3 DEF Typed
<1> QED BY <1>1, <1>2

(* The words and the objects of a machine that executes verified code are  *)
(* what they should be: no reference leads outside of the heap.            *)
THEOREM TypeCorrect == Spec /\ CodeObeys => []TypeOK
<1>1. Sane => TypeOK
  <2> SUFFICES ASSUME Sane
               PROVE  TypeOK
    OBVIOUS
  <2> DEFINE L == Labels
             A == Arities
  <2>1. VerifiedHere(L, A) /\ KeepsHere(L, A)
    BY DEF Sane
  <2>2. Len(chunk.code) \in Nat
    <3>1. IsList(chunk.code)
      BY ProgramsAssumption DEF Sane, chunk, IsProgram
    <3> QED BY <3>1, ListLength
  <2> HIDE DEF L, A
  <2>3. ip \in 0..(Len(chunk.code) - 1)
    BY <2>1, RunsOrReturns DEF ObeysHere, Obeys
  <2>4. ip \in Nat
    BY <2>2, <2>3
  <2> QED BY <2>1, <2>4, TypedThroughout DEF TypeOK, Sane
<1> QED BY <1>1, SaneAlways, PTL

\* The machine panics only where a division or an extern function has no defined result.
OnlyUndefined == status = "fault" => op \in {"DIVIDE", "CALL_EXTERN"}

(* Verified code never makes the machine look for a word, a binding or a   *)
(* field that is not there, and never executes the inside of an            *)
(* instruction (vm.c, utils.c); what is left to go wrong are divisions and *)
(* extern functions (extern_functions.c).                                  *)
THEOREM AlwaysFound == Spec /\ CodeObeys => [](Ready /\ OnlyUndefined)
<1>1. Sane => Ready /\ OnlyUndefined
  <2> SUFFICES ASSUME Sane
               PROVE  Ready /\ OnlyUndefined
    OBVIOUS
  <2>1. VerifiedHere(Labels, Arities) /\ KeepsHere(Labels, Arities)
    BY DEF Sane
  <2>2. Ready
    BY <2>1, AlwaysReady
  <2> QED BY <2>2 DEF Sane, OnlyUndefined
<1> QED BY <1>1, SaneAlways, PTL

\* Nothing that is executed divides or calls an extern function.
Pure == \A a \in DOMAIN Layouts[program].at : At(a).op \notin {"DIVIDE", "CALL_EXTERN"}

\* The code is not written to.
LEMMA NothingChanges ==
  ASSUME [Next]_vm_vars
  PROVE  /\ Pure' = Pure
         /\ EndsInMain' = EndsInMain
<1>1. program' = program
  BY ProgramKept
<1> QED BY <1>1 DEF Pure, EndsInMain, At, chunk

(* Verified code that neither divides nor calls extern functions never     *)
(* makes the machine panic.                                                *)
THEOREM NeverFaults == Spec /\ CodeObeys /\ Pure => []NoFault
<1>1. Sane /\ Ready /\ Pure => NoFault
  <2> SUFFICES ASSUME Sane, Ready, Pure
               PROVE  NoFault
    OBVIOUS
  <2>1. ip \in DOMAIN Labels
    BY DEF Sane, KeepsHere, KeepsTo
  <2>2. op \notin {"DIVIDE", "CALL_EXTERN"}
    BY <2>1 DEF Pure, Labels, op
  <2> QED BY <2>2 DEF NoFault, Sane
<1>2. Pure /\ [Next]_vm_vars => Pure'
  BY NothingChanges
<1>3. Spec /\ CodeObeys => []Ready
  <2>1. Ready /\ OnlyUndefined => Ready
    OBVIOUS
  <2> QED BY <2>1, AlwaysFound, PTL
<1> QED BY <1>1, <1>2, <1>3, SaneAlways, PTL DEF Spec

(* Verified code that ends in main leaves its result on the stacks and     *)
(* nothing else, however many functions and thunks it entered.             *)
THEOREM LeftBalanced == Spec /\ CodeObeys /\ EndsInMain => []Balanced
<1>1. Sane /\ EndsInMain => Balanced
  <2> SUFFICES ASSUME Sane, EndsInMain, status = "ok"
               PROVE  Len(stack) = 1 /\ bindings = <<>>
    BY DEF Balanced
  <2> DEFINE L == Labels
             A == Arities
             l == L[ip]
  <2>1. VerifiedHere(L, A) /\ KeepsHere(L, A) /\ op = "END" /\ ip \in DOMAIN L
    BY DEF Sane, KeepsHere, KeepsTo
  <2>2. l.place = "main" /\ l.mode = READY /\ Len(l.words) = 1 /\ l.binds = <<>>
    BY <2>1 DEF EndsInMain, Labels, op
  <2>3. READY # RETURNING /\ READY # APPLYING /\ READY # FAILING
    BY DEF READY, RETURNING, APPLYING, FAILING, Kind
  <2> HIDE DEF L, A
  <2>4. PICK fr, m, low, base, blow : Running(L, A, fr, m, low, base, blow)
    BY <2>1, <2>2, <2>3, RunsOrReturns DEF IsRunning
  <2>5. /\ Current(heap, stack, bindings, reg_1, low, base, blow, l)
        /\ Stacked(L, heap, stack, bindings, fr, m, low, blow) /\ IsPlace(l, m)
        /\ bindings \in Seq(Nat)
    BY <2>4 DEF Running, InFrame, Typed
  <2>6. m = 0
    BY <2>2, <2>5 DEF IsPlace
  <2>7. low = 0 /\ blow = 0
    BY <2>5, <2>6 DEF Stacked, TopOf, BindingsOf
  <2>8. base = low /\ Len(stack) = base + 1 /\ Len(bindings) = blow + Len(l.binds) /\ Len(l.binds) = 0
    BY <2>2, <2>3, <2>5 DEF Current, Underneath
  <2>9. Len(stack) = 1 /\ Len(bindings) = 0
    BY <2>7, <2>8
  <2> QED BY <2>5, <2>9, EmptySeq
<1>2. EndsInMain /\ [Next]_vm_vars => EndsInMain'
  BY NothingChanges
<1> QED BY <1>1, <1>2, SaneAlways, PTL DEF Spec

-----------------------------------------------------------------------------
(***************************************************************************)
(* What the instructions do with the heap.                                 *)
(***************************************************************************)
\* The words, the bindings and the objects of a machine that keeps to layouts.
Orderly ==
  /\ Typed(heap, stack, bindings, reg_1, exception_reg)
  /\ \E mode, A : GoodHeap(heap, mode, chunk, A)
  /\ IsProgram(chunk)

LEMMA SaneIsOrderly ==
  ASSUME Sane
  PROVE  Orderly
<1> DEFINE L == Labels
           A == Arities
<1>1. VerifiedHere(L, A) /\ KeepsHere(L, A) /\ IsProgram(chunk)
  BY ProgramsAssumption DEF Sane, chunk
<1> HIDE DEF L, A
<1>2. CASE L[ip].mode = RETURNING
  <2> DEFINE size == Len(stack)
             below == Drop(stack, 1)
  <2>1. /\ stack \in Seq(Words) /\ size >= 1 /\ ~stack[size].tag
        /\ Kept(chunk, L, A, heap, below, bindings, reg_1, exception_reg, stack[size].n)
    BY <1>1, <1>2 DEF KeepsHere, KeepsTo
  <2>2. /\ Typed(heap, below, bindings, reg_1, exception_reg)
        /\ \E mode : GoodHeap(heap, mode, chunk, A)
    BY <2>1 DEF Kept, InFrame
  <2>3. size \in Nat /\ DOMAIN stack = 1..size
    BY <2>1, LenProperties
  <2>4. Len(below) = size - 1 /\ \A i \in 1..(size - 1) : below[i] = stack[i]
    <3>1. size - 1 \in Nat /\ size - 1 <= size
      BY <2>1, <2>3
    <3>2. below = SubSeq(stack, 1, size - 1)
      BY DEF Drop
    <3> HIDE DEF below, size
    <3>3. stack \in Seq(Words) /\ size = Len(stack)
      BY <2>1 DEF size
    <3> QED BY ONLY <3>1, <3>2, <3>3, SubSeqProperties
  <2>5. DOMAIN below = 1..(size - 1)
    <3>1. below \in Seq(Words)
      BY <2>2 DEF Typed
    <3> QED BY <2>4, <3>1, LenProperties
  <2> HIDE DEF below, size
  <2>6. ASSUME NEW n \in DOMAIN stack, stack[n].tag
        PROVE  stack[n].n \in DOMAIN heap
    <3>1. n # size
      BY <2>1, <2>6
    <3>2. n \in 1..(size - 1)
      BY <2>3, <3>1
    <3>3. below[n] = stack[n] /\ n \in DOMAIN below
      BY <2>4, <2>5, <3>2
    <3> QED BY <2>2, <2>6, <3>3 DEF Typed
  <2> QED BY <1>1, <2>1, <2>2, <2>6 DEF Typed, Orderly
<1>3. CASE L[ip].mode # RETURNING
  <2>1. Kept(chunk, L, A, heap, stack, bindings, reg_1, exception_reg, ip)
    BY <1>1, <1>3 DEF KeepsHere, KeepsTo
  <2> QED BY <1>1, <2>1 DEF Kept, InFrame, Orderly
<1> QED BY <1>2, <1>3

\* What that says of the heap.
LEMMA HeapOrderly ==
  ASSUME Orderly
  PROVE  /\ Len(heap) \in Nat /\ DOMAIN heap = 1..Len(heap) /\ 0 \notin DOMAIN heap
         /\ Len(chunk.constants) \in Nat /\ DOMAIN chunk.constants = 1..Len(chunk.constants)
         /\ DOMAIN chunk.constants \subseteq DOMAIN heap /\ Len(chunk.constants) <= Len(heap)
         /\ {UNIT_BOX, TRUE_BOX, FALSE_BOX} \subseteq DOMAIN chunk.constants
         /\ \A i \in DOMAIN heap : /\ heap[i] = Object(heap[i].type, heap[i].n, heap[i].fields, heap[i].link, heap[i].whnf)
                                   /\ heap[i].link \in {0} \cup DOMAIN heap /\ heap[i].fields \in Seq(Nat)
                                   /\ \A n \in DOMAIN heap[i].fields : heap[i].fields[n] \in {0} \cup DOMAIN heap
<1>1. PICK mode, A : GoodHeap(heap, mode, chunk, A)
  BY DEF Orderly
<1>2. Len(heap) \in Nat /\ DOMAIN heap = 1..Len(heap)
  BY <1>1, ListLength DEF GoodHeap
<1>3. 0 \notin DOMAIN heap
  BY <1>2
<1>4. DOMAIN chunk.constants \subseteq DOMAIN heap
  BY <1>1 DEF GoodHeap
<1>5. /\ DOMAIN chunk.constants = 1..Len(chunk.constants) /\ Len(chunk.constants) \in Nat
      /\ Len(chunk.constants) >= 3
  <2>1. IsList(chunk.constants) /\ BeginsWith(chunk.constants, BuiltinConstants)
    BY DEF Orderly, IsProgram
  <2> QED BY <2>1, BuiltinsFirst
<1>6. {UNIT_BOX, TRUE_BOX, FALSE_BOX} \subseteq DOMAIN chunk.constants
  BY <1>5 DEF UNIT_BOX, TRUE_BOX, FALSE_BOX
<1>7. Len(chunk.constants) <= Len(heap)
  <2>1. Len(chunk.constants) \in DOMAIN chunk.constants
    BY <1>5
  <2>2. Len(chunk.constants) \in 1..Len(heap)
    BY <1>2, <1>4, <2>1
  <2> QED BY <1>2, <1>5, <2>2
<1>8. \A i \in DOMAIN heap : /\ heap[i] = Object(heap[i].type, heap[i].n, heap[i].fields, heap[i].link, heap[i].whnf)
                             /\ heap[i].link \in {0} \cup DOMAIN heap /\ heap[i].fields \in Seq(Nat)
                             /\ \A n \in DOMAIN heap[i].fields : heap[i].fields[n] \in {0} \cup DOMAIN heap
  BY <1>1 DEF GoodHeap, Shaped, IsObject
<1> QED BY <1>2, <1>3, <1>4, <1>5, <1>6, <1>7, <1>8

\* One reference behind the roots.
Near == WithChildren(Held)
\* What an instruction finds: the roots, what they refer to, and what that refers to.
LEMMA FoundRules ==
  /\ Held \subseteq Near /\ Near \subseteq Found
  /\ \A i \in Held : Children(heap[i]) \subseteq Near
  /\ \A i \in Near : Children(heap[i]) \subseteq Found
  /\ \A n \in DOMAIN stack : stack[n].tag => stack[n].n \in Held
  /\ \A n \in DOMAIN bindings : bindings[n] \in Held
  /\ (reg_1.tag => reg_1.n \in Held) /\ (exception_reg.tag => exception_reg.n \in Held)
  /\ DOMAIN chunk.constants \subseteq Held
<1>1. \A S : S \subseteq WithChildren(S) /\ \A i \in S : Children(heap[i]) \subseteq WithChildren(S)
  BY DEF WithChildren
<1>2. /\ \A n \in DOMAIN stack : stack[n].tag => stack[n].n \in Held
      /\ \A n \in DOMAIN bindings : bindings[n] \in Held
      /\ (reg_1.tag => reg_1.n \in Held) /\ (exception_reg.tag => exception_reg.n \in Held)
      /\ DOMAIN chunk.constants \subseteq Held
  BY DEF Held, MarkedRoots, RefsOf
<1> QED BY <1>1, <1>2 DEF Near, Found

\* Words that refer to K where they are tagged.
RefsIn(K, ws) == IsList(ws) /\ \A i \in DOMAIN ws : ws[i].tag => ws[i].n \in K
LEMMA RefsReplaced ==
  ASSUME NEW K, NEW st, RefsIn(K, st), NEW n \in Nat, n <= Len(st), NEW ws, RefsIn(K, ws),
         NEW new, IsReplaced(new, st, n, ws)
  PROVE  RefsIn(K, new)
<1>1. IsList(st) /\ IsList(ws) /\ n \in 0..Len(st)
  <2>1. IsList(st) /\ IsList(ws)
    BY DEF RefsIn
  <2>2. Len(st) \in Nat
    BY <2>1, ListLength
  <2> QED BY <2>1, <2>2
<1>2. /\ IsList(new) /\ Len(st) \in Nat /\ Len(ws) \in Nat /\ Len(new) = Len(st) - n + Len(ws)
      /\ \A i \in 1..(Len(st) - n) : new[i] = st[i]
      /\ \A i \in 1..Len(ws) : new[Len(st) - n + i] = ws[i]
  BY ONLY <1>1, IsReplaced(new, st, n, ws), ListReplaced
<1>3. DOMAIN new = 1..Len(new) /\ DOMAIN st = 1..Len(st) /\ DOMAIN ws = 1..Len(ws)
  BY ONLY <1>1, <1>2, ListLength
<1> DEFINE k == Len(st) - n
<1>4. ASSUME NEW i \in DOMAIN new, new[i].tag
      PROVE  new[i].n \in K
  <2>1. CASE i \in 1..k
    <3>1. i \in 1..Len(st)
      BY ONLY <1>2, <2>1, n \in Nat
    <3>2. new[i] = st[i] /\ i \in DOMAIN st
      BY <1>2, <1>3, <2>1, <3>1
    <3> QED BY <1>4, <3>2 DEF RefsIn
  <2>2. CASE i \notin 1..k
    <3> DEFINE j == i - k
    <3>1. j \in 1..Len(ws) /\ i = k + j
      BY <1>2, <1>3, <2>2
    <3>2. new[i] = ws[j] /\ j \in DOMAIN ws
      BY <1>2, <1>3, <3>1
    <3> QED BY <1>4, <3>2 DEF RefsIn
  <2> QED BY <2>1, <2>2
<1> QED BY <1>2, <1>4 DEF RefsIn

Between == Orderly /\ Orderly' /\ program' = program
Made == DOMAIN heap' \ DOMAIN heap
\* The references of a machine are those of its words and bindings.
LEMMA HeldLater ==
  ASSUME Between, NEW K, K \subseteq Found \cup {0} \cup Made,
         RefsIn(K, stack'), \A n \in DOMAIN bindings' : bindings'[n] \in K,
         reg_1'.tag => reg_1'.n \in K, exception_reg'.tag => exception_reg'.n \in K
  PROVE  Held' \subseteq Found \cup Made
<1>1. /\ \A n \in DOMAIN stack' : stack'[n].tag => stack'[n].n \in DOMAIN heap'
      /\ \A n \in DOMAIN bindings' : bindings'[n] \in DOMAIN heap'
      /\ (reg_1'.tag => reg_1'.n \in DOMAIN heap') /\ (exception_reg'.tag => exception_reg'.n \in DOMAIN heap')
  BY DEF Between, Orderly, Typed, IsRef
<1>2. 0 \notin DOMAIN heap'
  <2>1. PICK mode, A : GoodHeap(heap', mode, chunk', A)
    BY DEF Between, Orderly
  <2>2. IsList(heap')
    BY <2>1 DEF GoodHeap
  <2>3. Len(heap') \in Nat /\ DOMAIN heap' = 1..Len(heap')
    BY <2>2, ListLength
  <2> QED BY <2>3
<1>3. \A n \in DOMAIN stack' : stack'[n].tag => stack'[n].n \in K
  BY DEF RefsIn
<1>4. DOMAIN chunk'.constants = DOMAIN chunk.constants
  BY DEF Between, chunk
<1>5. ASSUME NEW r \in Held'
      PROVE  r \in Found \cup Made
  <2>1. CASE r \in DOMAIN chunk'.constants
    BY <1>4, <2>1, FoundRules
  <2>2. CASE \E n \in DOMAIN bindings' : r = bindings'[n]
    BY <1>1, <1>2, <2>2
  <2>3. CASE \E w \in { stack'[n] : n \in DOMAIN stack' } \cup {reg_1', exception_reg'} : w.tag /\ r = w.n
    BY <1>1, <1>2, <1>3, <2>3
  <2>4. \/ r \in DOMAIN chunk'.constants \/ \E n \in DOMAIN bindings' : r = bindings'[n]
        \/ \E w \in { stack'[n] : n \in DOMAIN stack' } \cup {reg_1', exception_reg'} : w.tag /\ r = w.n
    BY <1>5 DEF Held, MarkedRoots, RefsOf
  <2> QED BY <2>1, <2>2, <2>3, <2>4
<1> QED BY <1>5

\* Nothing is written.
LEMMA UsesSame ==
  ASSUME Between, heap' = heap, RefsIn(Found \cup {0}, stack'),
         \A n \in DOMAIN bindings' : bindings'[n] \in Found,
         reg_1'.tag => reg_1'.n \in Found \cup {0}, exception_reg'.tag => exception_reg'.n \in Found
  PROVE  Uses
<1>1. Made = {}
  BY DEF Made
<1>2. Held' \subseteq Found \cup Made
  <2> DEFINE K == Found \cup {0}
  <2>1. K \subseteq Found \cup {0} \cup Made /\ RefsIn(K, stack')
        /\ (\A n \in DOMAIN bindings' : bindings'[n] \in K)
        /\ (reg_1'.tag => reg_1'.n \in K) /\ (exception_reg'.tag => exception_reg'.n \in K)
    OBVIOUS
  <2> HIDE DEF K
  <2> QED BY <2>1, HeldLater
<1> QED BY <1>1, <1>2 DEF Uses, Made

\* An object is made.
LEMMA UsesMade ==
  ASSUME Between, NEW object, IsAppended(heap', heap, object), Children(object) \subseteq Found,
         RefsIn(Found \cup {0, Len(heap) + 1}, stack'),
         \A n \in DOMAIN bindings' : bindings'[n] \in Found,
         reg_1'.tag => reg_1'.n \in Found, exception_reg'.tag => exception_reg'.n \in Found
  PROVE  Uses /\ Made = {Len(heap) + 1}
<1>1. IsList(heap) /\ DOMAIN heap = 1..Len(heap) /\ Len(heap) \in Nat
  <2>1. Orderly
    BY DEF Between
  <2> QED BY <2>1, HeapOrderly DEF Orderly, GoodHeap
<1>2. /\ Len(heap') = Len(heap) + 1 /\ heap'[Len(heap) + 1] = object
      /\ \A i \in DOMAIN heap : heap'[i] = heap[i]
      /\ DOMAIN heap' = DOMAIN heap \cup {Len(heap) + 1}
  <2>1. /\ Len(heap') = Len(heap) + 1 /\ heap'[Len(heap) + 1] = object
        /\ DOMAIN heap' = 1..(Len(heap) + 1) /\ \A i \in DOMAIN heap : heap'[i] = heap[i]
    BY ONLY <1>1, IsAppended(heap', heap, object), Appended
  <2> QED BY <1>1, <2>1
<1>3. Made = {Len(heap) + 1}
  BY <1>1, <1>2 DEF Made
<1>4. Held' \subseteq Found \cup Made
  <2> DEFINE K == Found \cup {0, Len(heap) + 1}
  <2>1. K \subseteq Found \cup {0} \cup Made /\ RefsIn(K, stack')
        /\ (\A n \in DOMAIN bindings' : bindings'[n] \in K)
        /\ (reg_1'.tag => reg_1'.n \in K) /\ (exception_reg'.tag => exception_reg'.n \in K)
    BY <1>3
  <2> HIDE DEF K
  <2> QED BY <2>1, HeldLater
<1>5. \A i \in Made : Children(heap'[i]) \subseteq Found /\ Made = {i}
  BY <1>2, <1>3
<1> QED BY <1>2, <1>3, <1>4, <1>5 DEF Uses, Made

\* An object is written to.
LEMMA UsesWritten ==
  ASSUME Between, NEW i \in Found, Children(heap'[i]) \subseteq Found, DOMAIN heap' = DOMAIN heap,
         \A j \in DOMAIN heap : j # i => heap'[j] = heap[j], IsRewritten(heap[i], heap'[i]),
         RefsIn(Found \cup {0}, stack'),
         \A n \in DOMAIN bindings' : bindings'[n] \in Found,
         reg_1'.tag => reg_1'.n \in Found, exception_reg'.tag => exception_reg'.n \in Found
  PROVE  Uses
<1>1. Made = {}
  BY DEF Made
<1>2. Held' \subseteq Found \cup Made
  <2> DEFINE K == Found \cup {0}
  <2>1. K \subseteq Found \cup {0} \cup Made /\ RefsIn(K, stack')
        /\ (\A n \in DOMAIN bindings' : bindings'[n] \in K)
        /\ (reg_1'.tag => reg_1'.n \in K) /\ (exception_reg'.tag => exception_reg'.n \in K)
    OBVIOUS
  <2> HIDE DEF K
  <2> QED BY <2>1, HeldLater
<1> QED BY <1>1, <1>2 DEF Uses, Made

\* Words of the stack, and what they refer to.
LEMMA StackFound ==
  ASSUME Orderly, NEW K, Found \subseteq K
  PROVE  /\ RefsIn(K, stack) /\ Len(stack) \in Nat /\ DOMAIN stack = 1..Len(stack)
         /\ \A i \in 0..(Len(stack) - 1) : Word(i) \in Words /\ (Word(i).tag => Ref(i) \in Held)
         /\ \A n \in DOMAIN bindings : bindings[n] \in Found
         /\ reg_1 \in Words /\ (reg_1.tag => reg_1.n \in Found)
         /\ exception_reg \in Words /\ (exception_reg.tag => exception_reg.n \in Found)
<1>1. stack \in Seq(Words) /\ reg_1 \in Words /\ exception_reg \in Words
  BY DEF Orderly, Typed
<1>2. Len(stack) \in Nat /\ DOMAIN stack = 1..Len(stack) /\ \A n \in DOMAIN stack : stack[n] \in Words
  BY <1>1, LenProperties, ElementOfSeq
<1>3. RefsIn(K, stack)
  <2>1. IsList(stack)
    BY <1>1, ListOver
  <2> QED BY <2>1, FoundRules DEF RefsIn
<1>4. ASSUME NEW i \in 0..(Len(stack) - 1)
      PROVE  Word(i) \in Words /\ (Word(i).tag => Ref(i) \in Held)
  <2>1. Len(stack) - i \in 1..Len(stack)
    BY <1>2
  <2> QED BY <1>2, <2>1, FoundRules DEF Word, Ref
<1> QED BY <1>1, <1>2, <1>3, <1>4, FoundRules

\* No word, one word, two words.
Allowed(K, w) == w.tag => w.n \in K
LEMMA NoneIn ==
  ASSUME NEW K
  PROVE  RefsIn(K, <<>>)
BY DEF RefsIn, IsList
LEMMA OneIn ==
  ASSUME NEW K, NEW w, Allowed(K, w)
  PROVE  RefsIn(K, <<w>>)
<1> DEFINE ws == <<w>>
<1>1. ws \in Seq({ws[i] : i \in DOMAIN ws}) /\ DOMAIN ws = {1} /\ ws[1] = w
  OBVIOUS
<1> HIDE DEF ws
<1>2. RefsIn(K, ws)
  BY <1>1 DEF RefsIn, IsList, Allowed
<1> QED BY <1>2 DEF ws
LEMMA TwoIn ==
  ASSUME NEW K, NEW v, Allowed(K, v), NEW w, Allowed(K, w)
  PROVE  RefsIn(K, <<v, w>>)
<1> DEFINE ws == <<v, w>>
<1>1. ws \in Seq({ws[i] : i \in DOMAIN ws}) /\ DOMAIN ws = {1, 2} /\ ws[1] = v /\ ws[2] = w
  OBVIOUS
<1> HIDE DEF ws
<1>2. RefsIn(K, ws)
  BY <1>1 DEF RefsIn, IsList, Allowed
<1> QED BY <1>2 DEF ws
LEMMA Numbers ==
  ASSUME NEW K, NEW n
  PROVE  /\ Allowed(K, Raw(n)) /\ (n \in K => Allowed(K, Val(n)))
         /\ Val(n).tag /\ Val(n).n = n /\ ~Raw(n).tag /\ Raw(n).n = n
BY DEF Allowed, Raw, Val

\* Words take the place of others.
LEMMA ReplaceUses ==
  ASSUME Between, NEW n \in Nat, n <= Len(stack), NEW ws, RefsIn(Found \cup {0}, ws), Replace(n, ws),
         UNCHANGED <<heap, bindings, reg_1, exception_reg>>
  PROVE  Uses
<1> DEFINE K == Found \cup {0}
<1>1. Orderly
  BY DEF Between
<1>2. /\ RefsIn(K, stack) /\ Len(stack) \in Nat
      /\ \A i \in DOMAIN bindings : bindings[i] \in Found
      /\ (reg_1.tag => reg_1.n \in Found) /\ (exception_reg.tag => exception_reg.n \in Found)
  BY <1>1, StackFound
<1>3. IsReplaced(stack', stack, n, ws) /\ RefsIn(K, ws)
  BY DEF Replace, IsReplaced
<1> HIDE DEF K
<1>4. RefsIn(K, stack')
  BY ONLY <1>2, <1>3, n \in Nat, n <= Len(stack), RefsReplaced
<1> USE DEF K
<1> QED BY <1>2, <1>4, UsesSame

\* An object takes the place of words.
LEMMA AllocateUses ==
  ASSUME Between, NEW n \in Nat, n <= Len(stack), NEW object, Children(object) \subseteq Found, Allocate(n, object),
         UNCHANGED <<bindings, reg_1, exception_reg>>
  PROVE  Uses /\ Made = {Len(heap) + 1}
<1> DEFINE new == Len(heap) + 1
           K == Found \cup {0, new}
           ws == <<Val(new)>>
<1>1. Orderly /\ new \in Nat
  <2>1. Orderly
    BY DEF Between
  <2> QED BY <2>1, HeapOrderly
<1>2. /\ RefsIn(K, stack) /\ Len(stack) \in Nat
      /\ \A i \in DOMAIN bindings : bindings[i] \in Found
      /\ (reg_1.tag => reg_1.n \in Found) /\ (exception_reg.tag => exception_reg.n \in Found)
  BY <1>1, StackFound
<1>3. RefsIn(K, ws)
  <2>1. new \in K
    OBVIOUS
  <2> HIDE DEF new, K
  <2> QED BY <2>1, Numbers, OneIn
<1>4. IsReplaced(stack', stack, n, ws) /\ IsAppended(heap', heap, object)
  BY DEF Allocate, Replace, IsReplaced, IsAppended
<1> HIDE DEF K, ws
<1>6. RefsIn(K, stack')
  BY ONLY <1>2, <1>3, <1>4, n \in Nat, n <= Len(stack), RefsReplaced
<1> USE DEF K, ws
<1> QED BY <1>2, <1>4, <1>6, UsesMade

\* The machine stops.
LEMMA StopUses ==
  ASSUME Between, UNCHANGED <<stack, bindings, reg_1, heap, exception_reg>>
  PROVE  Uses
<1> DEFINE K == Found \cup {0}
<1>1. /\ RefsIn(K, stack)
      /\ \A i \in DOMAIN bindings : bindings[i] \in Found
      /\ (reg_1.tag => reg_1.n \in Found) /\ (exception_reg.tag => exception_reg.n \in Found)
  BY StackFound DEF Between
<1> QED BY <1>1, UsesSame

\* A word takes the place of others, or none does.
LEMMA OneUses ==
  ASSUME Between, NEW n \in Nat, n <= Len(stack), NEW w, Allowed(Found \cup {0}, w), Replace(n, <<w>>),
         UNCHANGED <<heap, bindings, reg_1, exception_reg>>
  PROVE  Uses
<1>1. RefsIn(Found \cup {0}, <<w>>)
  BY OneIn
<1> QED BY <1>1, ReplaceUses
LEMMA NoneUses ==
  ASSUME Between, NEW n \in Nat, n <= Len(stack), Replace(n, <<>>),
         UNCHANGED <<heap, bindings, reg_1, exception_reg>>
  PROVE  Uses
<1>1. RefsIn(Found \cup {0}, <<>>)
  BY NoneIn
<1> QED BY <1>1, ReplaceUses

\* What the guard of an instruction says of the words it takes.
LEMMA Taking ==
  ASSUME Orderly, FindsOperands
  PROVE  /\ PoppedBy(op, arg) \in 0..2 /\ RawOperands(op) \in 0..2
         /\ PoppedBy(op, arg) + RawOperands(op) <= Len(stack) /\ Len(stack) \in Nat
         /\ \A n \in 0..(PoppedBy(op, arg) - 1) :
              /\ Word(n) \in Words /\ Word(n).tag /\ Ref(n) \in Held /\ Ref(n) \in DOMAIN heap
              /\ Children(Obj(n)) \subseteq Near
<1> DEFINE p == PoppedBy(op, arg)
           r == RawOperands(op)
<1>1. p \in 0..2
  BY DEF PoppedBy, Operands, ExternOperands
<1>2. r \in 0..2
  BY DEF RawOperands
<1>3. /\ Len(stack) >= p + r
      /\ \A n \in 0..(p - 1) : Word(n).tag /\ Ref(n) \in DOMAIN heap
  BY DEF FindsOperands, PoppedBy
<1>4. Len(stack) \in Nat /\ \A i \in 0..(Len(stack) - 1) : Word(i) \in Words /\ (Word(i).tag => Ref(i) \in Held)
  BY StackFound
<1> HIDE DEF p, r
<1>5. \A n \in 0..(p - 1) : n \in 0..(Len(stack) - 1)
  BY <1>1, <1>2, <1>3, <1>4
<1>6. \A n \in 0..(p - 1) : Word(n) \in Words /\ Word(n).tag /\ Ref(n) \in Held /\ Ref(n) \in DOMAIN heap
                            /\ Children(Obj(n)) \subseteq Near
  BY <1>3, <1>4, <1>5, FoundRules DEF Obj
<1>7. p + r <= Len(stack)
  BY <1>1, <1>2, <1>3, <1>4
<1> QED BY <1>1, <1>2, <1>4, <1>6, <1>7 DEF p, r
LEMMA OpTakes ==
  ASSUME NEW name, Op(name)
  PROVE  op = name /\ FindsOperands
BY DEF Op

(* Where the machine is, its code being verified.                          *)
LEMMA SortsHere ==
  ASSUME Sane
  PROVE  LET L == Labels
             A == Arities
         IN  /\ op \in PlainOps => Computes(chunk, L, A, ip)
             /\ op \in RegisterOps => Computes(chunk, L, A, ip) \/ Moves(chunk, L, ip)
             /\ op \in BindOps => Binds(chunk, L, ip)
             /\ op \in MakeOps => Makes(chunk, L, A, ip)
             /\ op \in EnterOps => Enters(chunk, L, ip)
             /\ op \notin {"JUMP", "PATTERN_MATCH_FAIL", "END"} =>
                  /\ L[ip].mode # RETURNING
                  /\ \E fr, m, low, base, blow : Running(L, A, fr, m, low, base, blow)
<1> DEFINE L == Labels
           A == Arities
<1>1. VerifiedHere(L, A) /\ KeepsHere(L, A)
  BY DEF Sane
<1> HIDE DEF L, A
<1>2. ObeysHere(L, A) /\ (L[ip].mode = RETURNING \/ IsRunning(L, A))
  BY <1>1, RunsOrReturns
<1>3. Here.op = op /\ Here.arg = arg
  BY HereIs
<1>4. Obeys(chunk, L, A, ip) /\ Instr(chunk, ip).op = op /\ Instr(chunk, ip).arg = arg
  BY <1>2, <1>3 DEF ObeysHere, Here
<1>5. /\ op \in PlainOps => Computes(chunk, L, A, ip)
      /\ op \in RegisterOps => Computes(chunk, L, A, ip) \/ Moves(chunk, L, ip)
      /\ op \in BindOps => Binds(chunk, L, ip)
      /\ op \in MakeOps => Makes(chunk, L, A, ip)
      /\ op \in EnterOps => Enters(chunk, L, ip)
      /\ L[ip].mode = RETURNING => op \in {"JUMP", "PATTERN_MATCH_FAIL", "END"}
  BY <1>4, Sorts
<1> QED BY <1>2, <1>5 DEF IsRunning, L, A

-----------------------------------------------------------------------------
(* The instructions.  What a program finds is at most two references away. *)
LEMMA TestsHere ==
  ASSUME Between, NEW b, Replace(0, <<Box(b)>>), UNCHANGED <<heap, bindings, reg_1, exception_reg>>
  PROVE  Uses
<1>1. Orderly
  BY DEF Between
<1>2. Box(b).n \in DOMAIN chunk.constants
  BY <1>1, HeapOrderly, Numbers DEF Box
<1>3. Allowed(Found \cup {0}, Box(b))
  BY <1>2, FoundRules DEF Allowed
<1>4. 0 <= Len(stack)
  BY <1>1, StackFound
<1> QED BY <1>3, <1>4, OneUses
LEMMA BoxUses ==
  ASSUME Between, NEW n \in Nat, n <= Len(stack), NEW b, Replace(n, <<Box(b)>>),
         UNCHANGED <<heap, bindings, reg_1, exception_reg>>
  PROVE  Uses
<1>1. Orderly
  BY DEF Between
<1>2. Box(b).n \in DOMAIN chunk.constants
  BY <1>1, HeapOrderly, Numbers DEF Box
<1>3. Allowed(Found \cup {0}, Box(b))
  BY <1>2, FoundRules DEF Allowed
<1> QED BY <1>3, OneUses

\* How many words an instruction pops, by its name.
LEMMA PopCounts ==
  /\ op \in {"CREATE_CONS", "ADD", "SUBTRACT", "MULTIPLY", "DIVIDE", "LESS", "GREATER", "EQUAL", "UPDATE_THUNK"}
       => PoppedBy(op, arg) = 2
  /\ op \in {"JUMP_REL_CONDITIONAL", "EVAL", "OBJECT_READ", "WRITE_CLOSURE", "WRITE_THUNK",
             "HANDLE_CONTINUATION", "PARTIAL_APPLY", "NOT", "NEGATE", "IS_CONS", "IS_OBJ",
             "IS_INT", "IS_BOOL", "IS_UNIT", "IS_VARIANT", "HEAD", "TAIL"} => PoppedBy(op, arg) = 1
  /\ op = "SWAP" => RawOperands(op) = 2
  /\ op \in {"TRANSFER_STACK_REG", "COPY_STACK_REG", "COPY", "POP_U64", "U64_ADD",
             "CREATE_BINDING", "JUMP", "HANDLE_CONTINUATION"} => RawOperands(op) = 1
BY DEF PoppedBy, Operands, RawOperands
\* Words that are on the stack because they are pushed or moved.
LEMMA RegisterUses ==
  ASSUME Sane, Between, PUSH_REG_STACK
  PROVE  Uses
<1> DEFINE w == CASE arg = "INSTRUCTION_PTR" -> Raw(next)
                  [] arg = "BINDING_PTR" -> Raw(Len(bindings))
                  [] arg = "REG_1" -> reg_1
                  [] arg = "EXCEPTION_REG" -> exception_reg
<1>1. /\ op = "PUSH_REG_STACK" /\ Replace(0, <<w>>)
      /\ UNCHANGED <<heap, bindings, reg_1, exception_reg>>
  BY DEF PUSH_REG_STACK, Op, Continue, outside
<1>2. arg \in {"INSTRUCTION_PTR", "BINDING_PTR", "REG_1", "EXCEPTION_REG"}
  <2>1. Computes(chunk, Labels, Arities, ip) \/ Moves(chunk, Labels, ip)
    BY <1>1, SortsHere DEF RegisterOps
  <2>2. Here.op = op /\ Here.arg = arg
    BY HereIs
  <2>3. CASE Computes(chunk, Labels, Arities, ip)
    <3>1. IsPlain(Here)
      BY <2>3 DEF Computes, Here
    <3> QED BY <1>1, <2>2, <3>1 DEF IsPlain
  <2>4. CASE Moves(chunk, Labels, ip)
    BY <1>1, <2>2, <2>4 DEF Moves, Here
  <2> QED BY <2>1, <2>3, <2>4
<1>3. /\ (reg_1.tag => reg_1.n \in Found) /\ (exception_reg.tag => exception_reg.n \in Found)
      /\ 0 <= Len(stack)
  BY StackFound DEF Between
<1>4. Allowed(Found \cup {0}, w)
  <2>1. CASE arg = "INSTRUCTION_PTR"
    BY <2>1, Numbers
  <2>2. CASE arg = "BINDING_PTR"
    BY <2>2, Numbers
  <2>3. CASE arg = "REG_1"
    BY <1>3, <2>3 DEF Allowed
  <2>4. CASE arg = "EXCEPTION_REG"
    BY <1>3, <2>4 DEF Allowed
  <2> QED BY <1>2, <2>1, <2>2, <2>3, <2>4
<1> HIDE DEF w
<1> QED BY <1>1, <1>3, <1>4, OneUses
LEMMA SwapUses ==
  ASSUME Sane, Between, SWAP
  PROVE  Uses
<1>1. /\ op = "SWAP" /\ FindsOperands /\ Replace(2, <<Word(0), Word(1)>>)
      /\ UNCHANGED <<heap, bindings, reg_1, exception_reg>>
  BY DEF SWAP, Op, Continue, outside
<1>2. Orderly /\ RawOperands(op) = 2
  BY <1>1, PopCounts DEF Between
<1>3. 2 <= Len(stack)
  BY <1>1, <1>2, Taking
<1>4. Allowed(Found \cup {0}, Word(0)) /\ Allowed(Found \cup {0}, Word(1))
  BY <1>2, <1>3, StackFound, FoundRules DEF Allowed, Ref
<1>5. RefsIn(Found \cup {0}, <<Word(0), Word(1)>>)
  BY <1>4, TwoIn
<1> QED BY <1>1, <1>3, <1>5, ReplaceUses
LEMMA TopUses ==
  ASSUME Sane, Between, COPY \/ POP_U64 \/ U64_ADD
  PROVE  Uses
<1>1. /\ op \in {"COPY", "POP_U64", "U64_ADD"} /\ FindsOperands
      /\ Replace(0, <<Word(0)>>) \/ Replace(1, <<>>) \/ Replace(1, <<Raw(Word(0).n + arg)>>)
      /\ UNCHANGED <<heap, bindings, reg_1, exception_reg>>
  BY DEF COPY, POP_U64, U64_ADD, Op, Continue, outside
<1>2. Orderly /\ RawOperands(op) = 1
  BY <1>1, PopCounts DEF Between
<1>3. 1 <= Len(stack) /\ 0 <= Len(stack)
  BY <1>1, <1>2, Taking
<1>4. Allowed(Found \cup {0}, Word(0)) /\ Allowed(Found \cup {0}, Raw(Word(0).n + arg))
  BY <1>2, <1>3, StackFound, FoundRules, Numbers DEF Allowed, Ref
<1>5. ASSUME Replace(0, <<Word(0)>>)
      PROVE  Uses
  BY <1>1, <1>3, <1>4, <1>5, OneUses
<1>6. ASSUME Replace(1, <<>>)
      PROVE  Uses
  BY <1>1, <1>3, <1>6, NoneUses
<1>7. ASSUME Replace(1, <<Raw(Word(0).n + arg)>>)
      PROVE  Uses
  BY <1>1, <1>3, <1>4, <1>7, OneUses
<1> QED BY <1>1, <1>5, <1>6, <1>7, Zenon
LEMMA PushUses ==
  ASSUME Sane, Between, PUSH_CONST \/ PUSH_BOOL
  PROVE  Uses
<1>1. 0 <= Len(stack)
  BY StackFound DEF Between
<1>2. CASE PUSH_CONST
  <2>1. CASE arg \notin DOMAIN chunk.constants
    BY <1>2, <2>1, StopUses DEF PUSH_CONST, Panic, Stop, outside
  <2>2. CASE arg \in DOMAIN chunk.constants
    <3>1. Replace(0, <<Val(arg)>>) /\ UNCHANGED <<heap, bindings, reg_1, exception_reg>>
      BY <1>2, <2>2 DEF PUSH_CONST, Continue, outside
    <3>2. Allowed(Found \cup {0}, Val(arg))
      BY <2>2, FoundRules, Numbers
    <3> QED BY <1>1, <3>1, <3>2, OneUses
  <2> QED BY <2>1, <2>2
<1>3. CASE PUSH_BOOL
  <2>1. Replace(0, <<Box(op = "TRUE")>>) /\ UNCHANGED <<heap, bindings, reg_1, exception_reg>>
    BY <1>3 DEF PUSH_BOOL, Continue, outside
  <2> QED BY <2>1, TestsHere
<1> QED BY <1>2, <1>3
LEMMA JumpUses ==
  ASSUME Sane, Between, JUMP \/ JUMP_REL \/ JUMP_GLOBALS \/ JUMP_REL_CONDITIONAL
  PROVE  Uses
<1>1. Orderly
  BY DEF Between
<1>2. CASE JUMP
  <2>1. op = "JUMP" /\ FindsOperands
    BY <1>2 DEF JUMP, Op
  <2>2. 1 <= Len(stack)
    BY <1>1, <2>1, PopCounts, Taking
  <2>3. CASE Word(0).tag
    BY <1>2, <2>3, StopUses DEF JUMP, Panic, Stop, outside
  <2>4. CASE ~Word(0).tag
    <3>1. Replace(1, <<>>) /\ UNCHANGED <<heap, bindings, reg_1, exception_reg>>
      BY <1>2, <2>4 DEF JUMP, JumpTo, outside
    <3> QED BY <2>2, <3>1, NoneUses
  <2> QED BY <2>3, <2>4
<1>3. CASE JUMP_REL
  BY <1>3, StopUses DEF JUMP_REL, JumpTo, outside
<1>4. CASE JUMP_GLOBALS
  BY <1>4, StopUses DEF JUMP_GLOBALS, JumpTo, outside
<1>5. CASE JUMP_REL_CONDITIONAL
  <2>1. op = "JUMP_REL_CONDITIONAL" /\ FindsOperands
    BY <1>5 DEF JUMP_REL_CONDITIONAL, Op
  <2>2. 1 <= Len(stack)
    BY <1>1, <2>1, PopCounts, Taking
  <2>3. CASE Obj(0).type # "bool"
    BY <1>5, <2>3, StopUses DEF JUMP_REL_CONDITIONAL, runtime_error, Stop, outside
  <2>4. CASE Obj(0).type = "bool"
    <3>1. Replace(1, <<>>) /\ UNCHANGED <<heap, bindings, reg_1, exception_reg>>
      BY <1>5, <2>4 DEF JUMP_REL_CONDITIONAL, JumpTo, outside
    <3> QED BY <2>2, <3>1, NoneUses
  <2> QED BY <2>3, <2>4
<1> QED BY <1>2, <1>3, <1>4, <1>5
\* Bindings are those that were there, or fewer.
LEMMA FewerBindings ==
  ASSUME Orderly, NEW k \in Int, k <= Len(bindings), bindings' = SubSeq(bindings, 1, k)
  PROVE  \A n \in DOMAIN bindings' : bindings'[n] \in Found
<1> DEFINE cut == SubSeq(bindings, 1, k)
<1>1. bindings \in Seq(Nat) /\ Len(bindings) \in Nat /\ DOMAIN bindings = 1..Len(bindings)
  BY LenProperties DEF Orderly, Typed
<1>2. \A n \in DOMAIN bindings : bindings[n] \in Found
  BY StackFound
<1>3. \A n \in 1..k : bindings[n] \in Nat
  BY <1>1, ElementOfSeq
<1>4. /\ cut \in Seq(Nat) /\ Len(cut) = (IF 1 <= k THEN k - 1 + 1 ELSE 0)
      /\ \A n \in 1..(k - 1 + 1) : cut[n] = bindings[1 + n - 1]
  BY <1>1, <1>3, SubSeqProperties
<1> HIDE DEF cut
<1>5. DOMAIN cut = 1..Len(cut)
  BY <1>4, LenProperties
<1>6. ASSUME NEW n \in DOMAIN cut
      PROVE  cut[n] \in Found
  <2>1. n \in 1..k /\ 1 + n - 1 = n
    BY <1>4, <1>5
  <2>2. cut[n] = bindings[n] /\ n \in DOMAIN bindings
    BY <1>1, <1>4, <2>1
  <2> QED BY <1>2, <2>2
<1> QED BY <1>6 DEF cut
LEMMA CutUses ==
  ASSUME Sane, Between, COPY_STACK_REG \/ REMOVE_BINDINGS
  PROVE  Uses
<1>1. Orderly
  BY DEF Between
<1>2. /\ RefsIn(Found \cup {0}, stack)
      /\ (reg_1.tag => reg_1.n \in Found) /\ (exception_reg.tag => exception_reg.n \in Found)
  BY <1>1, StackFound
<1>3. ASSUME NEW k \in Int, k <= Len(bindings), bindings' = SubSeq(bindings, 1, k), Continue,
             UNCHANGED <<stack, stack_len, reg_1, heap>>
      PROVE  Uses
  <2>1. \A n \in DOMAIN bindings' : bindings'[n] \in Found
    BY <1>1, <1>3, FewerBindings
  <2> QED BY <1>2, <1>3, <2>1, UsesSame DEF Continue, outside
<1>4. bindings \in Seq(Nat) /\ Len(bindings) \in Nat
  BY <1>1, LenProperties DEF Orderly, Typed
<1>5. CASE COPY_STACK_REG
  <2>1. op = "COPY_STACK_REG" /\ FindsOperands
    BY <1>5 DEF COPY_STACK_REG, Op
  <2>2. 1 <= Len(stack) /\ Len(stack) \in Nat
    BY <1>1, <2>1, PopCounts, Taking
  <2>3. Word(0) \in Words
    BY <1>1, <2>2, StackFound
  <2>4. CASE Word(0).tag \/ Word(0).n > Len(bindings)
    BY <1>5, <2>4, StopUses DEF COPY_STACK_REG, Panic, Stop, outside
  <2>5. CASE ~(Word(0).tag \/ Word(0).n > Len(bindings))
    <3>1. /\ bindings' = SubSeq(bindings, 1, Word(0).n) /\ Continue
          /\ UNCHANGED <<stack, stack_len, reg_1, heap>>
      BY <1>5, <2>5 DEF COPY_STACK_REG
    <3>2. Word(0).n \in Int /\ Word(0).n <= Len(bindings)
      BY <1>4, <2>3, <2>5 DEF Words
    <3> QED BY <1>3, <3>1, <3>2
  <2> QED BY <2>4, <2>5
<1>6. CASE REMOVE_BINDINGS
  <2> DEFINE n == IF op = "REMOVE_BINDING" THEN 1 ELSE arg
  <2>1. op \in {"REMOVE_BINDING", "REMOVE_BINDINGS"}
    BY <1>6 DEF REMOVE_BINDINGS, Op
  <2>2. n \in Nat
    <3>1. Binds(chunk, Labels, ip)
      BY <2>1, SortsHere DEF BindOps
    <3>2. n \in 0..Len(Labels[ip].binds)
      BY <2>1, <3>1, HereIs DEF Binds, Here
    <3> QED BY <3>2
  <2>3. CASE n > Len(bindings)
    BY <1>6, <2>3, StopUses DEF REMOVE_BINDINGS, Panic, Stop, outside
  <2>4. CASE ~(n > Len(bindings))
    <3>1. bindings' = Drop(bindings, n) /\ Continue /\ UNCHANGED <<stack, stack_len, reg_1, heap>>
      BY <1>6, <2>4 DEF REMOVE_BINDINGS
    <3> HIDE DEF n
    <3>2. Len(bindings) - n \in Int /\ Len(bindings) - n <= Len(bindings)
      BY <1>4, <2>2
    <3>3. bindings' = SubSeq(bindings, 1, Len(bindings) - n)
      BY <3>1 DEF Drop
    <3> QED BY <1>3, <3>1, <3>2, <3>3
  <2> QED BY <2>3, <2>4
<1> QED BY <1>5, <1>6
\* A binding, or what a binding captured.
LEMMA BoundUses ==
  ASSUME Sane, Between, READ_BINDING \/ CAPTURE_READ
  PROVE  Uses
<1>1. Orderly
  BY DEF Between
<1>2. /\ 0 <= Len(stack) /\ bindings \in Seq(Nat) /\ Len(bindings) \in Nat /\ DOMAIN bindings = 1..Len(bindings)
      /\ \A n \in DOMAIN bindings : bindings[n] \in Held /\ bindings[n] \in DOMAIN heap
  BY <1>1, StackFound, FoundRules, LenProperties DEF Orderly, Typed
<1>3. ASSUME NEW n \in Nat, ~(n + 1 > Len(bindings))
      PROVE  Len(bindings) - n \in DOMAIN bindings
  BY <1>2, <1>3
<1>4. CASE READ_BINDING
  <2>1. op = "READ_BINDING"
    BY <1>4 DEF READ_BINDING, Op
  <2>2. arg \in Nat
    <3>1. Binds(chunk, Labels, ip)
      BY <2>1, SortsHere DEF BindOps
    <3>2. arg \in 0..(Len(Labels[ip].binds) - 1)
      BY <2>1, <3>1, HereIs DEF Binds, Here
    <3> QED BY <3>2
  <2>3. CASE arg + 1 > Len(bindings)
    BY <1>4, <2>3, StopUses DEF READ_BINDING, Panic, Stop, outside
  <2>4. CASE ~(arg + 1 > Len(bindings))
    <3> DEFINE w == Val(bindings[Len(bindings) - arg])
    <3>1. Replace(0, <<w>>) /\ UNCHANGED <<heap, bindings, reg_1, exception_reg>>
      BY <1>4, <2>4 DEF READ_BINDING, Continue, outside
    <3>2. Allowed(Found \cup {0}, w)
      BY <1>2, <1>3, <2>2, <2>4, FoundRules, Numbers
    <3> HIDE DEF w
    <3> QED BY <1>2, <3>1, <3>2, OneUses
  <2> QED BY <2>3, <2>4
<1>5. CASE CAPTURE_READ
  <2> DEFINE bound == bindings[Len(bindings) - arg.offset]
             captures == heap[bound].fields
  <2>1. op = "CAPTURE_READ"
    BY <1>5 DEF CAPTURE_READ, Op
  <2>2. arg.offset \in Nat
    <3>1. Binds(chunk, Labels, ip)
      BY <2>1, SortsHere DEF BindOps
    <3>2. arg.offset \in 0..(Len(Labels[ip].binds) - 1)
      BY <2>1, <3>1, HereIs DEF Binds, Here
    <3> QED BY <3>2
  <2>3. CASE arg.offset + 1 > Len(bindings)
    BY <1>5, <2>3, StopUses DEF CAPTURE_READ, Panic, Stop, outside
  <2>4. CASE ~(arg.offset + 1 > Len(bindings))
    <3>1. bound \in Held /\ bound \in DOMAIN heap
      BY <1>2, <1>3, <2>2, <2>4
    <3>2. \A n \in DOMAIN captures : captures[n] \in Found \cup {0}
      BY <3>1, FoundRules DEF Children
    <3>3. IF arg.capture + 1 \notin DOMAIN captures THEN Panic
          ELSE /\ Replace(0, <<Val(captures[arg.capture + 1])>>)
               /\ Continue /\ UNCHANGED <<bindings, reg_1, heap>>
      BY <1>5, <2>4, Zenon DEF CAPTURE_READ
    <3> HIDE DEF bound, captures
    <3>4. CASE arg.capture + 1 \notin DOMAIN captures
      BY <3>3, <3>4, StopUses DEF Panic, Stop, outside
    <3>5. CASE arg.capture + 1 \in DOMAIN captures
      <4> DEFINE w == Val(captures[arg.capture + 1])
      <4>1. Replace(0, <<w>>) /\ UNCHANGED <<heap, bindings, reg_1, exception_reg>>
        BY <3>3, <3>5 DEF Continue, outside
      <4>2. Allowed(Found \cup {0}, w)
        BY <3>2, <3>5, Numbers
      <4> HIDE DEF w
      <4> QED BY <1>2, <4>1, <4>2, OneUses
    <3> QED BY <3>4, <3>5
  <2> QED BY <2>3, <2>4
<1> QED BY <1>4, <1>5
\* The word on top is bound, or goes to a register.
LEMMA PoppedUses ==
  ASSUME Sane, Between, CREATE_BINDING \/ TRANSFER_STACK_REG \/ TRANSFER_STACK_EXCEPTION
  PROVE  Uses
<1> DEFINE K == Found \cup {0}
<1>1. Orderly
  BY DEF Between
<1>2. op \in {"CREATE_BINDING", "TRANSFER_STACK_REG"} /\ FindsOperands /\ Replace(1, <<>>) /\ heap' = heap
  BY DEF CREATE_BINDING, TRANSFER_STACK_REG, TRANSFER_STACK_EXCEPTION, Op
<1>3. 1 <= Len(stack) /\ Len(stack) \in Nat
  BY <1>1, <1>2, PopCounts, Taking
<1>4. /\ RefsIn(K, stack) /\ \A n \in DOMAIN bindings : bindings[n] \in Found
      /\ (reg_1.tag => reg_1.n \in Found) /\ (exception_reg.tag => exception_reg.n \in Found)
      /\ (Word(0).tag => Word(0).n \in Found)
  BY <1>1, <1>3, StackFound, FoundRules DEF Ref
<1>5. RefsIn(K, stack')
  <2> DEFINE none == <<>>
  <2>1. RefsIn(K, none) /\ IsReplaced(stack', stack, 1, none)
    BY <1>2, NoneIn DEF Replace, IsReplaced
  <2> HIDE DEF none, K
  <2> QED BY <1>3, <1>4, <2>1, RefsReplaced
<1>6. CASE CREATE_BINDING
  <2>1. op = "CREATE_BINDING" /\ bindings' = Append(bindings, Word(0).n) /\ UNCHANGED <<reg_1, exception_reg>>
    BY <1>6 DEF CREATE_BINDING, Op, Continue, outside
  <2>2. Word(0).tag
    <3>1. Binds(chunk, Labels, ip)
      BY <2>1, SortsHere DEF BindOps
    <3>2. HasReferences(Labels[ip], 1)
      BY <2>1, <3>1, HereIs DEF Binds, Here
    <3>3. PICK fr, m, low, base, blow : Running(Labels, Arities, fr, m, low, base, blow)
      BY <2>1, SortsHere
    <3>4. Finds(1, 0)
      BY <3>2, <3>3, ReferencesFound
    <3> QED BY <3>4 DEF Finds
  <2>3. IsList(bindings) /\ IsAppended(bindings', bindings, Word(0).n)
    BY <1>1, <2>1, ListOver DEF Orderly, Typed, IsAppended
  <2>4. /\ DOMAIN bindings = 1..Len(bindings) /\ DOMAIN bindings' = 1..(Len(bindings) + 1) /\ Len(bindings) \in Nat
        /\ bindings'[Len(bindings) + 1] = Word(0).n /\ \A i \in DOMAIN bindings : bindings'[i] = bindings[i]
    BY <2>3, Appended
  <2>5. \A n \in DOMAIN bindings' : n \in DOMAIN bindings \/ n = Len(bindings) + 1
    BY <2>4
  <2>6. \A n \in DOMAIN bindings' : bindings'[n] \in Found
    BY <1>4, <2>2, <2>4, <2>5
  <2> QED BY <1>2, <1>4, <1>5, <2>1, <2>6, UsesSame
<1>7. CASE TRANSFER_STACK_REG
  <2>1. reg_1' = Word(0) /\ UNCHANGED <<bindings, exception_reg>>
    BY <1>7 DEF TRANSFER_STACK_REG, Continue, outside
  <2> QED BY <1>2, <1>4, <1>5, <2>1, UsesSame
<1>8. CASE TRANSFER_STACK_EXCEPTION
  <2>1. exception_reg' = Word(0) /\ UNCHANGED <<bindings, reg_1>>
    BY <1>8 DEF TRANSFER_STACK_EXCEPTION
  <2> QED BY <1>2, <1>4, <1>5, <2>1, UsesSame
<1> QED BY <1>6, <1>7, <1>8
\* What an object that is made refers to.
LEMMA ChildrenIn ==
  ASSUME NEW K, NEW type, NEW n, NEW fields, NEW link, NEW whnf,
         \A i \in DOMAIN fields : fields[i] \in K \cup {0}, link \in K \cup {0}
  PROVE  Children(Object(type, n, fields, link, whnf)) \subseteq K
BY DEF Children, Object
LEMMA NoChildren ==
  ASSUME NEW type, NEW n, NEW whnf
  PROVE  Children(Object(type, n, <<>>, 0, whnf)) \subseteq Found
<1> DEFINE none == <<>>
<1>1. \A i \in DOMAIN none : none[i] \in Found \cup {0}
  OBVIOUS
<1>2. 0 \in Found \cup {0}
  OBVIOUS
<1> HIDE DEF none
<1>3. Children(Object(type, n, none, 0, whnf)) \subseteq Found
  BY <1>1, <1>2, ChildrenIn
<1> QED BY <1>3 DEF none
\* The operands are on the stack, and what they refer to is found.
LEMMA OperandsFound ==
  ASSUME Orderly, FindsOperands
  PROVE  /\ PoppedBy(op, arg) <= Len(stack) /\ Len(stack) \in Nat
         /\ \A i \in 0..(PoppedBy(op, arg) - 1) :
              Ref(i) \in Found /\ Ref(i) \in DOMAIN heap /\ Children(Obj(i)) \subseteq Found
<1> DEFINE p == PoppedBy(op, arg)
           r == RawOperands(op)
<1>1. /\ p \in 0..2 /\ r \in 0..2 /\ p + r <= Len(stack) /\ Len(stack) \in Nat
      /\ \A i \in 0..(p - 1) : Ref(i) \in Held /\ Ref(i) \in DOMAIN heap /\ Children(Obj(i)) \subseteq Near
  BY Taking
<1> HIDE DEF p, r
<1>2. p <= Len(stack)
  BY <1>1
<1> QED BY <1>1, <1>2, FoundRules DEF p
LEMMA ClosureUses ==
  ASSUME Sane, Between, CREATE_CLOSURE \/ CREATE_THUNK
  PROVE  Uses
<1> DEFINE nulls == Nulls(chunk.closures[arg].capture_count)
<1>1. Allocate(0, Object("closure", arg, nulls, 0, TRUE)) \/ Allocate(0, Object("thunk", arg, nulls, 0, FALSE))
  BY DEF CREATE_CLOSURE, CREATE_THUNK
<1>2. UNCHANGED <<bindings, reg_1, exception_reg>>
  BY DEF CREATE_CLOSURE, CREATE_THUNK, Continue, outside
<1>3. 0 <= Len(stack)
  BY StackFound DEF Between
<1>4. \A i \in DOMAIN nulls : nulls[i] \in Found \cup {0}
  BY DEF Nulls
<1> HIDE DEF nulls
<1>5. \A type, whnf : Children(Object(type, arg, nulls, 0, whnf)) \subseteq Found
  BY <1>4, ChildrenIn
<1>6. ASSUME NEW type, NEW whnf, Allocate(0, Object(type, arg, nulls, 0, whnf))
      PROVE  Uses
  BY <1>2, <1>3, <1>5, <1>6, AllocateUses
<1> QED BY <1>1, <1>6
LEMMA ConsUses ==
  ASSUME Sane, Between, CREATE_CONS
  PROVE  Uses
<1> DEFINE fields == <<Ref(0), Ref(1)>>
<1>1. /\ op = "CREATE_CONS" /\ FindsOperands /\ Allocate(2, Object("cons", 0, fields, 0, TRUE))
      /\ UNCHANGED <<bindings, reg_1, exception_reg>>
  BY DEF CREATE_CONS, Op, Continue, outside
<1>2. PoppedBy(op, arg) = 2 /\ Orderly
  BY <1>1, PopCounts DEF Between
<1>3. 2 <= Len(stack) /\ Ref(0) \in Found /\ Ref(1) \in Found
  BY <1>1, <1>2, OperandsFound
<1>4. \A i \in DOMAIN fields : fields[i] \in Found \cup {0}
  BY <1>3
<1> HIDE DEF fields
<1>5. Children(Object("cons", 0, fields, 0, TRUE)) \subseteq Found
  BY <1>4, ChildrenIn
<1> QED BY <1>1, <1>3, <1>5, AllocateUses
LEMMA ObjectUses ==
  ASSUME Sane, Between, CREATE_OBJECT
  PROVE  Uses
<1> DEFINE n == arg.arg_count
           fields == SubSeq(bindings, Len(bindings) - n + 1, Len(bindings))
<1>1. op = "CREATE_OBJECT"
  BY DEF CREATE_OBJECT, Op
<1>2. n \in Nat
  <2>1. Computes(chunk, Labels, Arities, ip)
    BY <1>1, SortsHere DEF PlainOps
  <2>2. n \in 0..Len(Labels[ip].binds)
    BY <1>1, <2>1, HereIs DEF Computes, Here
  <2> QED BY <2>2
<1>3. CASE n > Len(bindings)
  BY <1>3, StopUses DEF CREATE_OBJECT, Panic, Stop, outside
<1>4. CASE ~(n > Len(bindings))
  <2>1. /\ Allocate(0, Object("object", arg.variant, fields, 0, TRUE))
        /\ UNCHANGED <<bindings, reg_1, exception_reg>>
    BY <1>4 DEF CREATE_OBJECT, Continue, outside
  <2>2. /\ bindings \in Seq(Nat) /\ Len(bindings) \in Nat /\ DOMAIN bindings = 1..Len(bindings)
        /\ 0 <= Len(stack) /\ \A i \in DOMAIN bindings : bindings[i] \in Found
    <3>1. Orderly
      BY DEF Between
    <3>2. bindings \in Seq(Nat)
      BY <3>1 DEF Orderly, Typed
    <3>3. RefsIn(Found, stack) /\ 0 <= Len(stack) /\ \A i \in DOMAIN bindings : bindings[i] \in Found
      BY <3>1, StackFound
    <3> QED BY <3>2, <3>3, LenProperties
  <2>3. IsEnd(fields, bindings, n) /\ n \in 0..Len(bindings)
    BY <1>2, <1>4, <2>2 DEF IsEnd
  <2> HIDE DEF fields, n
  <2>4. fields \in Seq(Nat) /\ Len(fields) = n /\ \A k \in 1..n : fields[k] = bindings[Len(bindings) - n + k]
    BY <2>2, <2>3, LastOnes
  <2>5. DOMAIN fields = 1..n
    BY <2>4, LenProperties
  <2>6. ASSUME NEW k \in DOMAIN fields
        PROVE  fields[k] \in Found \cup {0}
    <3>1. Len(bindings) - n + k \in DOMAIN bindings
      BY <2>2, <2>3, <2>5
    <3> QED BY <2>2, <2>4, <2>5, <3>1
  <2>7. Children(Object("object", arg.variant, fields, 0, TRUE)) \subseteq Found
    BY <2>6, ChildrenIn
  <2> QED BY <2>1, <2>2, <2>7, AllocateUses
<1> QED BY <1>3, <1>4
LEMMA ApplyUses ==
  ASSUME Sane, Between, PARTIAL_APPLY
  PROVE  Uses
<1> DEFINE partial == Obj(0).type = "application"
           held == IF partial THEN Obj(0).fields ELSE <<>>
           closure == IF partial THEN Obj(0).link ELSE Ref(0)
           given == [n \in 1..arg |-> Ref(n)]
           fields == held \o given
<1>1. op = "PARTIAL_APPLY" /\ FindsOperands
  BY DEF PARTIAL_APPLY, Op
<1>2. PoppedBy(op, arg) = 1 /\ Orderly
  BY <1>1, PopCounts DEF Between
<1>3. Ref(0) \in Found /\ Ref(0) \in DOMAIN heap /\ Children(Obj(0)) \subseteq Found
  BY <1>1, <1>2, OperandsFound
<1>4. arg \in Nat /\ arg + 1 <= Len(stack) /\ Len(stack) \in Nat
  <2>1. Computes(chunk, Labels, Arities, ip)
    BY <1>1, SortsHere DEF PlainOps
  <2>2. arg \in Nat /\ HasReferences(Labels[ip], arg + 1)
    BY <1>1, <2>1, HereIs DEF Computes, Here, Taken
  <2>3. PICK fr, m, low, base, blow : Running(Labels, Arities, fr, m, low, base, blow)
    BY <1>1, SortsHere
  <2>4. Finds(arg + 1, 0)
    BY <2>2, <2>3, ReferencesFound
  <2> QED BY <1>2, <2>2, <2>4, StackFound DEF Finds
<1>5. CASE Obj(0).type \notin {"closure", "application"}
  BY <1>5, StopUses DEF PARTIAL_APPLY, runtime_error, Stop, outside
<1>6. CASE \E n \in 1..arg : ~Word(n).tag
  BY <1>6, StopUses DEF PARTIAL_APPLY, runtime_error, Panic, Stop, outside
<1>7. CASE Obj(0).type \in {"closure", "application"} /\ \A n \in 1..arg : Word(n).tag
  <2>1. /\ Allocate(arg + 1, Object("application", 0, fields, closure, FALSE))
        /\ UNCHANGED <<bindings, reg_1, exception_reg>>
    BY <1>7 DEF PARTIAL_APPLY, Continue, outside
  <2>2. IsList(held) /\ (\A i \in DOMAIN held : held[i] \in Found \cup {0}) /\ closure \in Found \cup {0}
    <3>1. CASE partial
      <4>1. Obj(0).fields \in Seq(Nat)
        BY <1>2, <1>3, HeapOrderly DEF Obj
      <4> QED BY <1>3, <3>1, <4>1, ListOver DEF Children
    <3>2. CASE ~partial
      BY <1>3, <3>2, NoneIn DEF RefsIn
    <3> QED BY <3>1, <3>2
  <2>3. \A n \in 1..arg : Ref(n) \in Found \cup {0}
    <3>1. \A n \in 1..arg : n \in 0..(Len(stack) - 1)
      BY <1>4
    <3> QED BY <1>2, <1>7, <3>1, StackFound, FoundRules
  <2>4. IsList(given) /\ \A i \in DOMAIN given : given[i] \in Found \cup {0}
    <3>1. given \in Seq(Found \cup {0})
      BY <1>4, <2>3
    <3>2. \A i \in DOMAIN given : given[i] \in Found \cup {0}
      BY <2>3
    <3> HIDE DEF given
    <3> QED BY <3>1, <3>2, ListOver
  <2>5. IsJoin(fields, held, given)
    BY DEF IsJoin
  <2> HIDE DEF fields, held, given, closure
  <2>6. \A i \in DOMAIN fields : (\E j \in DOMAIN held : fields[i] = held[j])
                                 \/ (\E j \in DOMAIN given : fields[i] = given[j])
    BY <2>2, <2>4, <2>5, ListsJoined
  <2>7. \A i \in DOMAIN fields : fields[i] \in Found \cup {0}
    BY <2>2, <2>4, <2>6
  <2>8. Children(Object("application", 0, fields, closure, FALSE)) \subseteq Found
    BY <2>2, <2>7, ChildrenIn
  <2>9. arg + 1 \in Nat
    BY <1>4
  <2> QED BY <1>4, <2>1, <2>8, <2>9, AllocateUses
<1> QED BY <1>5, <1>6, <1>7
\* Reading an object, and testing it.
LEMMA ReadUses ==
  ASSUME Sane, Between, READ_CONS \/ OBJECT_READ
  PROVE  Uses
<1>1. op \in {"HEAD", "TAIL", "OBJECT_READ"} /\ FindsOperands
  BY DEF READ_CONS, OBJECT_READ, Op
<1>2. PoppedBy(op, arg) = 1 /\ Orderly
  BY <1>1, PopCounts DEF Between
<1>3. 1 <= Len(stack) /\ 0 <= Len(stack) /\ Ref(0) \in DOMAIN heap /\ Children(Obj(0)) \subseteq Found
  BY <1>1, <1>2, OperandsFound
<1>4. \A k \in DOMAIN Obj(0).fields : Obj(0).fields[k] \in Found \cup {0}
  BY <1>3 DEF Children
<1>5. ASSUME NEW k \in DOMAIN Obj(0).fields, NEW n \in 0..1, Replace(n, <<Val(Obj(0).fields[k])>>),
             UNCHANGED <<heap, bindings, reg_1, exception_reg>>
      PROVE  Uses
  <2> DEFINE w == Val(Obj(0).fields[k])
  <2>1. Replace(n, <<w>>) /\ Allowed(Found \cup {0}, w)
    BY <1>4, <1>5, Numbers
  <2>2. n \in Nat /\ n <= Len(stack)
    BY <1>3
  <2> HIDE DEF w
  <2> QED BY <1>5, <2>1, <2>2, OneUses
<1>6. CASE READ_CONS
  <2> DEFINE k == IF op = "HEAD" THEN 1 ELSE 2
  <2>1. CASE Obj(0).type # "cons"
    BY <1>6, <2>1, StopUses DEF READ_CONS, runtime_error, Stop, outside
  <2>2. CASE Obj(0).type = "cons"
    <3>1. Replace(1, <<Val(Obj(0).fields[k])>>) /\ UNCHANGED <<heap, bindings, reg_1, exception_reg>>
      BY <1>6, <2>2 DEF READ_CONS, Continue, outside
    <3>2. Obj(0).fields \in Seq(Nat) /\ Len(Obj(0).fields) = 2
      BY <1>2, <1>3, <2>2 DEF Orderly, GoodHeap, Shaped, Obj
    <3>3. k \in DOMAIN Obj(0).fields
      BY <3>2, LenProperties
    <3> HIDE DEF k
    <3> QED BY <1>5, <3>1, <3>3
  <2> QED BY <2>1, <2>2
<1>7. CASE OBJECT_READ
  <2>1. CASE Obj(0).type # "object" \/ arg + 1 \notin DOMAIN Obj(0).fields
    BY <1>7, <2>1, StopUses DEF OBJECT_READ, Panic, Stop, outside
  <2>2. CASE ~(Obj(0).type # "object" \/ arg + 1 \notin DOMAIN Obj(0).fields)
    <3>1. Replace(0, <<Val(Obj(0).fields[arg + 1])>>) /\ UNCHANGED <<heap, bindings, reg_1, exception_reg>>
      BY <1>7, <2>2 DEF OBJECT_READ, Continue, outside
    <3> QED BY <1>5, <2>2, <3>1
  <2> QED BY <2>1, <2>2
<1> QED BY <1>6, <1>7
LEMMA TestUses ==
  ASSUME Sane, Between, IS_TYPE \/ IS_VARIANT
  PROVE  Uses
<1>1. ASSUME NEW b, Test(b)
      PROVE  Uses
  BY <1>1, TestsHere DEF Test, Continue, outside
<1>2. CASE IS_TYPE
  <2>1. \E b : Test(b)
    BY <1>2, Zenon DEF IS_TYPE
  <2> QED BY <1>1, <2>1
<1>3. CASE IS_VARIANT
  <2>1. runtime_error \/ \E b : Test(b)
    BY <1>3, Zenon DEF IS_VARIANT
  <2>2. CASE runtime_error
    BY <2>2, StopUses DEF runtime_error, Stop, outside
  <2> QED BY <1>1, <2>1, <2>2
<1> QED BY <1>2, <1>3
LEMMA CompareUses ==
  ASSUME Sane, Between, COMPARISON_BIN_OP \/ EQUAL \/ NOT
  PROVE  Uses
<1>1. op \in {"LESS", "GREATER", "EQUAL", "NOT"} /\ FindsOperands
  BY DEF COMPARISON_BIN_OP, EQUAL, NOT, Op
<1> DEFINE n == PoppedBy(op, arg)
<1>2. n \in 1..2 /\ Orderly /\ (op # "NOT" => n = 2) /\ (op = "NOT" => n = 1)
  BY <1>1, PopCounts DEF Between
<1>3. n \in Nat /\ n <= Len(stack)
  BY <1>1, <1>2, OperandsFound
<1>4. ASSUME NEW b, Replace(n, <<Box(b)>>), Continue, UNCHANGED <<bindings, reg_1, heap>>
      PROVE  Uses
  <2> HIDE DEF n
  <2> QED BY <1>3, <1>4, BoxUses DEF Continue, outside
<1>5. ASSUME runtime_error
      PROVE  Uses
  BY <1>5, StopUses DEF runtime_error, Stop, outside
<1>6. CASE COMPARISON_BIN_OP
  <2>1. op # "NOT"
    BY <1>6 DEF COMPARISON_BIN_OP, Op
  <2>2. runtime_error \/ \E b : Replace(2, <<Box(b)>>) /\ Continue /\ UNCHANGED <<bindings, reg_1, heap>>
    BY <1>6, Zenon DEF COMPARISON_BIN_OP
  <2> QED BY <1>2, <1>4, <1>5, <2>1, <2>2
<1>7. CASE EQUAL
  <2>1. op # "NOT"
    BY <1>7 DEF EQUAL, Op
  <2>2. runtime_error \/ \E b : Replace(2, <<Box(b)>>) /\ Continue /\ UNCHANGED <<bindings, reg_1, heap>>
    BY <1>7, Zenon DEF EQUAL
  <2> QED BY <1>2, <1>4, <1>5, <2>1, <2>2
<1>8. CASE NOT
  <2>1. op = "NOT"
    BY <1>8 DEF NOT, Op
  <2>2. runtime_error \/ \E b : Replace(1, <<Box(b)>>) /\ Continue /\ UNCHANGED <<bindings, reg_1, heap>>
    BY <1>8, Zenon DEF NOT
  <2> QED BY <1>2, <1>4, <1>5, <2>1, <2>2
<1> QED BY <1>6, <1>7, <1>8
\* Numbers refer to nothing.
LEMMA NumberUses ==
  ASSUME Sane, Between, NUM_BIN_OP \/ NEGATE
  PROVE  Uses
<1>1. op \in {"ADD", "SUBTRACT", "MULTIPLY", "DIVIDE", "NEGATE"} /\ FindsOperands
  BY DEF NUM_BIN_OP, NEGATE, Op
<1> DEFINE n == PoppedBy(op, arg)
<1>2. Orderly /\ (op # "NEGATE" => n = 2) /\ (op = "NEGATE" => n = 1)
  BY <1>1, PopCounts DEF Between
<1>3. n \in Nat /\ n <= Len(stack)
  <2>1. n \in Nat
    BY <1>2
  <2> QED BY <1>1, <1>2, <2>1, OperandsFound
<1>4. ASSUME NEW x, Allocate(n, Object("int", x, <<>>, 0, TRUE)), Continue, UNCHANGED <<bindings, reg_1>>
      PROVE  Uses
  <2> DEFINE object == Object("int", x, <<>>, 0, TRUE)
  <2>1. Children(object) \subseteq Found /\ Allocate(n, object)
    BY <1>4, NoChildren
  <2> HIDE DEF n, object
  <2> QED BY <1>3, <1>4, <2>1, AllocateUses DEF Continue, outside
<1>5. ASSUME runtime_error \/ Panic
      PROVE  Uses
  BY <1>5, StopUses DEF runtime_error, Panic, Stop, outside
<1>6. CASE NUM_BIN_OP
  <2>1. op # "NEGATE"
    BY <1>6 DEF NUM_BIN_OP, Op
  <2>2. runtime_error \/ Panic \/ \E x : /\ Allocate(2, Object("int", x, <<>>, 0, TRUE))
                                         /\ Continue /\ UNCHANGED <<bindings, reg_1>>
    BY <1>6, Zenon DEF NUM_BIN_OP
  <2> QED BY <1>2, <1>4, <1>5, <2>1, <2>2
<1>7. CASE NEGATE
  <2>1. op = "NEGATE"
    BY <1>7 DEF NEGATE, Op
  <2>2. runtime_error \/ \E x : /\ Allocate(1, Object("int", x, <<>>, 0, TRUE))
                                /\ Continue /\ UNCHANGED <<bindings, reg_1>>
    BY <1>7, Zenon DEF NEGATE
  <2> QED BY <1>2, <1>4, <1>5, <2>1, <2>2
<1> QED BY <1>6, <1>7
\* An object is written to, and a word takes the place of others.
LEMMA WriteUses ==
  ASSUME Between, NEW t \in DOMAIN heap, t \in Found, NEW object, Children(object) \subseteq Found,
         IsUpdated(heap', heap, t, object), IsRewritten(heap[t], object),
         NEW n \in Nat, n <= Len(stack), NEW w, Allowed(Found \cup {0}, w), Replace(n, <<w>>),
         UNCHANGED <<bindings, reg_1, exception_reg>>
  PROVE  Uses
<1> DEFINE K == Found \cup {0}
           ws == <<w>>
<1>1. Orderly
  BY DEF Between
<1>2. /\ RefsIn(K, stack) /\ Len(stack) \in Nat
      /\ \A i \in DOMAIN bindings : bindings[i] \in Found
      /\ (reg_1.tag => reg_1.n \in Found) /\ (exception_reg.tag => exception_reg.n \in Found)
  BY <1>1, StackFound
<1>3. IsReplaced(stack', stack, n, ws) /\ RefsIn(K, ws)
  BY OneIn DEF Replace, IsReplaced
<1> HIDE DEF K, ws
<1>4. RefsIn(K, stack')
  BY ONLY <1>2, <1>3, n \in Nat, n <= Len(stack), RefsReplaced
<1> USE DEF K
<1>5. DOMAIN heap' = DOMAIN heap /\ heap'[t] = object /\ \A j \in DOMAIN heap : j # t => heap'[j] = heap[j]
  <2>1. IsList(heap)
    BY <1>1 DEF Orderly, GoodHeap
  <2>2. heap = [i \in DOMAIN heap |-> heap[i]]
    BY <2>1, LenProperties DEF IsList
  <2> DEFINE D == DOMAIN heap
  <2>3. heap' = [i \in D |-> IF i = t THEN object ELSE heap[i]]
    BY <2>2 DEF IsUpdated
  <2> HIDE DEF D
  <2>4. DOMAIN heap' = D /\ \A j \in D : heap'[j] = IF j = t THEN object ELSE heap[j]
    BY <2>3
  <2> QED BY <2>4 DEF D
<1>6. Children(heap'[t]) \subseteq Found /\ IsRewritten(heap[t], heap'[t])
  BY <1>5
<1> QED BY <1>2, <1>4, <1>5, <1>6, UsesWritten
LEMMA UpdateUses ==
  ASSUME Sane, Between, UPDATE_THUNK
  PROVE  Uses
<1> DEFINE t == Ref(1)
           object == [heap[t] EXCEPT !.link = Ref(0)]
<1>1. op = "UPDATE_THUNK" /\ FindsOperands
  BY DEF UPDATE_THUNK, Op
<1>2. PoppedBy(op, arg) = 2 /\ Orderly
  BY <1>1, PopCounts DEF Between
<1>3. /\ 2 <= Len(stack) /\ Ref(0) \in Found /\ Ref(1) \in Found /\ Ref(1) \in DOMAIN heap
      /\ Children(heap[t]) \subseteq Found
  BY <1>1, <1>2, OperandsFound DEF Obj
<1>4. CASE ~Obj(0).whnf \/ Obj(1).type # "thunk"
  BY <1>4, StopUses DEF UPDATE_THUNK, Panic, Stop, outside
<1>5. CASE ~(~Obj(0).whnf \/ Obj(1).type # "thunk")
  <2>1. /\ heap' = [heap EXCEPT ![t].link = Ref(0)] /\ Replace(2, <<Word(0)>>)
        /\ UNCHANGED <<bindings, reg_1, exception_reg>>
    BY <1>5 DEF UPDATE_THUNK, Continue, outside
  <2>2. IsUpdated(heap', heap, t, object)
    BY <2>1 DEF IsUpdated
  <2>3. /\ object.fields = heap[t].fields /\ object.link = Ref(0)
        /\ object.type = heap[t].type /\ heap[t].type = "thunk"
    <3>1. heap[t] = Object(heap[t].type, heap[t].n, heap[t].fields, heap[t].link, heap[t].whnf)
      BY <1>2, <1>3, HeapOrderly
    <3> QED BY <1>5, <3>1 DEF Object, Obj
  <2>4. Allowed(Found \cup {0}, Word(0))
    BY <1>3 DEF Allowed, Ref
  <2> HIDE DEF t, object
  <2>5. Children(object) \subseteq Found /\ IsRewritten(heap[t], object)
    BY <1>3, <2>3 DEF Children, IsRewritten
  <2>6. t \in DOMAIN heap /\ t \in Found
    BY <1>3 DEF t
  <2> QED BY <1>3, <2>1, <2>2, <2>4, <2>5, <2>6, WriteUses
<1> QED BY <1>4, <1>5
LEMMA CapturesUse ==
  ASSUME Sane, Between, WRITE_CAPTURES
  PROVE  Uses
<1> DEFINE t == Ref(0)
           n == info(t).capture_count
           fields == written_captures(n)
           object == [heap[t] EXCEPT !.fields = fields]
<1>1. op \in {"WRITE_CLOSURE", "WRITE_THUNK"} /\ FindsOperands
  BY DEF WRITE_CAPTURES, Op
<1>2. PoppedBy(op, arg) = 1 /\ Orderly
  BY <1>1, PopCounts DEF Between
<1>3. /\ Ref(0) \in Found /\ Ref(0) \in DOMAIN heap /\ Children(heap[t]) \subseteq Found
  BY <1>1, <1>2, OperandsFound DEF Obj
<1>4. n \in Nat /\ n + 1 <= Len(stack) /\ (heap[t].fields = <<>> => n = 0)
  <2> DEFINE l == Labels[ip]
             c == chunk.closures[l.mode.n].capture_count
             v == NEW_OBJECT
  <2>1. Makes(chunk, Labels, Arities, ip)
    BY <1>1, SortsHere DEF MakeOps
  <2>2. /\ l.mode.n \in DOMAIN chunk.closures /\ HasReferences(l, c + 1) /\ FromTop(l.words, 0) = v
        /\ l.mode.kind \in {"closure", "thunk"}
    BY <1>1, <2>1, HereIs DEF Makes, Here
  <2>3. PICK fr, m, low, base, blow : Running(Labels, Arities, fr, m, low, base, blow)
    BY <1>1, SortsHere
  <2>4. c \in Nat
    <3>1. Verified(chunk, Labels, Arities)
      BY DEF Sane, VerifiedHere
    <3> QED BY <2>2, <3>1 DEF Verified, IsInfo
  <2>5. l.mode.kind \in {"closure", "thunk"} /\ Len(l.words) \in Nat /\ GoodHeap(heap, l.mode, chunk, Arities)
        /\ 0 < Len(l.words)
    <3>1. Len(l.words) \in Nat /\ GoodHeap(heap, l.mode, chunk, Arities)
      BY <2>3, TypedHere
    <3>2. Len(l.words) >= c + 1
      BY <2>2 DEF HasReferences
    <3> HIDE DEF c, l
    <3> QED BY <2>2, <2>4, <3>1, <3>2
  <2>6. t = Len(heap)
    <3>1. Known(heap, Word(0), v, blow)
      BY <2>2, <2>3, <2>5, WordHere
    <3> QED BY <3>1 DEF Known, NEW_OBJECT, Kind, Ref
  <2>7. heap[t].n = l.mode.n /\ heap[t].type \in {"closure", "thunk"}
    BY <2>5, <2>6 DEF GoodHeap, IsMade
  <2>8. n = c
    BY <2>7 DEF info
  <2>9. Finds(c + 1, 0)
    <3>1. c + 1 \in Nat /\ c + 1 \in 0..(c + 1)
      BY <2>4
    <3> HIDE DEF c, l
    <3> QED BY <2>2, <2>3, <3>1, ReferencesFound DEF l
  <2>10. Len(stack) \in Nat
    BY <1>2, StackFound
  <2>11. heap[t].fields = <<>> => n = 0
    <3>1. Shaped(heap[t], heap, chunk, Arities)
      BY <1>3, <2>5 DEF GoodHeap
    <3>2. Len(heap[t].fields) = n
      BY <2>7, <3>1 DEF Shaped, info
    <3> HIDE DEF n, t
    <3> QED BY <3>2
  <2> QED BY <2>4, <2>8, <2>9, <2>10, <2>11 DEF Finds
<1> DEFINE wrong == Obj(0).type # (IF op = "WRITE_CLOSURE" THEN "closure" ELSE "thunk") \/ \E i \in 1..n : ~Word(i).tag
<1>5. CASE wrong
  BY <1>5, StopUses DEF WRITE_CAPTURES, Panic, Stop, outside
<1>6. CASE ~wrong
  <2>1. /\ heap' = [heap EXCEPT ![t].fields = fields] /\ Replace(n + 1, <<Word(0)>>)
        /\ UNCHANGED <<bindings, reg_1, exception_reg>>
    BY <1>6 DEF WRITE_CAPTURES, Continue, outside
  <2>2. IsUpdated(heap', heap, t, object)
    BY <2>1 DEF IsUpdated
  <2>3. object.fields = fields /\ object.link = heap[t].link /\ object.type = heap[t].type
    <3>1. heap[t] = Object(heap[t].type, heap[t].n, heap[t].fields, heap[t].link, heap[t].whnf)
      BY <1>2, <1>3, HeapOrderly
    <3> DEFINE f == fields
    <3>2. object = [heap[t] EXCEPT !.fields = f]
      OBVIOUS
    <3> HIDE DEF object, f
    <3>3. object.fields = f /\ object.link = heap[t].link /\ object.type = heap[t].type
      BY <3>1, <3>2 DEF Object
    <3> QED BY <3>3 DEF f
  <2>4. Allowed(Found \cup {0}, Word(0))
    BY <1>3 DEF Allowed, Ref
  <2>5. \A i \in 1..n : Word(i).tag
    BY <1>6
  <2>6. fields = [i \in 1..n |-> Ref(n - i + 1)]
    BY DEF written_captures
  <2> HIDE DEF n, fields
  <2>7. \A i \in DOMAIN fields : fields[i] \in Found
    <3> SUFFICES ASSUME NEW i \in 1..n
                 PROVE  fields[i] \in Found
      BY <2>6
    <3>1. n - i + 1 \in 1..n /\ n - i + 1 \in 0..(Len(stack) - 1)
      <4>1. Len(stack) \in Nat
        BY <1>2, StackFound
      <4> QED BY <1>4, <4>1
    <3>2. Ref(n - i + 1) \in Held
      BY <1>2, <2>5, <3>1, StackFound
    <3> QED BY <2>6, <3>2, FoundRules
  <2>8. Children(object) \subseteq Found /\ IsRewritten(heap[t], object)
    <3>1. heap[t].fields = <<>> => fields = <<>>
      BY <1>4, <2>6
    <3> QED BY <1>3, <2>3, <2>7, <3>1 DEF Children, IsRewritten
  <2> HIDE DEF t, object
  <2>9. t \in DOMAIN heap /\ t \in Found /\ n + 1 \in Nat
    BY <1>3, <1>4 DEF t
  <2> QED BY <1>4, <2>1, <2>2, <2>4, <2>8, <2>9, WriteUses
<1> QED BY <1>5, <1>6
\* The functions outside: each leaves an object it made, or unit, or nothing.
LEMMA AnswerUses ==
  ASSUME Between, NEW n \in Nat, n <= Len(stack), NEW object, Children(object) \subseteq Found,
         NEW w, Answer(n, object, w)
  PROVE  Uses
BY AllocateUses DEF Answer
LEMMA LeaveUses ==
  ASSUME Between, NEW n \in Nat, n <= Len(stack), NEW words, words \in {<<>>, <<Val(UNIT_BOX)>>},
         NEW w, Leave(n, words, w)
  PROVE  Uses
<1>1. Replace(n, words) /\ UNCHANGED <<heap, bindings, reg_1, exception_reg>>
  BY DEF Leave
<1>2. CASE words = <<>>
  <2>1. Replace(n, <<>>)
    BY <1>1, <1>2
  <2> QED BY <1>1, <2>1, NoneUses
<1>3. CASE words = <<Val(UNIT_BOX)>>
  <2> DEFINE v == Val(UNIT_BOX)
  <2>1. Replace(n, <<v>>)
    BY <1>1, <1>3
  <2>2. Allowed(Found \cup {0}, v)
    <3>1. UNIT_BOX \in DOMAIN chunk.constants
      BY HeapOrderly DEF Between
    <3> QED BY <3>1, FoundRules, Numbers
  <2> HIDE DEF v
  <2> QED BY <1>1, <2>1, <2>2, OneUses
<1> QED BY <1>2, <1>3
LEMMA ExternUses ==
  ASSUME Sane, Between,
         STD_STREAM \/ OPEN_FILE \/ CLOSE_FILE \/ STREAM_ERRORS \/ WRITE_VALUE \/ READ_LINE \/ READ_CONTENTS
  PROVE  Uses
<1> DEFINE n == PoppedBy(op, arg)
<1>1. \A f : CallExtern(f) => op = "CALL_EXTERN" /\ arg = f /\ FindsOperands
  BY DEF CallExtern, Op
<1>2. Orderly /\ \A f : CallExtern(f) => n = ExternOperands(f)
  BY <1>1 DEF Between, PoppedBy
<1>3. \A f : CallExtern(f) => n <= Len(stack)
  BY <1>1, <1>2, OperandsFound
<1>4. 0 <= Len(stack)
  BY <1>2, StackFound
<1>5. ASSUME runtime_error \/ Panic
      PROVE  Uses
  BY <1>5, StopUses DEF runtime_error, Panic, Stop, outside
<1>6. ASSUME NEW k \in Nat, k <= Len(stack), NEW type, NEW x, NEW w,
             Answer(k, Object(type, x, <<>>, 0, TRUE), w)
      PROVE  Uses
  <2> DEFINE object == Object(type, x, <<>>, 0, TRUE)
  <2>1. Children(object) \subseteq Found /\ Answer(k, object, w)
    BY <1>6, NoChildren
  <2> HIDE DEF object
  <2> QED BY <1>6, <2>1, AnswerUses
<1>7. CASE STD_STREAM
  <2>1. \E x, w : Answer(0, Object("file", x, <<>>, 0, TRUE), w)
    BY <1>7, Zenon DEF STD_STREAM, FileHandle
  <2> QED BY <1>4, <1>6, <2>1
<1>8. CASE OPEN_FILE
  <2>1. CallExtern("OPEN_FILE")
    BY <1>8, Zenon DEF OPEN_FILE
  <2>2. 2 <= Len(stack)
    BY <1>2, <1>3, <2>1 DEF ExternOperands
  <2>3. \/ runtime_error
        \/ \E x, w : Answer(2, Object("file", x, <<>>, 0, TRUE), w)
        \/ \E w : Leave(2, <<Val(UNIT_BOX)>>, w)
    BY <1>8 DEF OPEN_FILE, FileHandle
  <2>4. ASSUME NEW w, Leave(2, <<Val(UNIT_BOX)>>, w)
        PROVE  Uses
    BY <2>2, <2>4, LeaveUses
  <2> QED BY <1>5, <1>6, <2>2, <2>3, <2>4
<1>9. CASE CLOSE_FILE
  <2>1. CallExtern("CLOSE_FILE")
    BY <1>9, Zenon DEF CLOSE_FILE
  <2>2. 1 <= Len(stack)
    BY <1>2, <1>3, <2>1 DEF ExternOperands
  <2>3. runtime_error \/ Panic \/ \E w : Leave(1, <<Val(UNIT_BOX)>>, w)
    BY <1>9 DEF CLOSE_FILE, OnStream
  <2>4. ASSUME NEW w, Leave(1, <<Val(UNIT_BOX)>>, w)
        PROVE  Uses
    BY <2>2, <2>4, LeaveUses
  <2> QED BY <1>5, <2>3, <2>4
<1>10. CASE STREAM_ERRORS
  <2>1. CallExtern("STREAM_ERRORS")
    BY <1>10, Zenon DEF STREAM_ERRORS
  <2>2. 1 <= Len(stack)
    BY <1>2, <1>3, <2>1 DEF ExternOperands
  <2>3. runtime_error \/ Panic \/ \E x, w : Answer(1, Object("bool", x, <<>>, 0, TRUE), w)
    BY <1>10 DEF STREAM_ERRORS, OnStream
  <2> QED BY <1>5, <1>6, <2>2, <2>3
<1>11. CASE WRITE_VALUE
  <2>1. CallExtern("WRITE")
    BY <1>11, Zenon DEF WRITE_VALUE
  <2>2. 2 <= Len(stack)
    BY <1>2, <1>3, <2>1 DEF ExternOperands
  <2>3. runtime_error \/ Panic \/ \E w : Leave(2, <<>>, w)
    BY <1>11 DEF WRITE_VALUE, OnStream
  <2>4. ASSUME NEW w, Leave(2, <<>>, w)
        PROVE  Uses
    BY <2>2, <2>4, LeaveUses
  <2> QED BY <1>5, <2>3, <2>4
<1>12. CASE READ_LINE
  <2>1. CallExtern("READ_LINE")
    BY <1>12, Zenon DEF READ_LINE
  <2>2. 1 <= Len(stack)
    BY <1>2, <1>3, <2>1 DEF ExternOperands
  <2>3. runtime_error \/ Panic \/ \E x, w : Answer(1, Object("array", x, <<>>, 0, TRUE), w)
    BY <1>12 DEF READ_LINE, OnStream, Array
  <2> QED BY <1>5, <1>6, <2>2, <2>3
<1>13. CASE READ_CONTENTS
  <2>1. CallExtern("READ_CONTENTS")
    BY <1>13, Zenon DEF READ_CONTENTS
  <2>2. 1 <= Len(stack)
    BY <1>2, <1>3, <2>1 DEF ExternOperands
  <2>3. runtime_error \/ Panic \/ \E x, w : Answer(1, Object("array", x, <<>>, 0, TRUE), w)
    BY <1>13 DEF READ_CONTENTS, OnStream, Array
  <2> QED BY <1>5, <1>6, <2>2, <2>3
<1> QED BY <1>7, <1>8, <1>9, <1>10, <1>11, <1>12, <1>13
\* The words of a call.
AsHeap(K) == [i \in K |-> 0]
LEMMA AsHeapRules ==
  ASSUME NEW K
  PROVE  /\ \A ws : Tagged(AsHeap(K), ws) => RefsIn(K, ws)
         /\ \A st : st \in Seq(Words) /\ RefsIn(K, st) => Tagged(AsHeap(K), st)
         /\ \A fields : fields \in Seq(Nat) /\ (\A i \in DOMAIN fields : fields[i] \in K) => Within(fields, AsHeap(K))
         /\ DOMAIN AsHeap(K) = K
<1>1. DOMAIN AsHeap(K) = K
  BY DEF AsHeap
<1>2. \A ws : ws \in Seq(Words) => IsList(ws)
  BY ListOver
<1> QED BY <1>1, <1>2 DEF Tagged, RefsIn, Within
LEMMA RefsJoined ==
  ASSUME NEW K, NEW s, RefsIn(K, s), NEW t, RefsIn(K, t), NEW u, IsJoin(u, s, t)
  PROVE  RefsIn(K, u)
<1>1. IsList(s) /\ IsList(t)
  BY DEF RefsIn
<1>2. IsList(u) /\ \A i \in DOMAIN u : (\E j \in DOMAIN s : u[i] = s[j]) \/ (\E j \in DOMAIN t : u[i] = t[j])
  BY ONLY <1>1, IsJoin(u, s, t), ListsJoined
<1> QED BY <1>2 DEF RefsIn
LEMMA ThreeIn ==
  ASSUME NEW K, NEW v, Allowed(K, v), NEW w, Allowed(K, w), NEW x, Allowed(K, x)
  PROVE  RefsIn(K, <<v, w, x>>)
<1> DEFINE ws == <<v, w, x>>
<1>1. ws \in Seq({ws[i] : i \in DOMAIN ws}) /\ DOMAIN ws = {1, 2, 3} /\ ws[1] = v /\ ws[2] = w /\ ws[3] = x
  OBVIOUS
<1> HIDE DEF ws
<1>2. RefsIn(K, ws)
  BY <1>1 DEF RefsIn, IsList, Allowed
<1> QED BY <1>2 DEF ws
\* Words take the place of others, REG_1 being set.
LEMMA EnterUses ==
  ASSUME Between, NEW n \in Nat, n <= Len(stack), NEW ws, RefsIn(Found \cup {0}, ws), Replace(n, ws),
         NEW f \in Found \cup {0}, reg_1' = Val(f), UNCHANGED <<heap, bindings, exception_reg>>
  PROVE  Uses
<1> DEFINE K == Found \cup {0}
<1>1. Orderly
  BY DEF Between
<1>2. /\ RefsIn(K, stack) /\ Len(stack) \in Nat
      /\ \A i \in DOMAIN bindings : bindings[i] \in Found
      /\ (exception_reg.tag => exception_reg.n \in Found)
  BY <1>1, StackFound
<1>3. IsReplaced(stack', stack, n, ws) /\ RefsIn(K, ws)
  BY DEF Replace, IsReplaced
<1>4. reg_1'.n \in Found \cup {0}
  BY Numbers
<1> HIDE DEF K
<1>5. RefsIn(K, stack')
  BY ONLY <1>2, <1>3, n \in Nat, n <= Len(stack), RefsReplaced
<1> USE DEF K
<1> QED BY <1>2, <1>4, <1>5, UsesSame
\* The cases of EVAL.
LEMMA EvalCases ==
  ASSUME EVAL, NEW val, val = Ref(0), NEW target, target = (IF heap[val].whnf THEN val ELSE forwarded(val))
  PROVE  /\ heap[val].whnf => /\ Continue /\ UNCHANGED <<stack, stack_len, reg_1, heap>>
         /\ ~heap[val].whnf /\ heap[target].type = "thunk" =>
              /\ reg_1' = Val(target)
              /\ Replace(1, <<Raw(ip), Val(target), Raw(address_of_global("UPDATE_THUNK"))>>)
              /\ JumpTo(info(target).address) /\ UNCHANGED heap
         /\ ~heap[val].whnf /\ heap[target].type = "application" /\ Saturated(target) =>
              /\ reg_1' = Val(heap[target].link)
              /\ Replace(1, <<Raw(ip)>> \o call_words(heap[target].fields, info(heap[target].link).arity))
              /\ JumpTo(info(heap[target].link).address) /\ UNCHANGED heap
         /\ ~heap[val].whnf /\ heap[target].type # "thunk" /\ ~(heap[target].type = "application" /\ Saturated(target)) =>
              /\ heap' = [heap EXCEPT ![target].whnf = TRUE]
              /\ Replace(1, <<Val(target)>>) /\ Continue /\ UNCHANGED reg_1
         /\ op = "EVAL" /\ FindsOperands /\ UNCHANGED bindings
<1>1. CASE heap[val].whnf
  BY <1>1, Zenon DEF EVAL, Op
<1>2. CASE ~heap[val].whnf /\ heap[target].type = "thunk"
  <2>1. "thunk" # "application"
    OBVIOUS
  <2> QED BY <1>2, <2>1 DEF EVAL, Op
<1>3. CASE ~heap[val].whnf /\ heap[target].type = "application" /\ Saturated(target)
  BY <1>3 DEF EVAL, Op
<1>4. CASE ~heap[val].whnf /\ heap[target].type # "thunk" /\ ~(heap[target].type = "application" /\ Saturated(target))
  BY <1>4 DEF EVAL, Op
<1> QED BY <1>1, <1>2, <1>3, <1>4
\* An application of as many arguments as the function takes is called.
LEMMA CallUses ==
  ASSUME Sane, Between, op = "EVAL", 1 <= Len(stack),
         NEW a \in Near, a \in DOMAIN heap, heap[a].type = "application", Saturated(a), NEW f, f = heap[a].link,
         NEW n, n = info(f).arity,
         reg_1' = Val(f), Replace(1, <<Raw(ip)>> \o call_words(heap[a].fields, n)),
         UNCHANGED <<heap, bindings, exception_reg>>
  PROVE  Uses
<1> DEFINE L == Labels
           A == Arities
           K == Found \cup {0}
           fields == heap[a].fields
           at == address_of_global("APPL_CONT")
           e == Len(fields) - n
           ws == call_words(fields, n)
           hp == AsHeap(K)
           first == <<Raw(ip)>>
           all == first \o ws
<1>1. Orderly /\ Verified(chunk, L, A)
  BY DEF Between, Sane, VerifiedHere
<1>2. PICK fr, m, low, base, blow : Running(L, A, fr, m, low, base, blow)
  BY SortsHere
<1>3. Waits(L[ip])
  <2>1. Enters(chunk, L, ip)
    BY SortsHere DEF EnterOps
  <2> QED BY <2>1, HereIs DEF Enters, Here
<1>4. ~IsMade(L[ip].mode)
  BY <1>3, WaitingModes
<1>5. f \in DOMAIN heap /\ heap[f].type = "closure"
  <2>1. Shaped(heap[a], heap, chunk, A)
    BY <1>2, <1>4, ObjectHere
  <2> QED BY <2>1 DEF Shaped
<1>6. n \in Nat /\ at \in Int
  <2>1. n \in Nat
    BY <1>1, <1>2, <1>4, <1>5, InfoHere
  <2>2. at \in Int
    BY <1>1, GlobalHere
  <2> QED BY <2>1, <2>2
<1>7. fields \in Seq(Nat) /\ f \in K /\ \A i \in DOMAIN fields : fields[i] \in K
  <2>1. fields \in Seq(Nat)
    BY <1>1, HeapOrderly
  <2>2. Children(heap[a]) \subseteq Found
    BY FoundRules
  <2> QED BY <2>1, <2>2 DEF Children
<1>8. n <= Len(fields)
  <2>1. Len(fields) \in Nat
    BY <1>7, LenProperties
  <2> QED BY <1>6, <2>1 DEF Saturated
<1>9. reg_1' = Val(f) /\ Replace(1, all)
  OBVIOUS
<1>50. at = address_of_global("APPL_CONT") /\ e = Len(fields) - n /\ ws = call_words(fields, n) /\ IsJoin(all, first, ws)
  BY DEF IsJoin
<1>10. Within(fields, hp)
  <2> HIDE DEF fields, K
  <2> QED BY <1>7, AsHeapRules
<1>11. RefsIn(K, first)
  <2> DEFINE w == Raw(ip)
  <2>1. Allowed(K, w)
    BY Numbers
  <2> HIDE DEF w, K
  <2>2. RefsIn(K, <<w>>)
    BY <2>1, OneIn
  <2> QED BY <2>2 DEF w
<1> HIDE DEF L, A, K, fields, at, e, ws, hp, first, all
<1>12. CallPushed(hp, ws, n, e, at)
  BY <1>6, <1>8, <1>10, <1>50, CallIsPushed
<1>13. RefsIn(K, ws)
  BY <1>12, AsHeapRules DEF CallPushed, hp
<1>14. RefsIn(K, all)
  BY <1>11, <1>13, <1>50, RefsJoined
<1> QED BY <1>7, <1>9, <1>14, EnterUses DEF K
LEMMA EvalUses ==
  ASSUME Sane, Between, EVAL
  PROVE  Uses
<1> DEFINE val == Ref(0)
           target == IF heap[val].whnf THEN val ELSE forwarded(val)
<1>1. /\ heap[val].whnf => /\ Continue /\ UNCHANGED <<stack, stack_len, reg_1, heap>>
      /\ ~heap[val].whnf /\ heap[target].type = "thunk" =>
           /\ reg_1' = Val(target)
           /\ Replace(1, <<Raw(ip), Val(target), Raw(address_of_global("UPDATE_THUNK"))>>)
           /\ JumpTo(info(target).address) /\ UNCHANGED heap
      /\ ~heap[val].whnf /\ heap[target].type = "application" /\ Saturated(target) =>
           /\ reg_1' = Val(heap[target].link)
           /\ Replace(1, <<Raw(ip)>> \o call_words(heap[target].fields, info(heap[target].link).arity))
           /\ JumpTo(info(heap[target].link).address) /\ UNCHANGED heap
      /\ ~heap[val].whnf /\ heap[target].type # "thunk" /\ ~(heap[target].type = "application" /\ Saturated(target)) =>
           /\ heap' = [heap EXCEPT ![target].whnf = TRUE]
           /\ Replace(1, <<Val(target)>>) /\ Continue /\ UNCHANGED reg_1
      /\ op = "EVAL" /\ FindsOperands /\ UNCHANGED bindings
  BY EvalCases
<1>2. PoppedBy(op, arg) = 1 /\ Orderly
  BY <1>1, PopCounts DEF Between
<1>3. 1 <= Len(stack) /\ val \in Held /\ val \in DOMAIN heap
  <2>1. 1 <= Len(stack)
    BY <1>1, <1>2, OperandsFound
  <2> QED BY <1>1, <1>2, <2>1, Taking
<1>4. target \in Near /\ target \in DOMAIN heap
  <2>1. heap[val].link \in {0} \cup DOMAIN heap /\ Children(heap[val]) \subseteq Near
    BY <1>2, <1>3, HeapOrderly, FoundRules
  <2> QED BY <1>3, <2>1, FoundRules DEF forwarded, Children
<1>5. target \in Found /\ Children(heap[target]) \subseteq Found
  BY <1>4, FoundRules
<1> HIDE DEF val, target
<1>6. CASE heap[val].whnf
  BY <1>1, <1>6, StopUses DEF Continue, outside
<1>7. CASE ~heap[val].whnf /\ heap[target].type = "thunk"
  <2> DEFINE u == Raw(ip)
             v == Val(target)
             w == Raw(address_of_global("UPDATE_THUNK"))
             ws == <<u, v, w>>
  <2>1. reg_1' = v /\ Replace(1, ws) /\ UNCHANGED <<heap, bindings, exception_reg>>
    BY <1>1, <1>7 DEF JumpTo, outside
  <2>2. Allowed(Found \cup {0}, u) /\ Allowed(Found \cup {0}, v) /\ Allowed(Found \cup {0}, w)
    BY <1>5, Numbers
  <2> HIDE DEF u, w
  <2>3. RefsIn(Found \cup {0}, ws)
    BY <2>2, ThreeIn
  <2> HIDE DEF ws
  <2> QED BY <1>3, <1>5, <2>1, <2>3, EnterUses
<1>8. CASE ~heap[val].whnf /\ heap[target].type = "application" /\ Saturated(target)
  <2>1. /\ reg_1' = Val(heap[target].link)
        /\ Replace(1, <<Raw(ip)>> \o call_words(heap[target].fields, info(heap[target].link).arity))
        /\ UNCHANGED <<heap, bindings, exception_reg>>
    BY <1>1, <1>8 DEF JumpTo, outside
  <2> QED BY <1>1, <1>3, <1>4, <1>8, <2>1, CallUses
<1>9. CASE ~heap[val].whnf /\ heap[target].type # "thunk" /\ ~(heap[target].type = "application" /\ Saturated(target))
  <2> DEFINE object == [heap[target] EXCEPT !.whnf = TRUE]
             w == Val(target)
  <2>1. /\ heap' = [heap EXCEPT ![target].whnf = TRUE] /\ Replace(1, <<w>>)
        /\ UNCHANGED <<bindings, reg_1, exception_reg>>
    BY <1>1, <1>9 DEF Continue, outside
  <2>2. IsUpdated(heap', heap, target, object)
    BY <2>1 DEF IsUpdated
  <2>3. /\ object.fields = heap[target].fields /\ object.link = heap[target].link
        /\ object.type = heap[target].type
    <3>1. heap[target] = Object(heap[target].type, heap[target].n, heap[target].fields, heap[target].link, heap[target].whnf)
      BY <1>2, <1>4, HeapOrderly
    <3> QED BY <3>1 DEF Object
  <2>4. Allowed(Found \cup {0}, w)
    BY <1>5, Numbers
  <2> HIDE DEF object, w
  <2>5. Children(object) \subseteq Found /\ IsRewritten(heap[target], object)
    BY <1>5, <2>3 DEF Children, IsRewritten
  <2> QED BY <1>3, <1>4, <1>5, <2>1, <2>2, <2>4, <2>5, WriteUses
<1> QED BY <1>6, <1>7, <1>8, <1>9
\* A part of the words.
LEMMA PartIn ==
  ASSUME NEW K, NEW st \in Seq(Words), RefsIn(K, st), NEW from \in Int, NEW to \in Int, from >= 1, to <= Len(st),
         NEW t, IsPart(t, st, from, to)
  PROVE  RefsIn(K, t)
<1>1. Len(st) \in Nat /\ DOMAIN st = 1..Len(st)
  BY LenProperties
<1>2. \A i \in from..to : st[i] \in Words
  <2>1. \A i \in from..to : i \in 1..Len(st)
    BY <1>1
  <2> QED BY <2>1, ElementOfSeq
<1>3. /\ t \in Seq(Words) /\ Len(t) = (IF from <= to THEN to - from + 1 ELSE 0)
      /\ \A i \in 1..(to - from + 1) : t[i] = st[from + i - 1]
  BY <1>2, SubSeqProperties DEF IsPart
<1>4. DOMAIN t = 1..Len(t) /\ IsList(t)
  BY <1>3, LenProperties, ListOver
<1>5. ASSUME NEW i \in DOMAIN t
      PROVE  from + i - 1 \in DOMAIN st /\ t[i] = st[from + i - 1]
  <2>1. i \in 1..(to - from + 1) /\ from + i - 1 \in 1..Len(st)
    BY <1>1, <1>3, <1>4
  <2> QED BY <1>1, <1>3, <2>1
<1> QED BY <1>4, <1>5 DEF RefsIn
\* A function is entered.
LEMMA EnteredUses ==
  ASSUME Between, RefsIn(Found \cup {0}, stack'), NEW f \in Found \cup {0}, reg_1' = Val(f),
         UNCHANGED <<heap, bindings, exception_reg>>
  PROVE  Uses
<1>1. /\ \A i \in DOMAIN bindings : bindings[i] \in Found
      /\ (exception_reg.tag => exception_reg.n \in Found)
  <2>1. RefsIn(Found, stack) /\ (\A i \in DOMAIN bindings : bindings[i] \in Found)
        /\ (exception_reg.tag => exception_reg.n \in Found)
    BY StackFound DEF Between
  <2> QED BY <2>1
<1>2. reg_1'.n \in Found \cup {0}
  BY Numbers
<1> QED BY <1>1, <1>2, UsesSame
\* Where the words of a continuation are.
LEMMA ContinuationHere ==
  ASSUME Sane, op = "HANDLE_CONTINUATION"
  PROVE  /\ \E low, base : low \in Nat /\ Arguments(heap, stack, low, base) /\ Len(stack) = base + 1
         /\ ~IsMade(Labels[ip].mode)
<1> DEFINE l == Labels[ip]
<1>1. Enters(chunk, Labels, ip)
  BY SortsHere DEF EnterOps
<1>2. l.mode = APPLYING /\ Len(l.words) = 1
  BY <1>1, HereIs DEF Enters, Here
<1>3. PICK fr, m, low, base, blow : Running(Labels, Arities, fr, m, low, base, blow)
  BY SortsHere
<1>4. Current(heap, stack, bindings, reg_1, low, base, blow, l) /\ low \in Nat
  BY <1>3, TypedHere
<1>5. Arguments(heap, stack, low, base) /\ Len(stack) = base + 1
  BY <1>2, <1>4 DEF Current, Underneath
<1> QED BY <1>2, <1>4, <1>5 DEF APPLYING, IsMade, Kind
LEMMA GatheredUses ==
  ASSUME Sane, Between, NEW closure \in Found \cup {0}, NEW arity \in Nat, NEW low, NEW words, NEW count, NEW popped,
         Gathered(AsHeap(Found \cup {0}), stack, low, words, count),
         popped = [i \in 1..count |-> words[Len(words) - i + 1].n],
         Handles(closure, arity, count, words, popped)
  PROVE  Uses
<1> DEFINE K == Found \cup {0}
           hp == AsHeap(K)
<1>1. /\ Tagged(hp, words) /\ count \in Nat /\ low \in Nat /\ Len(words) = low + count
      /\ \A j \in (low + 1)..(low + count) : IsRef(hp, words[j])
  BY DEF Gathered
<1>2. words \in Seq(Words) /\ RefsIn(K, words) /\ DOMAIN hp = K
  <2> HIDE DEF K
  <2> QED BY <1>1, AsHeapRules DEF Tagged
<1>3. bindings' = bindings /\ exception_reg' = exception_reg
  BY DEF Handles, JumpTo, outside
<1>4. CASE count < arity
  <2> DEFINE object == Object("application", 0, popped, closure, FALSE)
             new == Len(heap) + 1
             k == Len(words) - (count + 1)
             cut == Drop(words, count + 1)
             J == Found \cup {0, new}
             last == <<Val(new)>>
  <2>1. heap' = Append(heap, object) /\ stack' = Append(cut, Val(new)) /\ reg_1' = reg_1
    <3>1. arity \in Nat
      OBVIOUS
    <3>2. count # arity
      BY ONLY <1>1, <1>4, <3>1
    <3> HIDE DEF cut, K, hp, k, J, last
    <3>3. heap' = Append(heap, object) /\ stack' = Append(Drop(words, count + 1), Val(Len(heap) + 1)) /\ reg_1' = reg_1
      BY <1>4, <3>2, Zenon DEF Handles, object
    <3> QED BY <3>3 DEF cut
  <2>2. ASSUME NEW i \in 1..count
        PROVE  popped[i] \in K
    <3>1. Len(words) - i + 1 \in (low + 1)..(low + count)
      BY <1>1
    <3>2. words[Len(words) - i + 1].n \in K
      BY <1>1, <1>2, <3>1 DEF IsRef
    <3> QED BY <3>2
  <2>3. DOMAIN popped = 1..count
    OBVIOUS
  <2>4. Children(object) \subseteq Found
    <3>1. \A i \in DOMAIN popped : popped[i] \in K
      BY <2>2, <2>3, Zenon
    <3>2. closure \in K
      OBVIOUS
    <3> QED BY <3>1, <3>2, ChildrenIn, Zenon
  <2>5. RefsIn(J, words) /\ J = Found \cup {0, Len(heap) + 1}
    BY <1>2 DEF RefsIn
  <2>6. k \in Int /\ k <= Len(words) /\ IsPart(cut, words, 1, k)
    <3>1. cut = SubSeq(words, 1, k)
      BY DEF Drop
    <3> HIDE DEF cut
    <3> QED BY <1>1, <3>1 DEF IsPart
  <2>7. RefsIn(J, last)
    <3>1. new \in J
      OBVIOUS
    <3> HIDE DEF new, J
    <3> QED BY <3>1, Numbers, OneIn
  <2> HIDE DEF K, hp, k, J
  <2>8. RefsIn(J, cut)
    <3> HIDE DEF cut, J
    <3> QED BY <1>2, <2>5, <2>6, PartIn
  <2>9. IsJoin(stack', cut, last)
    <3>1. IsList(cut)
      BY <2>8 DEF RefsIn
    <3> HIDE DEF cut, new
    <3>2. Append(cut, Val(new)) = cut \o <<Val(new)>>
      <4> DEFINE S == { cut[i] : i \in DOMAIN cut } \cup {Val(new)}
                 v == Val(new)
      <4>1. cut \in Seq(S) /\ v \in S
        BY <3>1 DEF IsList
      <4> HIDE DEF S, v
      <4>2. Append(cut, v) = cut \o <<v>>
        BY <4>1, AppendIsConcat
      <4> QED BY <4>2 DEF v
    <3> QED BY <2>1, <3>2 DEF IsJoin
  <2>10. RefsIn(J, stack')
    <3> HIDE DEF cut, last, J
    <3> QED BY <2>7, <2>8, <2>9, RefsJoined
  <2>11. /\ (\A n \in DOMAIN bindings : bindings[n] \in Found)
         /\ (reg_1.tag => reg_1.n \in Found) /\ (exception_reg.tag => exception_reg.n \in Found)
    <3>1. RefsIn(Found, stack) /\ (\A n \in DOMAIN bindings : bindings[n] \in Found)
          /\ (reg_1.tag => reg_1.n \in Found) /\ (exception_reg.tag => exception_reg.n \in Found)
      BY StackFound DEF Between
    <3> QED BY <3>1
  <2>12. IsAppended(heap', heap, object)
    BY <2>1 DEF IsAppended
  <2> HIDE DEF object, cut, new, last
  <2>13. RefsIn(Found \cup {0, Len(heap) + 1}, stack')
    BY <2>5, <2>10
  <2> QED BY <1>3, <2>1, <2>4, <2>11, <2>12, <2>13, UsesMade
<1>5. CASE count = arity
  <2>1. ~(count < arity)
    BY <1>1, <1>5
  <2>2. stack' = words /\ reg_1' = Val(closure) /\ heap' = heap
    BY <1>5, <2>1 DEF Handles
  <2> QED BY <1>2, <1>3, <2>2, EnteredUses
<1>6. CASE ~(count < arity) /\ count # arity
  <2> DEFINE u == Raw(count - arity)
             v == Raw(address_of_global("APPL_CONT"))
             cut == Drop(words, arity)
             two == <<u, v>>
             mid == cut \o two
             to == Len(words)
             from == to - arity + 1
             end == SubSeq(words, from, to)
             k == to - arity
  <2>1. stack' = mid \o end /\ reg_1' = Val(closure) /\ heap' = heap
    BY <1>6 DEF Handles
  <2>2. IsJoin(mid, cut, two) /\ IsJoin(stack', mid, end) /\ IsPart(end, words, from, to) /\ IsPart(cut, words, 1, k)
    BY <2>1 DEF IsJoin, IsPart, Drop
  <2>3. from \in Int /\ from >= 1 /\ to \in Int /\ to <= Len(words) /\ k \in Int /\ k <= Len(words)
    BY <1>1, <1>6
  <2>4. RefsIn(K, two)
    <3>1. Allowed(K, u) /\ Allowed(K, v)
      BY Numbers
    <3> HIDE DEF u, v, K
    <3> QED BY <3>1, TwoIn
  <2> HIDE DEF cut, two, mid, to, from, end, k, K, hp
  <2>5. RefsIn(K, cut) /\ RefsIn(K, end)
    BY <1>2, <2>2, <2>3, PartIn
  <2>6. RefsIn(K, mid)
    BY <2>2, <2>4, <2>5, RefsJoined
  <2>7. RefsIn(K, stack')
    BY <2>2, <2>5, <2>6, RefsJoined
  <2> QED BY <1>3, <2>1, <2>7, EnteredUses DEF K
<1> QED BY <1>4, <1>5, <1>6
LEMMA ContinuationUses ==
  ASSUME Sane, Between, HANDLE_CONTINUATION
  PROVE  Uses
<1> DEFINE K == Found \cup {0}
           hp == AsHeap(K)
           partial == Obj(0).type = "application"
           held == IF partial THEN Obj(0).fields ELSE <<>>
           closure == IF partial THEN Obj(0).link ELSE Ref(0)
           arity == info(closure).arity
           count == Word(1).n + Len(held)
           words == Drop(stack, 2) \o Vals(Reverse(held))
           popped == [i \in 1..count |-> words[Len(words) - i + 1].n]
           two == 2
<1>1. op = "HANDLE_CONTINUATION" /\ FindsOperands
  BY Zenon DEF HANDLE_CONTINUATION, Op
<1>2. PoppedBy(op, arg) = 1 /\ Orderly
  BY <1>1, PopCounts DEF Between
<1>3. Ref(0) \in Found /\ Ref(0) \in DOMAIN heap /\ Children(Obj(0)) \subseteq Found
  BY <1>1, <1>2, OperandsFound
<1>4. ~IsMade(Labels[ip].mode)
  BY <1>1, ContinuationHere
<1>5. CASE Obj(0).type \notin {"closure", "application"}
  <2>1. runtime_error
    BY <1>5, Zenon DEF HANDLE_CONTINUATION
  <2> QED BY <2>1, StopUses DEF runtime_error, Stop, outside
<1>6. CASE Obj(0).type \in {"closure", "application"}
  <2>1. Handles(closure, arity, count, words, popped)
    BY <1>6, Zenon DEF HANDLE_CONTINUATION, Handles
  <2>2. PICK low, base : low \in Nat /\ Arguments(heap, stack, low, base) /\ Len(stack) = base + 1
    BY <1>1, ContinuationHere
  <2>3. arity \in Nat
    <3>1. PICK fr, m, low2, base2, blow : Running(Labels, Arities, fr, m, low2, base2, blow)
      BY <1>1, SortsHere
    <3>2. Verified(chunk, Labels, Arities)
      BY DEF Sane, VerifiedHere
    <3>3. Shaped(Obj(0), heap, chunk, Arities)
      BY <1>3, <1>4, <3>1, ObjectHere DEF Obj
    <3>4. closure \in DOMAIN heap /\ heap[closure].type \in {"closure", "thunk"}
      BY <1>3, <1>6, <3>3 DEF Shaped, Obj
    <3> QED BY <1>4, <3>1, <3>2, <3>4, InfoHere
  <2>4. closure \in K /\ held \in Seq(Nat) /\ \A i \in DOMAIN held : held[i] \in K
    <3>1. Obj(0).fields \in Seq(Nat)
      BY <1>2, <1>3, HeapOrderly DEF Obj
    <3>2. \A i \in DOMAIN Obj(0).fields : Obj(0).fields[i] \in K
      BY <1>3 DEF Children
    <3>3. Obj(0).link \in K /\ Ref(0) \in K
      BY <1>3 DEF Children
    <3> QED BY <3>1, <3>2, <3>3
  <2>5. stack \in Seq(Words) /\ RefsIn(K, stack) /\ Len(stack) \in Nat /\ DOMAIN stack = 1..Len(stack)
    BY <1>2, StackFound DEF Orderly, Typed
  <2>6. base \in Nat /\ base > low /\ Word(1) = stack[base]
    BY <2>2, <2>5 DEF Arguments, Word
  <2>7. IsReplaced(words, stack, two, Vals(Reverse(held))) /\ count = stack[base].n + Len(held) /\ two = 2
    BY <2>6 DEF IsReplaced
  <2>8. popped = [i \in 1..count |-> words[Len(words) - i + 1].n]
    OBVIOUS
  <2> HIDE DEF partial, held, closure, arity, count, words, popped, two, K
  <2>9. Within(held, hp) /\ Tagged(hp, stack) /\ DOMAIN hp = K
    BY <2>4, <2>5, AsHeapRules
  <2>10. Arguments(hp, stack, low, base)
    <3>1. ASSUME NEW j \in (low + 1)..(base - 1)
          PROVE  IsRef(hp, stack[j])
      <4>1. stack[j].tag
        BY <2>2 DEF Arguments, IsRef
      <4>2. j \in DOMAIN stack
        BY <2>2, <2>5, <2>6
      <4> QED BY <2>5, <2>9, <4>1, <4>2 DEF RefsIn, IsRef
    <3> QED BY <2>2, <3>1 DEF Arguments
  <2> HIDE DEF hp
  <2>11. Gathered(hp, stack, low, words, count)
    BY <2>2, <2>7, <2>9, <2>10, Gathers
  <2> QED BY <2>1, <2>3, <2>4, <2>8, <2>11, GatheredUses DEF K, hp
<1> QED BY <1>5, <1>6
\* Every instruction uses what it finds, and leaves the rest of the heap alone.
LEMMA StepUses ==
  ASSUME Sane, Between, Step
  PROVE  Uses
<1>1. CASE PUSH_REG_STACK \/ TRANSFER_STACK_REG \/ COPY_STACK_REG \/ SWAP \/ COPY \/ POP_U64
             \/ U64_ADD \/ PUSH_CONST \/ PUSH_BOOL
  BY <1>1, RegisterUses, PoppedUses, CutUses, SwapUses, TopUses, PushUses, Zenon
<1>2. CASE JUMP \/ JUMP_REL \/ JUMP_GLOBALS \/ JUMP_REL_CONDITIONAL
             \/ READ_BINDING \/ CREATE_BINDING \/ REMOVE_BINDINGS \/ CAPTURE_READ
  BY <1>2, JumpUses, BoundUses, PoppedUses, CutUses, Zenon
<1>3. CASE EVAL \/ UPDATE_THUNK \/ HANDLE_CONTINUATION \/ PARTIAL_APPLY
  BY <1>3, EvalUses, UpdateUses, ContinuationUses, ApplyUses, Zenon
<1>4. CASE CREATE_CLOSURE \/ CREATE_THUNK \/ WRITE_CAPTURES \/ CREATE_CONS \/ CREATE_OBJECT
  BY <1>4, ClosureUses, CapturesUse, ConsUses, ObjectUses, Zenon
<1>5. CASE READ_CONS \/ OBJECT_READ \/ IS_TYPE \/ IS_VARIANT \/ NUM_BIN_OP \/ NEGATE
             \/ COMPARISON_BIN_OP \/ EQUAL \/ NOT
  BY <1>5, ReadUses, TestUses, NumberUses, CompareUses, Zenon
<1>6. CASE TRANSFER_STACK_EXCEPTION \/ STD_STREAM \/ OPEN_FILE \/ CLOSE_FILE \/ STREAM_ERRORS
             \/ WRITE_VALUE \/ READ_LINE \/ READ_CONTENTS
  BY <1>6, PoppedUses, ExternUses, Zenon
<1>7. CASE PATTERN_MATCH_FAIL \/ END
  <2>1. UNCHANGED <<stack, bindings, reg_1, heap, exception_reg>>
    BY <1>7, Zenon DEF PATTERN_MATCH_FAIL, END, runtime_error, Stop, outside
  <2> QED BY <2>1, StopUses
<1> QED BY <1>1, <1>2, <1>3, <1>4, <1>5, <1>6, <1>7, Zenon DEF Step

(* The machine reads and writes only objects that references lead to from  *)
(* the stack, the registers, the bindings and the constants, and keeps no  *)
(* other reference: what a collection discards is never seen again.        *)
THEOREM OnlyReachableUsed == Spec /\ CodeObeys => OnlyReachable
<1>1. Sane => Orderly
  BY SaneIsOrderly
<1>2. Sane /\ Orderly /\ Orderly' /\ [Next]_vm_vars => [Uses]_vm_vars
  <2> SUFFICES ASSUME Sane, Orderly, Orderly', [Next]_vm_vars
               PROVE  [Uses]_vm_vars
    OBVIOUS
  <2>1. CASE Step
    <3>1. Between
      BY ProgramKept DEF Between
    <3> QED BY <2>1, <3>1, StepUses
  <2> QED BY <2>1 DEF Next, Stopped
<1> QED BY <1>1, <1>2, SaneAlways, PTL DEF Spec, OnlyReachable

-----------------------------------------------------------------------------
(***************************************************************************)
(* The machine is the program that HeapSpec speaks of.                     *)
(*                                                                         *)
(* The heap as HeapSpec sees it: an object is named by its number in the   *)
(* heap, a constant by the number below zero, so that the constants of no  *)
(* program are cells of another.  There are as many cells as it takes.     *)
(***************************************************************************)
Named(constants, i) == IF i \in constants THEN -i ELSE i
NamesOf(constants, refs) == { Named(constants, i) : i \in refs }
Constants == DOMAIN chunk.constants

AllCells == Nat \ {0}
AllConstants == UNION { { -i : i \in DOMAIN Programs[p].chunk.constants } : p \in DOMAIN Programs }
\* What each object refers to; a cell that holds no object refers to nothing.
EdgesOf(constants, objects) ==
  [n \in AllCells \cup AllConstants |->
     NamesOf(constants, UNION { Children(objects[i]) : i \in { k \in DOMAIN objects : Named(constants, k) = n } })]

Heap == INSTANCE HeapSpec WITH
  Cell <- AllCells, Pool <- AllConstants, running <- TRUE,
  alive <- DOMAIN heap \ Constants,
  edge <- EdgesOf(Constants, heap),
  root <- NamesOf(Constants, MarkedRoots)

\* An object has one name, and the edges of the name are its references.
LEMMA NamesApart ==
  ASSUME NEW c, NEW objects, DOMAIN objects \subseteq Nat \ {0}
  PROVE  \A i, k \in DOMAIN objects : Named(c, i) = Named(c, k) => i = k
<1>1. \A i \in DOMAIN objects : i \in Nat /\ i # 0
  OBVIOUS
<1> QED BY <1>1 DEF Named
LEMMA EdgesNamed ==
  ASSUME NEW c, NEW objects, DOMAIN objects \subseteq Nat \ {0}
  PROVE  /\ DOMAIN EdgesOf(c, objects) = AllCells \cup AllConstants
         /\ \A k \in DOMAIN objects : Named(c, k) \in AllCells \cup AllConstants =>
              EdgesOf(c, objects)[Named(c, k)] = NamesOf(c, Children(objects[k]))
         /\ \A n \in AllCells \cup AllConstants :
              (\A k \in DOMAIN objects : Named(c, k) # n) => EdgesOf(c, objects)[n] = {}
<1>1. ASSUME NEW k \in DOMAIN objects, Named(c, k) \in AllCells \cup AllConstants
      PROVE  EdgesOf(c, objects)[Named(c, k)] = NamesOf(c, Children(objects[k]))
  <2>1. { i \in DOMAIN objects : Named(c, i) = Named(c, k) } = {k}
    BY NamesApart, Zenon
  <2>2. UNION { Children(objects[i]) : i \in {k} } = Children(objects[k])
    OBVIOUS
  <2> QED BY <1>1, <2>1, <2>2 DEF EdgesOf
<1>2. ASSUME NEW n \in AllCells \cup AllConstants, \A k \in DOMAIN objects : Named(c, k) # n
      PROVE  EdgesOf(c, objects)[n] = {}
  <2>1. { i \in DOMAIN objects : Named(c, i) = n } = {}
    BY <1>2
  <2> QED BY <2>1 DEF EdgesOf, NamesOf
<1>3. DOMAIN EdgesOf(c, objects) = AllCells \cup AllConstants
  BY DEF EdgesOf
<1> QED BY <1>1, <1>2, <1>3
\* The names of the objects of a machine.
LEMMA ObjectsNamed ==
  ASSUME Sane
  PROVE  /\ DOMAIN heap \subseteq Nat \ {0} /\ Constants \subseteq DOMAIN heap
         /\ \A i \in DOMAIN heap : Named(Constants, i) \in AllCells \cup AllConstants
         /\ \A i \in Constants : Named(Constants, i) \in AllConstants
         /\ MarkedRoots \subseteq DOMAIN heap /\ Found \subseteq DOMAIN heap
<1>1. Orderly /\ program \in DOMAIN Programs
  BY SaneIsOrderly DEF Sane
<1>2. DOMAIN heap = 1..Len(heap) /\ Len(heap) \in Nat /\ Constants \subseteq DOMAIN heap
  BY <1>1, HeapOrderly DEF Constants
<1>3. DOMAIN heap \subseteq Nat \ {0}
  BY <1>2
<1>4. ASSUME NEW i \in Constants
      PROVE  Named(Constants, i) \in AllConstants
  <2>1. Named(Constants, i) = -i
    BY DEF Named
  <2>2. i \in DOMAIN Programs[program].chunk.constants
    BY DEF Constants, chunk
  <2>3. -i \in { -k : k \in DOMAIN Programs[program].chunk.constants }
    BY <2>2, Zenon
  <2> QED BY <1>1, <2>1, <2>3 DEF AllConstants
<1>5. ASSUME NEW i \in DOMAIN heap
      PROVE  Named(Constants, i) \in AllCells \cup AllConstants
  <2>1. CASE i \in Constants
    BY <1>4, <2>1
  <2>2. CASE i \notin Constants
    BY <1>3, <2>2 DEF Named, AllCells
  <2> QED BY <2>1, <2>2
<1>6. Held \subseteq DOMAIN heap /\ MarkedRoots \subseteq Held
  <2>1. /\ \A n \in DOMAIN stack : stack[n].tag => stack[n].n \in DOMAIN heap
        /\ \A n \in DOMAIN bindings : bindings[n] \in DOMAIN heap
        /\ (reg_1.tag => reg_1.n \in DOMAIN heap) /\ (exception_reg.tag => exception_reg.n \in DOMAIN heap)
    BY <1>1 DEF Orderly, Typed, IsRef
  <2>2. MarkedRoots \subseteq DOMAIN heap
    BY <2>1 DEF MarkedRoots, RefsOf
  <2> QED BY <1>2, <2>2 DEF Held, Constants
<1>7. ASSUME NEW S, S \subseteq DOMAIN heap
      PROVE  WithChildren(S) \subseteq DOMAIN heap
  <2>1. \A i \in DOMAIN heap : Children(heap[i]) \subseteq DOMAIN heap
    BY <1>1, HeapOrderly DEF Children
  <2> QED BY <1>7, <2>1 DEF WithChildren
<1>8. Found \subseteq DOMAIN heap
  <2>1. WithChildren(Held) \subseteq DOMAIN heap
    BY <1>6, <1>7
  <2>2. WithChildren(WithChildren(Held)) \subseteq DOMAIN heap
    BY <1>7, <2>1
  <2> QED BY <2>2 DEF Found
<1> QED BY <1>2, <1>3, <1>4, <1>5, <1>6, <1>8
\* What an instruction finds, the collector keeps.
LEMMA FoundLives ==
  ASSUME Sane
  PROVE  NamesOf(Constants, Found) \subseteq Heap!Live
<1> DEFINE all == AllCells \cup AllConstants
           edges == EdgesOf(Constants, heap)
           roots == NamesOf(Constants, MarkedRoots) \cup AllConstants
<1>1. /\ DOMAIN heap \subseteq Nat \ {0} /\ MarkedRoots \subseteq DOMAIN heap /\ Found \subseteq DOMAIN heap
      /\ \A i \in DOMAIN heap : Named(Constants, i) \in all
      /\ \A i \in Constants : Named(Constants, i) \in AllConstants
  BY ObjectsNamed
<1>2. DOMAIN edges = all
      /\ \A k \in DOMAIN heap : edges[Named(Constants, k)] = NamesOf(Constants, Children(heap[k]))
  BY <1>1, EdgesNamed
<1>3. ASSUME NEW C \in SUBSET all, roots \subseteq C, Heap!Closed(edges, C)
      PROVE  NamesOf(Constants, Found) \subseteq C
  <2> DEFINE Covers(S) == S \subseteq DOMAIN heap /\ \A i \in S : Named(Constants, i) \in C
  <2>1. ASSUME NEW S, Covers(S), WithChildren(S) \subseteq DOMAIN heap
        PROVE  Covers(WithChildren(S))
    <3>1. ASSUME NEW i \in S, NEW k \in Children(heap[i])
          PROVE  Named(Constants, k) \in C
      <4>1. Named(Constants, i) \in C /\ i \in DOMAIN heap
        BY <2>1
      <4>2. edges[Named(Constants, i)] \subseteq C
        BY <1>3, <4>1 DEF Heap!Closed
      <4>3. Named(Constants, k) \in NamesOf(Constants, Children(heap[i]))
        BY DEF NamesOf
      <4> QED BY <1>2, <4>1, <4>2, <4>3
    <3> QED BY <2>1, <3>1 DEF WithChildren
  <2>2. Covers(Held)
    <3>1. Held = MarkedRoots \cup Constants
      BY DEF Held, Constants
    <3>2. \A i \in MarkedRoots : Named(Constants, i) \in roots
      BY DEF NamesOf
    <3>3. Constants \subseteq DOMAIN heap
      BY ObjectsNamed
    <3> QED BY <1>1, <1>3, <3>1, <3>2, <3>3
  <2>3. Near \subseteq DOMAIN heap
    BY <1>1, FoundRules
  <2> HIDE DEF Covers
  <2>4. Covers(Near)
    BY <2>1, <2>2, <2>3 DEF Near
  <2>5. Covers(Found)
    BY <1>1, <2>1, <2>4 DEF Found, Near
  <2> QED BY <2>5 DEF Covers, NamesOf
<1>4. NamesOf(Constants, Found) \subseteq all
  BY <1>1 DEF NamesOf
<1>5. \A n \in NamesOf(Constants, Found) : n \in Heap!Reach(edges, roots)
  <2> HIDE DEF edges, roots, all
  <2> QED BY <1>2, <1>3, <1>4 DEF Heap!Reach
<1> QED BY <1>5 DEF Heap!Live

\* What an instruction may write to a name and read behind it.
LEMMA NamesMoved ==
  ASSUME NEW c, NEW refs, NEW found, NEW made, refs \subseteq found \cup made
  PROVE  NamesOf(c, refs) \subseteq NamesOf(c, found) \cup NamesOf(c, made)
BY DEF NamesOf

\* Nothing is made.
LEMMA Mutates ==
  ASSUME Sane, Uses, program' = program, Made = {}
  PROVE  Heap!Mutate
<1> DEFINE all == AllCells \cup AllConstants
           c == Constants
           before == EdgesOf(c, heap)
           after == EdgesOf(c, heap')
<1>1. Constants' = c
  BY DEF Constants, chunk
<1>2. DOMAIN heap' = DOMAIN heap
  BY DEF Uses, Made
<1>3. /\ DOMAIN heap \subseteq Nat \ {0} /\ Found \subseteq DOMAIN heap
      /\ \A i \in DOMAIN heap : Named(c, i) \in all
  BY ObjectsNamed
<1>4. NamesOf(c, Found) \subseteq Heap!Live
  BY FoundLives
<1>5. NamesOf(c, MarkedRoots') \subseteq Heap!Live
  <2>1. MarkedRoots' \subseteq Found
    BY DEF Uses, Made, Held
  <2> QED BY <1>4, <2>1 DEF NamesOf
<1>6. /\ DOMAIN before = all /\ DOMAIN after = all
      /\ \A k \in DOMAIN heap : before[Named(c, k)] = NamesOf(c, Children(heap[k]))
                                /\ after[Named(c, k)] = NamesOf(c, Children(heap'[k]))
      /\ \A n \in all : (\A k \in DOMAIN heap : Named(c, k) # n) => before[n] = {} /\ after[n] = {}
  <2>1. /\ DOMAIN before = all
        /\ \A k \in DOMAIN heap : Named(c, k) \in all => before[Named(c, k)] = NamesOf(c, Children(heap[k]))
        /\ \A n \in all : (\A k \in DOMAIN heap : Named(c, k) # n) => before[n] = {}
    <3> HIDE DEF c
    <3> QED BY <1>3, EdgesNamed
  <2>2. /\ DOMAIN after = all
        /\ \A k \in DOMAIN heap' : Named(c, k) \in all => after[Named(c, k)] = NamesOf(c, Children(heap'[k]))
        /\ \A n \in all : (\A k \in DOMAIN heap' : Named(c, k) # n) => after[n] = {}
    <3>1. DOMAIN heap' \subseteq Nat \ {0}
      BY <1>2, <1>3
    <3> HIDE DEF c
    <3> QED BY <3>1, EdgesNamed
  <2> HIDE DEF c, before, after, all
  <2> QED BY <1>2, <1>3, <2>1, <2>2
<1> HIDE DEF c, before, after, all
<1>7. ASSUME NEW n \in all, after[n] # before[n]
      PROVE  n \in Heap!Live /\ after[n] \subseteq Heap!Live
  <2>1. PICK k \in DOMAIN heap : Named(c, k) = n
    BY <1>6, <1>7
  <2>2. heap'[k] # heap[k]
    BY <1>6, <1>7, <2>1
  <2>3. k \in Found /\ Children(heap'[k]) \subseteq Found
    BY <2>2 DEF Uses
  <2>4. n \in NamesOf(c, Found) /\ after[n] \subseteq NamesOf(c, Found)
    BY <1>6, <2>1, <2>3 DEF NamesOf
  <2> QED BY <1>4, <2>4
<1>8. UNCHANGED <<DOMAIN heap \ Constants, TRUE>>
  BY <1>1, <1>2 DEF c
<1> QED BY <1>1, <1>5, <1>6, <1>7, <1>8 DEF Heap!Mutate, Heap!Node, c, before, after, all
\* An object is made.
LEMMA Allocates ==
  ASSUME Sane, DOMAIN heap' \subseteq Nat \ {0}, Uses, program' = program, NEW m, Made = {m}
  PROVE  Heap!Allocate
<1> DEFINE all == AllCells \cup AllConstants
           c == Constants
           before == EdgesOf(c, heap)
           after == EdgesOf(c, heap')
<1>1. Constants' = c
  BY DEF Constants, chunk
<1>2. /\ DOMAIN heap' = DOMAIN heap \cup {m} /\ m \notin DOMAIN heap
      /\ \A j \in DOMAIN heap : heap'[j] = heap[j]
      /\ Children(heap'[m]) \subseteq Found
  BY DEF Uses, Made
<1>3. /\ DOMAIN heap \subseteq Nat \ {0} /\ Found \subseteq DOMAIN heap /\ c \subseteq DOMAIN heap
      /\ \A i \in DOMAIN heap : Named(c, i) \in all
  BY ObjectsNamed
<1>4. DOMAIN heap' \subseteq Nat \ {0}
  OBVIOUS
<1>5. m \in AllCells /\ m \notin c /\ Named(c, m) = m
  <2> HIDE DEF c
  <2> QED BY <1>2, <1>3, <1>4 DEF AllCells, Named
<1>6. NamesOf(c, Found) \subseteq Heap!Live
  BY FoundLives
<1>7. NamesOf(c, MarkedRoots') \subseteq Heap!Live \cup {m}
  <2>1. MarkedRoots' \subseteq Found \cup {m}
    BY DEF Uses, Made, Held
  <2> HIDE DEF c
  <2> QED BY <1>5, <1>6, <2>1 DEF NamesOf
<1>8. /\ DOMAIN before = all
      /\ \A k \in DOMAIN heap : Named(c, k) \in all => before[Named(c, k)] = NamesOf(c, Children(heap[k]))
      /\ \A n \in all : (\A k \in DOMAIN heap : Named(c, k) # n) => before[n] = {}
  <2> HIDE DEF c
  <2> QED BY <1>3, EdgesNamed
<1>9. /\ DOMAIN after = all
      /\ \A k \in DOMAIN heap' : Named(c, k) \in all => after[Named(c, k)] = NamesOf(c, Children(heap'[k]))
      /\ \A n \in all : (\A k \in DOMAIN heap' : Named(c, k) # n) => after[n] = {}
  <2> HIDE DEF c
  <2> QED BY <1>4, EdgesNamed
<1>10. m \in all
  BY <1>5
<1>11. after = [n \in all |-> after[n]] /\ before = [n \in all |-> before[n]]
  BY DEF EdgesOf
<1> HIDE DEF c, before, after, all
<1>12. after[m] \subseteq Heap!Live
  <2>1. after[m] = NamesOf(c, Children(heap'[m]))
    BY <1>2, <1>5, <1>9, <1>10
  <2>2. NamesOf(c, Children(heap'[m])) \subseteq NamesOf(c, Found)
    BY <1>2 DEF NamesOf
  <2> QED BY <1>6, <2>1, <2>2
<1>13. ASSUME NEW n \in all, n # m
       PROVE  after[n] = before[n]
  <2>1. CASE \E k \in DOMAIN heap : Named(c, k) = n
    BY <1>2, <1>8, <1>9, <2>1
  <2>2. CASE \A k \in DOMAIN heap : Named(c, k) # n
    BY <1>2, <1>5, <1>8, <1>9, <1>13, <2>2
  <2> QED BY <2>1, <2>2
<1>14. after = [before EXCEPT ![m] = after[m]]
  BY <1>8, <1>10, <1>11, <1>13
<1>15. /\ m \in AllCells \ (DOMAIN heap \ c)
       /\ DOMAIN heap' \ Constants' = (DOMAIN heap \ c) \cup {m}
  BY <1>1, <1>2, <1>5
<1> QED BY <1>1, <1>7, <1>12, <1>14, <1>15 DEF Heap!Allocate, c, before, after

\* The beginning: the exception register holds the unit, and no constant refers to anything.
LEMMA HeapAtFirst ==
  ASSUME Sane, Init
  PROVE  Heap!Init
<1> DEFINE all == AllCells \cup AllConstants
           c == Constants
           edges == EdgesOf(c, heap)
<1>1. DOMAIN heap = c /\ \A i \in DOMAIN heap : heap[i].fields = <<>> /\ heap[i].link = 0
  BY DEF Init, run_vm, Constants, Object
<1>2. MarkedRoots \subseteq c
  <2>1. stack = <<>> /\ bindings = <<>> /\ ~reg_1.tag /\ exception_reg.n = UNIT_BOX
    BY DEF Init, run_vm, Raw, Val
  <2>2. UNIT_BOX \in c
    BY SaneIsOrderly, HeapOrderly DEF Constants
  <2> HIDE DEF c
  <2> QED BY <2>1, <2>2 DEF MarkedRoots, RefsOf
<1>3. DOMAIN heap \subseteq Nat \ {0} /\ \A i \in c : Named(c, i) \in AllConstants
  BY ObjectsNamed
<1>4. NamesOf(c, MarkedRoots) \in SUBSET AllConstants
  <2> HIDE DEF c
  <2> QED BY <1>2, <1>3 DEF NamesOf
<1>5. \A i \in DOMAIN heap : Children(heap[i]) = {}
  BY <1>1 DEF Children
<1>6. edges = [n \in all |-> {}]
  <2>1. \A n \in all : UNION { Children(heap[i]) : i \in { k \in DOMAIN heap : Named(c, k) = n } } = {}
    BY <1>5
  <2>2. \A n \in all : edges[n] = {}
    BY <2>1 DEF EdgesOf, NamesOf
  <2>3. edges = [n \in all |-> edges[n]]
    BY DEF EdgesOf
  <2> HIDE DEF edges, all
  <2> QED BY <2>2, <2>3
<1>7. DOMAIN heap \ Constants = {}
  BY <1>1
<1> QED BY <1>4, <1>6, <1>7 DEF Heap!Init, Heap!Node

(* What the machine does with its objects is what HeapSpec lets a program  *)
(* do with them, for which the collector keeps its promise: a step moves   *)
(* references it can reach and writes to one object, or makes one.         *)
THEOREM MachineIsMutator == Spec /\ CodeObeys => Heap!Spec
<1>1. Sane /\ Init => Heap!Init
  BY HeapAtFirst
<1>2. Sane => Orderly
  BY SaneIsOrderly
<1>3. Orderly => DOMAIN heap \subseteq Nat \ {0}
  BY HeapOrderly
<1>4. Sane /\ Orderly /\ Orderly' /\ (DOMAIN heap \subseteq Nat \ {0})' /\ [Next]_vm_vars => [Heap!Next]_(Heap!heapVars)
  <2> SUFFICES ASSUME Sane, Orderly, Orderly', (DOMAIN heap \subseteq Nat \ {0})', [Next]_vm_vars
               PROVE  [Heap!Next]_(Heap!heapVars)
    OBVIOUS
  <2>1. CASE Step
    <3>1. program' = program
      BY ProgramKept
    <3>2. Uses
      BY <2>1, <3>1, StepUses DEF Between
    <3>3. CASE Made = {}
      BY <3>1, <3>2, <3>3, Mutates DEF Heap!Next
    <3>4. CASE Made # {}
      <4>1. PICK m : Made = {m}
        BY <3>2, <3>4 DEF Uses, Made
      <4>2. DOMAIN heap' \subseteq Nat \ {0}
        OBVIOUS
      <4> QED BY <3>1, <3>2, <4>1, <4>2, Allocates DEF Heap!Next
    <3> QED BY <3>3, <3>4
  <2>2. CASE UNCHANGED vm_vars
    BY <2>2 DEF vm_vars, outside, Heap!heapVars, Constants, MarkedRoots, chunk
  <2> QED BY <2>1, <2>2 DEF Next, Stopped
<1> QED BY <1>1, <1>2, <1>3, <1>4, SaneAlways, PTL DEF Spec, Heap!Spec

(* However long it runs, a constant has no captures, and is referred to    *)
(* nothing unless it is a static thunk: the values of static thunks are    *)
(* the only references of the constant pool, as mark_roots takes for given. *)
THEOREM OnlyStaticThunksRefer == Spec /\ CodeObeys => []ConstantsBare
<1>1. Init => ConstantsBare
  BY DEF Init, run_vm, ConstantsBare, Object
<1>2. Orderly => DOMAIN chunk.constants \subseteq DOMAIN heap
  BY HeapOrderly
<1>3. Orderly /\ ConstantsBare /\ [Next]_vm_vars /\ [Uses]_vm_vars => ConstantsBare'
  <2> SUFFICES ASSUME Orderly, ConstantsBare, [Next]_vm_vars, [Uses]_vm_vars
               PROVE  ConstantsBare'
    OBVIOUS
  <2>1. chunk' = chunk
    BY ProgramKept DEF chunk
  <2>2. CASE UNCHANGED vm_vars
    BY <2>1, <2>2 DEF vm_vars, ConstantsBare
  <2>3. CASE Uses
    <3> SUFFICES ASSUME NEW i \in DOMAIN chunk.constants
                 PROVE  heap'[i].fields = <<>> /\ (heap'[i].link # 0 => heap'[i].type = "thunk")
      BY <2>1 DEF ConstantsBare
    <3>1. heap[i].fields = <<>> /\ (heap[i].link # 0 => heap[i].type = "thunk") /\ i \in DOMAIN heap
      BY <1>2 DEF ConstantsBare
    <3> QED BY <2>3, <3>1 DEF Uses, IsRewritten
  <2> QED BY <2>2, <2>3
<1>4. Sane => Orderly
  BY SaneIsOrderly
<1> QED BY <1>1, <1>3, <1>4, OnlyReachableUsed, SaneAlways, PTL DEF Spec, OnlyReachable
=============================================================================
