-------------------------- MODULE MarkSweepProofs --------------------------
(***************************************************************************)
(* Proofs about the collector, for any heap, any constant pool and any     *)
(* bounds: that it keeps what the program can reach, and only that.        *)
(***************************************************************************)
EXTENDS MarkSweep, SequenceTheorems, TLAPS

-----------------------------------------------------------------------------
(***************************************************************************)
(* Reachability.                                                           *)
(***************************************************************************)
LEMMA ReachContainsRoots ==
  ASSUME NEW edge, NEW roots, roots \subseteq DOMAIN edge
  PROVE  roots \subseteq Reach(edge, roots)
BY DEF Reach

LEMMA ReachClosed ==
  ASSUME NEW edge, NEW roots,
         \A n \in DOMAIN edge : edge[n] \subseteq DOMAIN edge
  PROVE  Closed(edge, Reach(edge, roots))
BY DEF Reach, Closed

\* A closed set that holds the roots holds everything reachable.
LEMMA ReachLeast ==
  ASSUME NEW edge, NEW roots, NEW C, C \subseteq DOMAIN edge,
         roots \subseteq C, Closed(edge, C)
  PROVE  Reach(edge, roots) \subseteq C
BY DEF Reach

\* Edges outside a closed set that holds the roots do not matter.
LEMMA ReachRestrict ==
  ASSUME NEW e, NEW f, NEW roots, NEW K, DOMAIN e = DOMAIN f,
         K \subseteq DOMAIN e, roots \subseteq K, Closed(e, K),
         \A n \in K : f[n] = e[n]
  PROVE  Reach(f, roots) = Reach(e, roots)
<1>1. Closed(f, K)
  BY DEF Closed
<1>2. ASSUME NEW n \in Reach(e, roots)
      PROVE  n \in Reach(f, roots)
  <2>1. SUFFICES ASSUME NEW C \in SUBSET DOMAIN f, roots \subseteq C, Closed(f, C)
                 PROVE  n \in C
    BY <1>2 DEF Reach
  <2>2. C \cap K \in SUBSET DOMAIN e /\ roots \subseteq C \cap K /\ Closed(e, C \cap K)
    BY <2>1 DEF Closed
  <2>. QED
    BY <1>2, <2>2 DEF Reach
<1>3. ASSUME NEW n \in Reach(f, roots)
      PROVE  n \in Reach(e, roots)
  <2>1. SUFFICES ASSUME NEW C \in SUBSET DOMAIN e, roots \subseteq C, Closed(e, C)
                 PROVE  n \in C
    BY <1>3 DEF Reach
  <2>2. C \cap K \in SUBSET DOMAIN f /\ roots \subseteq C \cap K /\ Closed(f, C \cap K)
    BY <2>1 DEF Closed
  <2>. QED
    BY <1>3, <2>2 DEF Reach
<1>. QED
  BY <1>2, <1>3

-----------------------------------------------------------------------------
(***************************************************************************)
(* What the operators on stacks and lists return.                          *)
(***************************************************************************)
LEMMA PopType ==
  ASSUME NEW S, NEW s \in Seq(S), NEW n \in 0..Len(s)
  PROVE  /\ PopN(s, n) \in Seq(S)
         /\ Len(PopN(s, n)) = Len(s) - n
         /\ \A i \in 1..(Len(s) - n) : PopN(s, n)[i] = s[i]
         /\ Elements(PopN(s, n)) \subseteq Elements(s)
BY DEF PopN, Elements

LEMMA PoppedType ==
  ASSUME NEW S, NEW s \in Seq(S), NEW n \in 0..Len(s)
  PROVE  /\ PoppedArgs(s, n) \in Seq(S)
         /\ PoppedCaptures(s, n) \in Seq(S)
         /\ Elements(PoppedArgs(s, n)) \subseteq Elements(s)
         /\ Elements(PoppedCaptures(s, n)) \subseteq Elements(s)
         /\ Len(PoppedCaptures(s, n)) = n
BY DEF PoppedArgs, PoppedCaptures, Elements

LEMMA PushType ==
  ASSUME NEW S, NEW s \in Seq(S), NEW e \in S
  PROVE  /\ Append(s, e) \in Seq(S)
         /\ Elements(Append(s, e)) = Elements(s) \cup {e}
<1>1. /\ Append(s, e) \in Seq(S)
      /\ Len(Append(s, e)) = Len(s) + 1
      /\ \A i \in 1..Len(s) : Append(s, e)[i] = s[i]
      /\ Append(s, e)[Len(s) + 1] = e
  BY AppendProperties
<1>2. DOMAIN s = 1..Len(s) /\ DOMAIN Append(s, e) = 1..(Len(s) + 1)
  BY <1>1
<1>3. ASSUME NEW x \in Elements(Append(s, e))
      PROVE  x \in Elements(s) \cup {e}
  BY <1>1, <1>2, <1>3 DEF Elements
<1>4. ASSUME NEW x \in Elements(s) \cup {e}
      PROVE  x \in Elements(Append(s, e))
  BY <1>1, <1>2, <1>4 DEF Elements
<1>. QED
  BY <1>1, <1>3, <1>4

LEMMA ConcatType ==
  ASSUME NEW S, NEW s \in Seq(S), NEW t \in Seq(S)
  PROVE  /\ s \o t \in Seq(S)
         /\ Len(s \o t) = Len(s) + Len(t)
         /\ Elements(s \o t) = Elements(s) \cup Elements(t)
<1>1. /\ s \o t \in Seq(S)
      /\ Len(s \o t) = Len(s) + Len(t)
      /\ \A i \in 1..Len(s) : (s \o t)[i] = s[i]
      /\ \A i \in 1..Len(t) : (s \o t)[Len(s) + i] = t[i]
  BY ConcatProperties
<1>2. /\ DOMAIN s = 1..Len(s) /\ DOMAIN t = 1..Len(t)
      /\ DOMAIN (s \o t) = 1..(Len(s) + Len(t))
  BY <1>1
<1>3. ASSUME NEW i \in DOMAIN (s \o t)
      PROVE  (s \o t)[i] \in Elements(s) \cup Elements(t)
  <2>1. CASE i <= Len(s)
    BY <1>1, <1>2, <2>1 DEF Elements
  <2>2. CASE i > Len(s)
    <3>1. i - Len(s) \in 1..Len(t) /\ i = Len(s) + (i - Len(s))
      BY <1>2, <2>2
    <3>. QED
      BY <1>1, <1>2, <3>1 DEF Elements
  <2>. QED
    BY <1>2, <2>1, <2>2
<1>4. Elements(s) \subseteq Elements(s \o t)
  BY <1>1, <1>2 DEF Elements
<1>5. ASSUME NEW j \in DOMAIN t
      PROVE  t[j] \in Elements(s \o t)
  <2>1. Len(s) + j \in DOMAIN (s \o t) /\ t[j] = (s \o t)[Len(s) + j]
    BY <1>1, <1>2
  <2>. QED
    BY <2>1 DEF Elements
<1>. QED
  BY <1>1, <1>3, <1>4, <1>5 DEF Elements

-----------------------------------------------------------------------------
(***************************************************************************)
(* Type correctness, one lemma per group of instructions.                  *)
(***************************************************************************)
LEMMA HeapType ==
  ASSUME TypeOK, NEW r \in Ref
  PROVE  /\ heap[r] \in Object
         /\ heap[r].fields \in Seq(Maybe)
         /\ heap[r].link \in Maybe
         /\ heap[r].type \in Type
         /\ heap[r].type = "application" =>
              heap[r].fields \in Seq(Ref) /\ heap[r].link \in Ref
<1>1. heap[r] \in Object
  BY DEF TypeOK
<1>2. CASE heap[r] \in [type : Type \ {"application"}, fields : Seq(Maybe), link : Maybe]
  BY <1>1, <1>2
<1>3. CASE heap[r] \in [type : {"application"}, fields : Seq(Ref), link : Ref]
  <2>1. heap[r].fields \in Seq(Maybe)
    BY <1>3 DEF Maybe
  <2>. QED
    BY <1>1, <1>3, <2>1 DEF Maybe, Type
<1>. QED
  BY <1>1, <1>2, <1>3 DEF Object

LEMMA MoveType ==
  ASSUME TypeOK, MoveReference
  PROVE  TypeOK'
<1>1. CASE \E r \in Pool : push_const(r)
  BY <1>1, PushType DEF TypeOK, push_const, Instruction, try_gc, Ref
<1>2. CASE push_reg_stack
  BY <1>2, PushType DEF TypeOK, push_reg_stack, Instruction, try_gc, Maybe
<1>3. CASE transfer_stack_reg
  BY <1>3, PopType DEF TypeOK, transfer_stack_reg, Instruction, try_gc, Maybe, Top
<1>4. CASE pop_u64
  BY <1>4, PopType DEF TypeOK, pop_u64, Instruction, try_gc
<1>5. CASE create_binding
  BY <1>5, PopType, PushType DEF TypeOK, create_binding, Instruction, try_gc, Top
<1>6. CASE read_binding
  BY <1>6, PushType DEF TypeOK, read_binding, Instruction, try_gc
<1>7. CASE remove_bindings
  BY <1>7, PopType DEF TypeOK, remove_bindings, Instruction, try_gc
<1>8. CASE read_field
  <2>1. Top(stack) \in Ref /\ PopN(stack, 1) \in Seq(Ref)
    BY <1>8, PopType DEF TypeOK, read_field, Top
  <2>. QED
    BY <1>8, <2>1, HeapType, PushType DEF TypeOK, read_field, Instruction, try_gc, Maybe
<1>9. CASE eval_thunk
  <2>1. Top(stack) \in Ref /\ PopN(stack, 1) \in Seq(Ref)
    BY <1>9, PopType DEF TypeOK, eval_thunk, Top
  <2>2. heap[Top(stack)].link # Null =>
          Append(PopN(stack, 1), heap[Top(stack)].link) \in Seq(Ref)
    BY <2>1, HeapType, PushType DEF Maybe
  <2>3. stack' \in Seq(Ref) /\ reg_1' \in Maybe
    BY <1>9, <2>1, <2>2 DEF TypeOK, eval_thunk, Maybe
  <2>. QED
    BY <1>9, <2>3 DEF TypeOK, eval_thunk, Instruction, try_gc
<1>10. CASE eval_application
  <2>1. Top(stack) \in Ref /\ PopN(stack, 1) \in Seq(Ref)
    BY <1>10, PopType DEF TypeOK, eval_application, Top
  <2>2. heap[Top(stack)].fields \in Seq(Ref) /\ heap[Top(stack)].link \in Ref
    BY <1>10, <2>1, HeapType DEF eval_application
  <2>3. PoppedArgs(heap[Top(stack)].fields, Len(heap[Top(stack)].fields)) \in Seq(Ref)
    BY <2>2, PoppedType
  <2>4. stack' \in Seq(Ref) /\ reg_1' \in Maybe
    BY <1>10, <2>1, <2>2, <2>3, ConcatType DEF eval_application, Maybe
  <2>. QED
    BY <1>10, <2>4 DEF TypeOK, eval_application, Instruction, try_gc
<1>. QED
  BY <1>1, <1>2, <1>3, <1>4, <1>5, <1>6, <1>7, <1>8, <1>9, <1>10 DEF MoveReference

LEMMA AllocType ==
  ASSUME TypeOK, NEW c \in Cell, NEW o \in Object, alloc_obj(c, o),
         stack' \in Seq(Ref), UNCHANGED <<bindings, reg_1, exception_reg>>
  PROVE  TypeOK'
<1>1. c \in Ref /\ <<c>> \in Seq(Cell)
  BY DEF Ref
<1>2. /\ most_recent_alloc' \in Seq(Cell)
      /\ Len(most_recent_alloc') = Len(most_recent_alloc) + 1
  BY <1>1, ConcatType DEF TypeOK, alloc_obj
<1>. QED
  BY <1>1, <1>2 DEF TypeOK, alloc_obj, try_gc

LEMMA CreateType ==
  ASSUME TypeOK, CreateObject
  PROVE  TypeOK'
<1>1. PICK c \in Cell : create_box(c) \/ create_cons(c) \/ create_object(c)
                          \/ create_dyn(c) \/ partial_apply(c)
  BY DEF CreateObject
<1>2. /\ c \in Ref
      /\ Seq(Ref) \subseteq Seq(Maybe)
      /\ <<>> \in Seq(Maybe)
      /\ Null \in Maybe
  BY DEF Ref, Maybe
<1>3. ASSUME NEW n \in 0..Len(stack)
      PROVE  Append(PopN(stack, n), c) \in Seq(Ref)
  BY <1>2, PopType, PushType DEF TypeOK
<1>4. CASE create_box(c)
  <2>1. stack' \in Seq(Ref)
    BY <1>3, <1>4 DEF create_box, TypeOK
  <2>2. Leaf \in Object
    BY <1>2 DEF Leaf, Object, Type
  <2>. QED
    BY <1>4, <2>1, <2>2, AllocType DEF create_box
<1>5. CASE create_cons(c)
  <2>1. stack' \in Seq(Ref)
    BY <1>3, <1>5 DEF create_cons, TypeOK
  <2>2. PoppedArgs(stack, 2) \in Seq(Ref)
    BY <1>5, PoppedType DEF create_cons, TypeOK
  <2>3. [type |-> "data", fields |-> PoppedArgs(stack, 2), link |-> Null] \in Object
    BY <1>2, <2>2 DEF Object, Type
  <2>. QED
    BY <1>5, <2>1, <2>3, AllocType DEF create_cons
<1>6. CASE create_object(c)
  <2>1. stack' \in Seq(Ref)
    BY <1>2, <1>6, PushType DEF create_object, TypeOK
  <2>2. PICK n \in 0..Len(bindings) :
          alloc_obj(c, [type |-> "data", fields |-> PoppedCaptures(bindings, n), link |-> Null])
    BY <1>6 DEF create_object
  <2>3. PoppedCaptures(bindings, n) \in Seq(Ref)
    BY PoppedType DEF TypeOK
  <2>4. [type |-> "data", fields |-> PoppedCaptures(bindings, n), link |-> Null] \in Object
    BY <1>2, <2>3 DEF Object, Type
  <2>. QED
    BY <1>6, <2>1, <2>2, <2>4, AllocType DEF create_object
<1>7. CASE create_dyn(c)
  <2>1. stack' \in Seq(Ref)
    BY <1>2, <1>7, PushType DEF create_dyn, TypeOK
  <2>2. PICK type \in {"closure", "thunk"}, n \in 0..MaxFields :
          alloc_obj(c, [type |-> type, fields |-> [i \in 1..n |-> Null], link |-> Null])
    BY <1>7 DEF create_dyn
  <2>3. [i \in 1..n |-> Null] \in Seq(Maybe)
    BY <1>2, BoundAssumption
  <2>4. [type |-> type, fields |-> [i \in 1..n |-> Null], link |-> Null] \in Object
    BY <1>2, <2>3 DEF Object, Type
  <2>. QED
    BY <1>7, <2>1, <2>2, <2>4, AllocType DEF create_dyn
<1>8. CASE partial_apply(c)
  <2> DEFINE f == heap[Top(stack)]
             extra == IF f.type = "application" THEN f.fields ELSE <<>>
             link == IF f.type = "application" THEN f.link ELSE Top(stack)
  <2>1. /\ Top(stack) \in Ref
        /\ PopN(stack, 1) \in Seq(Ref)
        /\ Len(PopN(stack, 1)) = Len(stack) - 1
    BY <1>8, PopType DEF partial_apply, TypeOK, Top
  <2>2. extra \in Seq(Ref) /\ link \in Ref
    BY <2>1, HeapType
  <2>3. PICK n \in 0..(Len(stack) - 1) :
          /\ alloc_obj(c, [type |-> "application",
                           fields |-> extra \o PoppedArgs(PopN(stack, 1), n),
                           link |-> link])
          /\ stack' = Append(PopN(stack, n + 1), c)
    BY <1>8 DEF partial_apply
  <2>4. PoppedArgs(PopN(stack, 1), n) \in Seq(Ref)
    BY <2>1, PoppedType
  <2>5. extra \o PoppedArgs(PopN(stack, 1), n) \in Seq(Ref)
    BY <2>2, <2>4, ConcatType
  <2>6. [type |-> "application", fields |-> extra \o PoppedArgs(PopN(stack, 1), n),
         link |-> link] \in Object
    BY <2>2, <2>5 DEF Object
  <2>7. stack' \in Seq(Ref)
    <3>1. n + 1 \in 0..Len(stack)
      BY DEF TypeOK
    <3>. QED
      BY <1>3, <2>3, <3>1
  <2>. QED
    BY <1>8, <2>3, <2>6, <2>7, AllocType DEF partial_apply
<1>. QED
  BY <1>1, <1>4, <1>5, <1>6, <1>7, <1>8

LEMMA WriteType ==
  ASSUME TypeOK, WriteObject
  PROVE  TypeOK'
<1>1. CASE write_dyn
  <2> DEFINE obj == Top(stack)
             n == Len(heap[obj].fields)
             captures == PoppedCaptures(PopN(stack, 1), n)
  <2>1. /\ obj \in Ref
        /\ PopN(stack, 1) \in Seq(Ref)
        /\ Len(PopN(stack, 1)) = Len(stack) - 1
    <3>1. stack \in Seq(Ref) /\ stack # <<>>
      BY <1>1 DEF write_dyn, TypeOK
    <3>2. Len(stack) \in Nat \ {0} /\ 1 \in 0..Len(stack)
      BY <3>1
    <3>. QED
      BY <3>1, <3>2, PopType DEF Top
  <2>2. /\ heap[obj] \in [type : Type \ {"application"}, fields : Seq(Maybe), link : Maybe]
        /\ n \in 0..(Len(stack) - 1)
    <3>1. heap[obj] \in [type : Type \ {"application"}, fields : Seq(Maybe), link : Maybe]
      BY <1>1, <2>1, HeapType DEF write_dyn, Object
    <3>2. n \in Nat /\ Len(stack) \in Nat /\ Len(stack) > n
      BY <1>1, <3>1 DEF write_dyn, TypeOK
    <3>. QED
      BY <3>1, <3>2
  <2>3. captures \in Seq(Maybe)
    <3>1. captures \in Seq(Ref)
      BY <2>1, <2>2, PoppedType
    <3>. QED
      BY <3>1 DEF Maybe
  <2>4. [heap[obj] EXCEPT !.fields = captures] \in Object
    BY <2>2, <2>3 DEF Object
  <2>5. heap' \in [Ref -> Object]
    BY <1>1, <2>1, <2>4 DEF write_dyn, TypeOK
  <2>6. stack' \in Seq(Ref)
    <3>1. n + 1 \in 0..Len(stack)
      BY <2>2 DEF TypeOK
    <3>. QED
      BY <1>1, <2>1, <3>1, PopType, PushType DEF write_dyn, TypeOK
  <2>. QED
    BY <1>1, <2>5, <2>6 DEF write_dyn, TypeOK, Instruction, try_gc
<1>2. CASE update_thunk
  <2> DEFINE evaluated == Top(stack)
             thunk == stack[Len(stack) - 1]
  <2>1. evaluated \in Ref /\ thunk \in Ref
    BY <1>2 DEF update_thunk, TypeOK, Top
  <2>2. heap[thunk] \in [type : Type \ {"application"}, fields : Seq(Maybe), link : Maybe]
    BY <1>2, <2>1, HeapType DEF update_thunk, Object
  <2>3. [heap[thunk] EXCEPT !.link = evaluated] \in Object
    BY <2>1, <2>2 DEF Object, Maybe
  <2>4. heap' \in [Ref -> Object]
    BY <1>2, <2>1, <2>3 DEF update_thunk, TypeOK
  <2>5. stack' \in Seq(Ref)
    BY <1>2, <2>1, PopType, PushType DEF update_thunk, TypeOK
  <2>. QED
    BY <1>2, <2>4, <2>5 DEF update_thunk, TypeOK, Instruction, try_gc
<1>. QED
  BY <1>1, <1>2 DEF WriteObject

LEMMA UnlinkType ==
  ASSUME NEW S, NEW s \in Seq(S), NEW i \in 1..Len(s)
  PROVE  /\ Unlink(s, i) \in Seq(S)
         /\ Len(Unlink(s, i)) = Len(s) - 1
         /\ Elements(Unlink(s, i)) = { s[j] : j \in DOMAIN s \ {i} }
<1>1. Len(s) - 1 \in Nat /\ DOMAIN s = 1..Len(s)
  OBVIOUS
<1>2. /\ DOMAIN Unlink(s, i) = 1..(Len(s) - 1)
      /\ \A j \in 1..(Len(s) - 1) : Unlink(s, i)[j] = IF j < i THEN s[j] ELSE s[j + 1]
  BY DEF Unlink
<1>3. Unlink(s, i) \in Seq(S) /\ Len(Unlink(s, i)) = Len(s) - 1
  BY <1>1 DEF Unlink
<1>4. ASSUME NEW x \in Elements(Unlink(s, i))
      PROVE  x \in { s[j] : j \in DOMAIN s \ {i} }
  BY <1>1, <1>2, <1>4 DEF Elements
<1>5. ASSUME NEW j \in DOMAIN s \ {i}
      PROVE  s[j] \in Elements(Unlink(s, i))
  <2>1. CASE j < i
    BY <1>1, <1>2, <2>1 DEF Elements
  <2>2. CASE j > i
    <3>1. j - 1 \in 1..(Len(s) - 1) /\ Unlink(s, i)[j - 1] = s[j]
      BY <1>1, <1>2, <2>2
    <3>. QED
      BY <1>2, <3>1 DEF Elements
  <2>. QED
    BY <1>1, <2>1, <2>2
<1>. QED
  BY <1>3, <1>4, <1>5

LEMMA CollectType ==
  ASSUME TypeOK, Collect
  PROVE  TypeOK'
<1>1. /\ mark_roots \subseteq Ref
      /\ \A r \in Ref : process_obj(r) \subseteq Ref
  <2>1. mark_roots \subseteq Ref
    BY HeapType DEF mark_roots, TypeOK, Elements, Maybe, Ref, Pool
  <2>2. ASSUME NEW r \in Ref
        PROVE  process_obj(r) \subseteq Ref
    BY HeapType DEF process_obj, ChildrenOf, Elements, Maybe
  <2>. QED
    BY <2>1, <2>2
<1>2. CASE MarkRoots
  BY <1>1, <1>2 DEF MarkRoots, mark_obj, machine, TypeOK
<1>3. CASE \E r \in Ref : TraceObject(r)
  BY <1>1, <1>3 DEF TraceObject, machine, TypeOK
<1>4. CASE StartSweep
  BY <1>4 DEF StartSweep, machine, TypeOK
<1>5. CASE SweepMarked
  BY <1>5 DEF SweepMarked, machine, TypeOK
<1>6. CASE SweepUnreferenced
  <2>1. current \in 1..Len(most_recent_alloc)
    BY <1>6 DEF SweepUnreferenced, TypeOK
  <2>2. /\ most_recent_alloc' \in Seq(Cell)
        /\ Len(most_recent_alloc') = Len(most_recent_alloc) - 1
    BY <1>6, <2>1, UnlinkType DEF SweepUnreferenced, TypeOK
  <2>3. FreeCell \in Object
    BY DEF FreeCell, Object, Type, Maybe
  <2>4. heap' \in [Ref -> Object]
    BY <1>6, <2>3 DEF SweepUnreferenced, TypeOK
  <2>. QED
    BY <1>6, <2>1, <2>2, <2>4 DEF SweepUnreferenced, machine, TypeOK
<1>7. CASE EndSweep
  BY <1>7, BoundAssumption DEF EndSweep, machine, TypeOK
<1>. QED
  BY <1>2, <1>3, <1>4, <1>5, <1>6, <1>7 DEF Collect

LEMMA TypeStep ==
  ASSUME TypeOK, [Next]_vars
  PROVE  TypeOK'
<1>1. CASE end_vm
  <2>1. FreeCell \in Object
    BY DEF FreeCell, Object, Type, Maybe
  <2>2. heap' \in [Ref -> Object]
    BY <1>1, <2>1 DEF end_vm, TypeOK
  <2>3. current' \in 1..(Len(most_recent_alloc') + 1)
    BY <1>1 DEF end_vm, TypeOK
  <2>. QED
    BY <1>1, <2>2, <2>3 DEF end_vm, TypeOK, Maybe
<1>2. CASE UNCHANGED vars
  BY <1>2 DEF vars, machine, TypeOK
<1>. QED
  BY <1>1, <1>2, MoveType, WriteType, CreateType, CollectType DEF Next, Ended

LEMMA TypeInit ==
  ASSUME Init
  PROVE  TypeOK
<1>1. FreeCell \in Object /\ Leaf \in Object
  BY DEF FreeCell, Leaf, Object, Type, Maybe
<1>2. [Leaf EXCEPT !.type = "thunk"] \in Object /\ [Leaf EXCEPT !.type = "closure"] \in Object
  <2>1. /\ [Leaf EXCEPT !.type = "thunk"] = [type |-> "thunk", fields |-> <<>>, link |-> Null]
        /\ [Leaf EXCEPT !.type = "closure"] = [type |-> "closure", fields |-> <<>>, link |-> Null]
    BY DEF Leaf
  <2>2. <<>> \in Seq(Maybe) /\ Null \in Maybe
    BY DEF Maybe
  <2>3. /\ [type |-> "thunk", fields |-> <<>>, link |-> Null] \in Object
        /\ [type |-> "closure", fields |-> <<>>, link |-> Null] \in Object
    BY <2>2 DEF Object, Type
  <2>. QED
    BY <2>1, <2>3
<1>3. heap \in [Ref -> Object]
  BY <1>1, <1>2 DEF Init
<1>. QED
  BY <1>3, BoundAssumption DEF Init, TypeOK, Maybe, Ref, Pool

\* Every reachable state of the collector and of its mutator is well typed.
THEOREM TypeCorrect == Spec => []TypeOK
<1>. QED
  BY TypeInit, TypeStep, PTL DEF Spec

-----------------------------------------------------------------------------
(***************************************************************************)
(* What the program does with the heap: it moves references it can reach,  *)
(* rewrites objects it can reach, or obtains a new object.                 *)
(***************************************************************************)
LEMMA EdgesType ==
  ASSUME TypeOK
  PROVE  /\ DOMAIN Edges = Ref
         /\ \A r \in Ref : Edges[r] \subseteq Ref
         /\ MachineRoots \subseteq Ref
<1>1. ASSUME NEW r \in Ref
      PROVE  Edges[r] \subseteq Ref
  BY HeapType DEF Edges, Elements, Maybe
<1>2. MachineRoots \subseteq Ref
  BY DEF MachineRoots, Elements, TypeOK, Maybe
<1>. QED
  BY <1>1, <1>2 DEF Edges

LEMMA LiveFacts ==
  ASSUME TypeOK
  PROVE  /\ Live \subseteq Ref
         /\ Pool \subseteq Live
         /\ Elements(stack) \subseteq Live
         /\ Elements(bindings) \subseteq Live
         /\ reg_1 \in Live \cup {Null}
         /\ exception_reg \in Live \cup {Null}
         /\ Closed(Edges, Live)
<1>1. MachineRoots \cup Pool \subseteq DOMAIN Edges
  BY EdgesType DEF Ref
<1>2. MachineRoots \cup Pool \subseteq Live
  BY <1>1, ReachContainsRoots DEF Live
<1>3. Closed(Edges, Live)
  BY EdgesType, ReachClosed DEF Live
<1>4. Null \notin Elements(stack) /\ Null \notin Elements(bindings)
  BY DisjointAssumption DEF TypeOK, Elements
<1>5. Live \subseteq Ref
  BY EdgesType DEF Live, Reach
<1>. QED
  BY <1>2, <1>3, <1>4, <1>5 DEF MachineRoots

\* Whatever contains the roots and the pool and is closed contains Live.
LEMMA LiveLeast ==
  ASSUME TypeOK, NEW K, K \subseteq Ref, Pool \subseteq K, ClosedHeap(K)
  PROVE  Live \subseteq K
BY EdgesType, ReachLeast DEF Live, ClosedHeap

LEMMA FieldsLive ==
  ASSUME TypeOK, NEW r \in Live
  PROVE  /\ Elements(heap[r].fields) \ {Null} \subseteq Live
         /\ heap[r].link \in Live \cup {Null}
         /\ heap[r].type = "application" =>
              Elements(heap[r].fields) \subseteq Live /\ heap[r].link \in Live
<1>1. r \in Ref /\ Edges[r] \subseteq Live
  BY LiveFacts DEF Closed
<1>2. (Elements(heap[r].fields) \cup {heap[r].link}) \ {Null} \subseteq Live
  BY <1>1 DEF Edges
<1>3. heap[r].type = "application" =>
        heap[r].fields \in Seq(Ref) /\ heap[r].link \in Ref
  BY <1>1, HeapType
<1>. QED
  BY <1>2, <1>3, DisjointAssumption DEF Elements

\* The words popped off the stack, and those left, are reachable.
LEMMA StackLive ==
  ASSUME TypeOK
  PROVE  /\ stack # <<>> => Top(stack) \in Live
         /\ \A n \in 0..Len(stack) : /\ PopN(stack, n) \in Seq(Ref)
                                     /\ Len(PopN(stack, n)) = Len(stack) - n
                                     /\ Elements(PopN(stack, n)) \subseteq Live
         /\ Len(stack) \in Nat
         /\ stack # <<>> => 1 \in 0..Len(stack)
<1>1. stack \in Seq(Ref) /\ Len(stack) \in Nat /\ Elements(stack) \subseteq Live
  BY LiveFacts DEF TypeOK
<1>2. stack # <<>> => Len(stack) \in DOMAIN stack /\ 1 \in 0..Len(stack)
  BY <1>1
<1>3. ASSUME NEW n \in 0..Len(stack)
      PROVE  /\ PopN(stack, n) \in Seq(Ref)
             /\ Len(PopN(stack, n)) = Len(stack) - n
             /\ Elements(PopN(stack, n)) \subseteq Live
  BY <1>1, PopType
<1>. QED
  BY <1>1, <1>2, <1>3 DEF Top, Elements

\* An instruction that allocates and writes nothing.
Moved ==
  /\ heap' = heap
  /\ MachineRoots' \subseteq Live
  /\ UNCHANGED <<most_recent_alloc, marked, worklist, current>>
  /\ phase = "run"
  /\ phase' \in {"run", "mark"}

LEMMA MoveLive ==
  ASSUME TypeOK, MoveReference
  PROVE  Moved
<1> DEFINE Rooted == /\ Elements(stack') \subseteq Live
                     /\ Elements(bindings') \subseteq Live
                     /\ reg_1' \in Live \cup {Null}
                     /\ exception_reg' \in Live \cup {Null}
<1>a. SUFFICES Rooted
  <2>1. Instruction /\ heap' = heap
    BY DEF MoveReference, push_const, push_reg_stack, transfer_stack_reg, pop_u64,
           create_binding, read_binding, remove_bindings, read_field, eval_thunk,
           eval_application
  <2>. QED
    BY <2>1 DEF Moved, Instruction, try_gc, MachineRoots
<1>b. /\ stack \in Seq(Ref) /\ bindings \in Seq(Ref)
      /\ Live \subseteq Ref
      /\ \A s \in Seq(Ref), e \in Ref : Elements(Append(s, e)) = Elements(s) \cup {e}
  BY LiveFacts, PushType DEF TypeOK
<1>1. CASE \E r \in Pool : push_const(r)
  BY <1>b, <1>1, LiveFacts DEF push_const
<1>2. CASE push_reg_stack
  BY <1>b, <1>2, LiveFacts DEF push_reg_stack
<1>3. CASE transfer_stack_reg
  BY <1>3, LiveFacts, StackLive DEF transfer_stack_reg
<1>4. CASE pop_u64
  BY <1>4, LiveFacts, StackLive DEF pop_u64
<1>5. CASE create_binding
  BY <1>b, <1>5, LiveFacts, StackLive DEF create_binding
<1>6. CASE read_binding
  BY <1>b, <1>6, LiveFacts DEF read_binding, Elements
<1>7. CASE remove_bindings
  <2>1. PICK n \in 1..Len(bindings) : bindings' = PopN(bindings, n)
    BY <1>7 DEF remove_bindings
  <2>2. Elements(PopN(bindings, n)) \subseteq Elements(bindings)
    BY <1>b, PopType
  <2>. QED
    BY <1>7, <2>1, <2>2, LiveFacts DEF remove_bindings
<1>8. CASE read_field
  <2>1. Top(stack) \in Live
    BY <1>8, StackLive DEF read_field
  <2>2. PICK value \in Elements(heap[Top(stack)].fields) \ {Null} :
          stack' = Append(PopN(stack, 1), value)
    BY <1>8 DEF read_field, Elements
  <2>3. value \in Live
    BY <2>1, FieldsLive
  <2>. QED
    BY <1>b, <1>8, <2>2, <2>3, LiveFacts, StackLive DEF read_field
<1>9. CASE eval_thunk
  <2>1. Top(stack) \in Live
    BY <1>9, StackLive DEF eval_thunk
  <2>2. heap[Top(stack)].link \in Live \cup {Null}
    BY <2>1, FieldsLive
  <2>3. CASE heap[Top(stack)].link # Null
    <3>1. /\ heap[Top(stack)].link \in Live
          /\ PopN(stack, 1) \in Seq(Ref)
          /\ Elements(PopN(stack, 1)) \subseteq Live
      BY <1>9, <2>2, <2>3, StackLive DEF eval_thunk
    <3>2. Elements(stack') = Elements(PopN(stack, 1)) \cup {heap[Top(stack)].link}
      BY <1>b, <1>9, <2>3, <3>1 DEF eval_thunk
    <3>. QED
      BY <1>9, <2>3, <3>1, <3>2, LiveFacts DEF eval_thunk
  <2>4. CASE heap[Top(stack)].link = Null
    BY <1>9, <2>1, <2>4, LiveFacts DEF eval_thunk
  <2>. QED
    BY <2>3, <2>4
<1>10. CASE eval_application
  <2> DEFINE application == heap[Top(stack)]
             args == PoppedArgs(application.fields, Len(application.fields))
  <2>1. /\ Top(stack) \in Live
        /\ application.type = "application"
        /\ stack' = PopN(stack, 1) \o args
        /\ reg_1' = application.link
        /\ UNCHANGED <<bindings, exception_reg>>
    BY <1>10, StackLive DEF eval_application
  <2>2. application.fields \in Seq(Ref)
    BY <1>b, <2>1, HeapType
  <2>3. args \in Seq(Ref) /\ Elements(args) \subseteq Elements(application.fields)
    <3>1. Len(application.fields) \in 0..Len(application.fields)
      BY <2>2
    <3>. QED
      BY <2>2, <3>1, PoppedType
  <2>4. Elements(stack') = Elements(PopN(stack, 1)) \cup Elements(args)
    BY <1>10, <2>1, <2>3, StackLive, ConcatType DEF eval_application
  <2>. QED
    BY <1>10, <2>1, <2>3, <2>4, FieldsLive, LiveFacts, StackLive DEF eval_application
<1>. QED
  BY <1>1, <1>2, <1>3, <1>4, <1>5, <1>6, <1>7, <1>8, <1>9, <1>10 DEF MoveReference

\* An instruction that rewrites an object.
Wrote ==
  /\ \A r \in Ref : /\ heap'[r].type = heap[r].type
                    /\ Edges'[r] # Edges[r] => r \in Live /\ Edges'[r] \subseteq Live
  /\ \A r \in Pool : /\ heap[r].fields = <<>> => heap'[r].fields = <<>>
                     /\ heap[r].type # "thunk" => heap'[r].link = heap[r].link
  /\ MachineRoots' \subseteq Live
  /\ UNCHANGED <<most_recent_alloc, marked, worklist, current>>
  /\ phase = "run"
  /\ phase' \in {"run", "mark"}

LEMMA WriteLive ==
  ASSUME TypeOK, WriteObject
  PROVE  Wrote
<1> DEFINE Rooted == /\ Elements(stack') \subseteq Live
                     /\ Elements(bindings') \subseteq Live
                     /\ reg_1' \in Live \cup {Null}
                     /\ exception_reg' \in Live \cup {Null}
<1>a. SUFFICES /\ Rooted
               /\ \A r \in Ref : /\ heap'[r].type = heap[r].type
                                 /\ Edges'[r] # Edges[r] => r \in Live /\ Edges'[r] \subseteq Live
               /\ \A r \in Pool : /\ heap[r].fields = <<>> => heap'[r].fields = <<>>
                                  /\ heap[r].type # "thunk" => heap'[r].link = heap[r].link
  <2>1. Instruction
    BY DEF WriteObject, write_dyn, update_thunk
  <2>. QED
    BY <2>1 DEF Wrote, Instruction, try_gc, MachineRoots
<1>b. heap \in [Ref -> Object] /\ Live \subseteq Ref /\ Pool \subseteq Ref
  BY LiveFacts DEF TypeOK, Ref
<1>1. CASE write_dyn
  <2> DEFINE obj == Top(stack)
             n == Len(heap[obj].fields)
             captures == PoppedCaptures(PopN(stack, 1), n)
  <2>1. /\ obj \in Live
        /\ PopN(stack, 1) \in Seq(Ref)
        /\ Len(PopN(stack, 1)) = Len(stack) - 1
        /\ Elements(PopN(stack, 1)) \subseteq Live
        /\ Len(stack) \in Nat
    BY <1>1, StackLive DEF write_dyn
  <2>2. heap[obj].fields \in Seq(Maybe) /\ n \in Nat /\ Len(stack) > n
    BY <1>1, <1>b, <2>1, HeapType DEF write_dyn
  <2>3. n \in 0..Len(PopN(stack, 1)) /\ n + 1 \in 0..Len(stack)
    BY <2>1, <2>2
  <2>4. /\ Elements(captures) \subseteq Live
        /\ Len(captures) = n
        /\ captures \in Seq(Ref)
    BY <2>1, <2>3, PoppedType
  <2>5. heap' = [heap EXCEPT ![obj] = [heap[obj] EXCEPT !.fields = captures]]
    BY <1>1 DEF write_dyn
  <2>6. /\ heap'[obj].fields = captures
        /\ heap'[obj].link = heap[obj].link
        /\ heap'[obj].type = heap[obj].type
        /\ \A r \in Ref \ {obj} : heap'[r] = heap[r]
    <3>1. heap[obj] \in [type : Type \ {"application"}, fields : Seq(Maybe), link : Maybe]
      BY <1>1, <1>b, <2>1, HeapType DEF write_dyn, Object
    <3>. QED
      BY <1>b, <2>1, <2>5, <3>1
  <2>7. \A r \in Ref : Edges'[r] # Edges[r] => r \in Live /\ Edges'[r] \subseteq Live
    <3>1. \A r \in Ref \ {obj} : Edges'[r] = Edges[r]
      BY <2>6 DEF Edges
    <3>2. Edges'[obj] = (Elements(captures) \cup {heap[obj].link}) \ {Null}
      BY <1>b, <2>1, <2>6 DEF Edges
    <3>3. Edges'[obj] \subseteq Live
      BY <2>1, <2>4, <3>2, FieldsLive
    <3>. QED
      BY <2>1, <3>1, <3>3
  <2>8. heap[obj].fields = <<>> => captures = <<>>
    BY <2>4
  <2>9. Elements(stack') \subseteq Live
    <3>1. PopN(stack, n + 1) \in Seq(Ref) /\ Elements(PopN(stack, n + 1)) \subseteq Live
      BY <2>3, StackLive
    <3>2. stack' = Append(PopN(stack, n + 1), obj)
      BY <1>1 DEF write_dyn
    <3>. QED
      BY <1>b, <2>1, <3>1, <3>2, PushType
  <2>. QED
    BY <1>1, <1>b, <2>6, <2>7, <2>8, <2>9, LiveFacts DEF write_dyn
<1>2. CASE update_thunk
  <2> DEFINE evaluated == Top(stack)
             thunk == stack[Len(stack) - 1]
  <2>1. evaluated \in Live /\ thunk \in Live
    <3>1. Len(stack) - 1 \in DOMAIN stack /\ stack # <<>>
      BY <1>2 DEF update_thunk, TypeOK
    <3>. QED
      BY <3>1, StackLive, LiveFacts DEF Elements
  <2>2. /\ heap' = [heap EXCEPT ![thunk] = [heap[thunk] EXCEPT !.link = evaluated]]
        /\ heap[thunk].type = "thunk"
    BY <1>2 DEF update_thunk
  <2>3. /\ heap'[thunk].fields = heap[thunk].fields
        /\ heap'[thunk].link = evaluated
        /\ heap'[thunk].type = heap[thunk].type
        /\ \A r \in Ref \ {thunk} : heap'[r] = heap[r]
    <3>1. heap[thunk] \in [type : Type \ {"application"}, fields : Seq(Maybe), link : Maybe]
      BY <1>b, <2>1, <2>2, HeapType DEF Object
    <3>. QED
      BY <1>b, <2>1, <2>2, <3>1
  <2>4. \A r \in Ref : Edges'[r] # Edges[r] => r \in Live /\ Edges'[r] \subseteq Live
    <3>1. \A r \in Ref \ {thunk} : Edges'[r] = Edges[r]
      BY <2>3 DEF Edges
    <3>2. Edges'[thunk] = (Elements(heap[thunk].fields) \cup {evaluated}) \ {Null}
      BY <1>b, <2>1, <2>3 DEF Edges
    <3>3. Edges'[thunk] \subseteq Live
      BY <2>1, <3>2, FieldsLive
    <3>. QED
      BY <2>1, <3>1, <3>3
  <2>5. Elements(stack') \subseteq Live
    <3>1. 2 \in 0..Len(stack) /\ stack' = Append(PopN(stack, 2), evaluated)
      BY <1>2, StackLive DEF update_thunk
    <3>2. PopN(stack, 2) \in Seq(Ref) /\ Elements(PopN(stack, 2)) \subseteq Live
      BY <3>1, StackLive
    <3>. QED
      BY <1>b, <2>1, <3>1, <3>2, PushType
  <2>. QED
    BY <1>2, <1>b, <2>2, <2>3, <2>4, <2>5, LiveFacts DEF update_thunk
<1>. QED
  BY <1>1, <1>2 DEF WriteObject

\* An instruction that creates an object at c.
Obtained(c) ==
  /\ heap[c].type = "free"
  /\ heap'[c].type # "free"
  /\ Edges'[c] \subseteq Live
  /\ \A r \in Ref \ {c} : heap'[r] = heap[r]
  /\ MachineRoots' \subseteq Live \cup {c}
  /\ most_recent_alloc' = <<c>> \o most_recent_alloc
  /\ UNCHANGED <<marked, worklist, current>>
  /\ phase = "run"
  /\ phase' \in {"run", "mark"}

LEMMA AllocLive ==
  ASSUME TypeOK, NEW c \in Cell, NEW o, alloc_obj(c, o),
         (Elements(o.fields) \cup {o.link}) \ {Null} \subseteq Live,
         Elements(stack') \subseteq Live \cup {c},
         UNCHANGED <<bindings, reg_1, exception_reg>>
  PROVE  Obtained(c)
<1>1. /\ heap[c].type = "free"
      /\ heap'[c] = o
      /\ \A r \in Ref \ {c} : heap'[r] = heap[r]
  BY DEF alloc_obj, TypeOK, Ref
<1>2. o.type # "free"
  BY BoundAssumption DEF alloc_obj
<1>3. Edges'[c] = (Elements(o.fields) \cup {o.link}) \ {Null}
  BY <1>1 DEF Edges, Ref
<1>4. MachineRoots' \subseteq Live \cup {c}
  BY LiveFacts DEF MachineRoots
<1>. QED
  BY <1>1, <1>2, <1>3, <1>4 DEF Obtained, alloc_obj, try_gc

LEMMA CreateLive ==
  ASSUME TypeOK, CreateObject
  PROVE  \E c \in Cell : Obtained(c)
<1>1. PICK c \in Cell : create_box(c) \/ create_cons(c) \/ create_object(c)
                          \/ create_dyn(c) \/ partial_apply(c)
  BY DEF CreateObject
<1>2. SUFFICES Obtained(c)
  OBVIOUS
<1>3. /\ c \in Ref
      /\ Live \subseteq Ref
      /\ stack \in Seq(Ref)
      /\ bindings \in Seq(Ref)
      /\ Len(stack) \in Nat
      /\ Elements(<<>>) = {}
  BY LiveFacts DEF Ref, TypeOK, Elements
<1>4. ASSUME NEW n \in 0..Len(stack)
      PROVE  Elements(Append(PopN(stack, n), c)) \subseteq Live \cup {c}
  <2>1. PopN(stack, n) \in Seq(Ref) /\ Elements(PopN(stack, n)) \subseteq Live
    BY StackLive
  <2>. QED
    BY <1>3, <2>1, PushType
<1>5. Elements(Append(stack, c)) \subseteq Live \cup {c}
  BY <1>3, PushType, LiveFacts
<1>6. CASE create_box(c)
  <2>1. Elements(stack') \subseteq Live \cup {c}
    BY <1>3, <1>4, <1>6 DEF create_box
  <2>2. (Elements(Leaf.fields) \cup {Leaf.link}) \ {Null} \subseteq Live
    BY <1>3 DEF Leaf
  <2>. QED
    BY <1>6, <2>1, <2>2, AllocLive DEF create_box
<1>7. CASE create_cons(c)
  <2> DEFINE o == [type |-> "data", fields |-> PoppedArgs(stack, 2), link |-> Null]
  <2>1. Elements(stack') \subseteq Live \cup {c}
    BY <1>3, <1>4, <1>7 DEF create_cons
  <2>2. Elements(PoppedArgs(stack, 2)) \subseteq Live
    BY <1>3, <1>7, PoppedType, LiveFacts DEF create_cons
  <2>3. (Elements(o.fields) \cup {o.link}) \ {Null} \subseteq Live
    BY <2>2
  <2>4. alloc_obj(c, o) /\ UNCHANGED <<bindings, reg_1, exception_reg>>
    BY <1>7 DEF create_cons
  <2>. QED
    BY <2>1, <2>3, <2>4, AllocLive
<1>8. CASE create_object(c)
  <2>1. Elements(stack') \subseteq Live \cup {c}
    BY <1>5, <1>8 DEF create_object
  <2>2. PICK n \in 0..Len(bindings) :
          alloc_obj(c, [type |-> "data", fields |-> PoppedCaptures(bindings, n), link |-> Null])
    BY <1>8 DEF create_object
  <2> DEFINE o == [type |-> "data", fields |-> PoppedCaptures(bindings, n), link |-> Null]
  <2>3. Elements(PoppedCaptures(bindings, n)) \subseteq Live
    BY <1>3, PoppedType, LiveFacts
  <2>4. (Elements(o.fields) \cup {o.link}) \ {Null} \subseteq Live
    BY <2>3
  <2>5. alloc_obj(c, o) /\ UNCHANGED <<bindings, reg_1, exception_reg>>
    BY <1>8, <2>2 DEF create_object
  <2>. QED
    BY <2>1, <2>4, <2>5, AllocLive
<1>9. CASE create_dyn(c)
  <2>1. Elements(stack') \subseteq Live \cup {c}
    BY <1>5, <1>9 DEF create_dyn
  <2>2. PICK type \in {"closure", "thunk"}, n \in 0..MaxFields :
          alloc_obj(c, [type |-> type, fields |-> [i \in 1..n |-> Null], link |-> Null])
    BY <1>9 DEF create_dyn
  <2> DEFINE o == [type |-> type, fields |-> [i \in 1..n |-> Null], link |-> Null]
  <2>3. (Elements(o.fields) \cup {o.link}) \ {Null} \subseteq Live
    BY DEF Elements
  <2>4. alloc_obj(c, o) /\ UNCHANGED <<bindings, reg_1, exception_reg>>
    BY <1>9, <2>2 DEF create_dyn
  <2>. QED
    BY <2>1, <2>3, <2>4, AllocLive
<1>10. CASE partial_apply(c)
  <2> DEFINE f == heap[Top(stack)]
             extra == IF f.type = "application" THEN f.fields ELSE <<>>
             link == IF f.type = "application" THEN f.link ELSE Top(stack)
  <2>1. /\ Top(stack) \in Live
        /\ PopN(stack, 1) \in Seq(Ref)
        /\ Elements(PopN(stack, 1)) \subseteq Live
        /\ Len(PopN(stack, 1)) = Len(stack) - 1
    BY <1>10, StackLive DEF partial_apply
  <2>2. /\ extra \in Seq(Ref)
        /\ Elements(extra) \subseteq Live
        /\ link \in Live
    BY <1>3, <2>1, FieldsLive, HeapType
  <2>3. PICK n \in 0..(Len(stack) - 1) :
          /\ alloc_obj(c, [type |-> "application",
                           fields |-> extra \o PoppedArgs(PopN(stack, 1), n),
                           link |-> link])
          /\ stack' = Append(PopN(stack, n + 1), c)
    BY <1>10 DEF partial_apply
  <2> DEFINE args == PoppedArgs(PopN(stack, 1), n)
             o == [type |-> "application", fields |-> extra \o args, link |-> link]
  <2>4. args \in Seq(Ref) /\ Elements(args) \subseteq Live
    BY <2>1, PoppedType
  <2> HIDE DEF extra, args, link
  <2>5. Elements(extra \o args) = Elements(extra) \cup Elements(args)
    BY <2>2, <2>4, ConcatType
  <2>6. (Elements(o.fields) \cup {o.link}) \ {Null} \subseteq Live
    BY <2>2, <2>4, <2>5
  <2>7. Elements(stack') \subseteq Live \cup {c}
    <3>1. n + 1 \in 0..Len(stack)
      BY <1>3
    <3>. QED
      BY <1>4, <2>3, <3>1
  <2>8. alloc_obj(c, o) /\ UNCHANGED <<bindings, reg_1, exception_reg>>
    BY <1>10, <2>3 DEF partial_apply, extra, args, link
  <2>. QED
    BY <2>6, <2>7, <2>8, AllocLive
<1>. QED
  BY <1>1, <1>6, <1>7, <1>8, <1>9, <1>10

-----------------------------------------------------------------------------
(***************************************************************************)
(* Why the collector is correct: IInv is preserved by every instruction    *)
(* and by every step of run_gc, for any heap, constant pool and bounds.    *)
(***************************************************************************)
-----------------------------------------------------------------------------
\* Facts about lists without repetition.
Distinct(s) == \A i, j \in DOMAIN s : s[i] = s[j] => i = j

LEMMA PrependDistinct ==
  ASSUME NEW S, NEW s \in Seq(S), NEW e \in S, e \notin Elements(s), Distinct(s)
  PROVE  /\ Elements(<<e>> \o s) = {e} \cup Elements(s)
         /\ Distinct(<<e>> \o s)
<1>1. <<e>> \in Seq(S) /\ Len(<<e>>) = 1 /\ <<e>>[1] = e /\ Elements(<<e>>) = {e}
  BY DEF Elements
<1>2. /\ <<e>> \o s \in Seq(S)
      /\ Len(<<e>> \o s) = 1 + Len(s)
      /\ (<<e>> \o s)[1] = e
      /\ \A i \in 1..Len(s) : (<<e>> \o s)[1 + i] = s[i]
  BY <1>1, ConcatProperties
<1>3. Elements(<<e>> \o s) = {e} \cup Elements(s)
  <2>1. \A t \in Seq(S) : Elements(t \o s) = Elements(t) \cup Elements(s)
    BY ConcatType
  <2>. QED
    BY <1>1, <2>1
<1>4. ASSUME NEW i \in DOMAIN (<<e>> \o s), NEW j \in DOMAIN (<<e>> \o s),
             (<<e>> \o s)[i] = (<<e>> \o s)[j], i # j, i # 1
      PROVE  FALSE
  <2>1. /\ i - 1 \in 1..Len(s)
        /\ (<<e>> \o s)[1 + (i - 1)] = s[i - 1]
        /\ 1 + (i - 1) = i
    BY <1>2, <1>4
  <2>2. CASE j = 1
    BY <1>2, <1>4, <2>1, <2>2 DEF Elements
  <2>3. CASE j # 1
    <3>1. /\ j - 1 \in 1..Len(s)
          /\ (<<e>> \o s)[1 + (j - 1)] = s[j - 1]
          /\ 1 + (j - 1) = j
      BY <1>2, <1>4, <2>3
    <3>2. i - 1 = j - 1
      BY <1>4, <2>1, <3>1 DEF Distinct
    <3>. QED
      BY <1>2, <1>4, <2>1, <3>1, <3>2
  <2>. QED
    BY <2>2, <2>3
<1>5. Distinct(<<e>> \o s)
  BY <1>4 DEF Distinct
<1>. QED
  BY <1>3, <1>5

LEMMA UnlinkDistinct ==
  ASSUME NEW S, NEW s \in Seq(S), NEW i \in 1..Len(s), Distinct(s)
  PROVE  /\ Elements(Unlink(s, i)) = Elements(s) \ {s[i]}
         /\ Distinct(Unlink(s, i))
         /\ \A j \in 1..(i - 1) : Unlink(s, i)[j] = s[j]
<1>1. Elements(Unlink(s, i)) = Elements(s) \ {s[i]}
  <2>1. Elements(Unlink(s, i)) = { s[j] : j \in DOMAIN s \ {i} }
    BY UnlinkType
  <2>2. { s[j] : j \in DOMAIN s \ {i} } = Elements(s) \ {s[i]}
    BY DEF Elements, Distinct
  <2>. QED
    BY <2>1, <2>2
<1>2. /\ Len(s) \in Nat
      /\ DOMAIN Unlink(s, i) = 1..(Len(s) - 1)
      /\ \A j \in 1..(Len(s) - 1) : Unlink(s, i)[j] = IF j < i THEN s[j] ELSE s[j + 1]
  BY DEF Unlink
<1>3. \A j \in 1..(i - 1) : Unlink(s, i)[j] = s[j]
  BY <1>2
<1>4. ASSUME NEW j \in 1..(Len(s) - 1), NEW k \in 1..(Len(s) - 1),
             Unlink(s, i)[j] = Unlink(s, i)[k]
      PROVE  j = k
  <2>1. /\ j \in 1..Len(s) /\ j + 1 \in 1..Len(s)
        /\ k \in 1..Len(s) /\ k + 1 \in 1..Len(s)
        /\ \A x, y \in 1..Len(s) : s[x] = s[y] => x = y
    BY <1>2 DEF Distinct
  <2>2. CASE j < i /\ k < i
    BY <1>2, <1>4, <2>1, <2>2
  <2>3. CASE j < i /\ ~(k < i)
    BY <1>2, <1>4, <2>1, <2>3
  <2>4. CASE ~(j < i) /\ k < i
    BY <1>2, <1>4, <2>1, <2>4
  <2>5. CASE ~(j < i) /\ ~(k < i)
    BY <1>2, <1>4, <2>1, <2>5
  <2>. QED
    BY <2>2, <2>3, <2>4, <2>5
<1>. QED
  BY <1>1, <1>2, <1>3, <1>4 DEF Distinct

-----------------------------------------------------------------------------
\* Outside a sweep, what the program can reach exists.
LEMMA LiveAlive ==
  ASSUME IInv, phase \in {"run", "mark", "trace"}
  PROVE  /\ Live \subseteq Alive
         /\ ClosedHeap(Alive)
         /\ Pool \subseteq Alive
<1>1. ClosedHeap(Alive)
  BY DEF IInv, Quiet, Tracing
<1>2. Pool \subseteq Alive
  BY DEF IInv, PoolIntact, Alive, Ref
<1>. QED
  BY <1>1, <1>2, LiveLeast DEF IInv, Alive

\* During a sweep, what the program can reach is kept.
LEMMA LiveKept ==
  ASSUME IInv, phase = "sweep"
  PROVE  /\ Live \subseteq Kept \cup Pool
         /\ Kept \subseteq Elements(most_recent_alloc)
         /\ Kept \subseteq Cell
<1>1. most_recent_alloc \in Seq(Cell) /\ current \in 1..(Len(most_recent_alloc) + 1)
  BY DEF IInv, TypeOK
<1>2. Kept \subseteq Elements(most_recent_alloc)
  BY <1>1 DEF Kept, Elements
<1>3. Elements(most_recent_alloc) \subseteq Cell
  BY <1>1 DEF Elements
<1>. QED
  BY <1>2, <1>3, LiveLeast DEF IInv, Sweeping, Ref

-----------------------------------------------------------------------------
(***************************************************************************)
(* The instructions.                                                       *)
(***************************************************************************)
LEMMA MovedStep ==
  ASSUME IInv, TypeOK', Moved
  PROVE  IInv'
<1>1. Live \subseteq Alive /\ ClosedHeap(Alive)
  BY LiveAlive DEF Moved
<1>2. Edges' = Edges /\ Alive' = Alive /\ Allocated' = Allocated
  BY DEF Moved, Edges, Alive, Allocated
<1>3. ListExact'
  BY <1>2 DEF IInv, ListExact, Moved
<1>4. PoolIntact'
  BY DEF IInv, PoolIntact, Moved
<1>5. ClosedHeap(Alive)'
  BY <1>1, <1>2 DEF ClosedHeap, Moved, Closed
<1>6. Quiet'
  BY <1>5 DEF IInv, Quiet, Moved
<1>7. Tracing' /\ Sweeping'
  BY DEF Tracing, Sweeping, Moved
<1>. QED
  BY <1>3, <1>4, <1>6, <1>7 DEF IInv

LEMMA WroteStep ==
  ASSUME IInv, TypeOK', Wrote
  PROVE  IInv'
<1>1. Live \subseteq Alive /\ ClosedHeap(Alive)
  BY LiveAlive DEF Wrote
<1>2. Alive' = Alive /\ Allocated' = Allocated
  BY DEF Wrote, Alive, Allocated, Ref
<1>3. ListExact'
  BY <1>2 DEF IInv, ListExact, Wrote
<1>4. PoolIntact'
  BY DEF IInv, PoolIntact, Wrote, Ref
<1>5. ClosedHeap(Alive)'
  <2>1. ASSUME NEW r \in Alive
        PROVE  Edges'[r] \subseteq Alive
    BY <1>1 DEF Wrote, Alive, ClosedHeap, Closed
  <2>. QED
    BY <1>1, <1>2, <2>1 DEF ClosedHeap, Closed, Wrote
<1>6. Quiet'
  BY <1>5 DEF IInv, Quiet, Wrote
<1>7. Tracing' /\ Sweeping'
  BY DEF Tracing, Sweeping, Wrote
<1>. QED
  BY <1>3, <1>4, <1>6, <1>7 DEF IInv

LEMMA ObtainedStep ==
  ASSUME IInv, TypeOK', NEW c \in Cell, Obtained(c)
  PROVE  IInv'
<1>1. Live \subseteq Alive /\ ClosedHeap(Alive)
  BY LiveAlive DEF Obtained
<1>2. c \in Ref /\ c \notin Pool
  BY DisjointAssumption DEF Ref
<1>3. Alive' = Alive \cup {c} /\ Allocated' = Allocated \cup {c} /\ c \notin Allocated
  BY <1>2 DEF Obtained, Alive, Allocated, Ref
<1>4. ListExact'
  <2>1. /\ most_recent_alloc \in Seq(Cell)
        /\ c \notin Elements(most_recent_alloc)
        /\ Distinct(most_recent_alloc)
    BY <1>3 DEF IInv, TypeOK, ListExact, Distinct
  <2>2. /\ Elements(most_recent_alloc') = {c} \cup Elements(most_recent_alloc)
        /\ Distinct(most_recent_alloc')
    BY <2>1, PrependDistinct DEF Obtained
  <2>. QED
    BY <1>3, <2>2 DEF IInv, ListExact, Distinct
<1>5. PoolIntact'
  BY <1>2 DEF IInv, PoolIntact, Obtained, Ref
<1>6. ClosedHeap(Alive)'
  <2>1. \A r \in Ref \ {c} : Edges'[r] = Edges[r]
    BY DEF Obtained, Edges
  <2>2. ASSUME NEW r \in Alive'
        PROVE  Edges'[r] \subseteq Alive'
    BY <1>1, <1>3, <2>1, <2>2 DEF Obtained, Alive, ClosedHeap, Closed
  <2>. QED
    BY <1>1, <1>3, <2>2 DEF ClosedHeap, Closed, Obtained
<1>7. Quiet'
  BY <1>6 DEF IInv, Quiet, Obtained
<1>8. Tracing' /\ Sweeping'
  BY DEF Tracing, Sweeping, Obtained
<1>. QED
  BY <1>4, <1>5, <1>7, <1>8 DEF IInv

-----------------------------------------------------------------------------
(***************************************************************************)
(* The collection.                                                         *)
(***************************************************************************)
LEMMA MarkRootsStep ==
  ASSUME IInv, TypeOK', MarkRoots
  PROVE  IInv'
<1>1. /\ ClosedHeap(Alive)
      /\ Pool \subseteq Alive
      /\ marked \cap Cell = {}
      /\ worklist = {}
  BY LiveAlive DEF IInv, Quiet, MarkRoots
<1>2. Edges' = Edges /\ Alive' = Alive /\ Allocated' = Allocated /\ Live' = Live
        /\ mark_roots' = mark_roots /\ MachineRoots' = MachineRoots
  BY DEF MarkRoots, machine, Edges, Alive, Allocated, Live, MachineRoots, mark_roots
<1>3. ListExact' /\ PoolIntact'
  BY <1>2 DEF IInv, ListExact, PoolIntact, MarkRoots
<1>4. marked' = marked \cup mark_roots /\ worklist' = mark_roots \ marked
  BY <1>1 DEF MarkRoots, mark_obj
<1>5. mark_roots \subseteq Live
  <2>1. \A t \in StaticThunk : heap[t].link \in Live \cup {Null}
    BY LiveFacts, FieldsLive DEF IInv, Pool
  <2>. QED
    BY <2>1, LiveFacts DEF IInv, mark_roots
<1>6. marked \subseteq Pool /\ mark_roots \subseteq Alive
  BY <1>1, <1>5, LiveAlive DEF IInv, TypeOK, Ref, MarkRoots
<1>7. ASSUME NEW r \in marked
      PROVE  Edges[r] \subseteq mark_roots
  <2>1. heap[r].fields = <<>> /\ (r \notin StaticThunk => heap[r].link = Null)
    BY <1>6 DEF IInv, PoolIntact, MarkRoots
  <2>2. Edges[r] \subseteq {heap[r].link} \ {Null}
    BY <1>6, <2>1 DEF Edges, Elements, Ref
  <2>. QED
    BY <2>1, <2>2 DEF mark_roots
<1>8. Tracing'
  <2>1. ClosedHeap(Alive)'
    BY <1>1, <1>2 DEF ClosedHeap, Closed
  <2>. QED
    BY <1>1, <1>2, <1>4, <1>5, <1>6, <1>7, <2>1 DEF Tracing
<1>9. Quiet' /\ Sweeping'
  BY DEF MarkRoots, Quiet, Sweeping
<1>. QED
  BY <1>3, <1>8, <1>9 DEF IInv

LEMMA TraceObjectStep ==
  ASSUME IInv, TypeOK', NEW r \in Ref, TraceObject(r)
  PROVE  IInv'
<1>1. /\ Edges' = Edges /\ Alive' = Alive /\ Allocated' = Allocated /\ Live' = Live
      /\ mark_roots' = mark_roots /\ MachineRoots' = MachineRoots
  BY DEF TraceObject, machine, Edges, Alive, Allocated, Live, MachineRoots, mark_roots
<1>2. ListExact' /\ PoolIntact'
  BY <1>1 DEF IInv, ListExact, PoolIntact, TraceObject
<1>3. /\ r \in worklist
      /\ marked' = marked \cup Edges[r]
      /\ worklist' = (worklist \ {r}) \cup (Edges[r] \ marked)
  BY DEF TraceObject, process_obj, ChildrenOf, Edges
<1>4. Tracing
  BY DEF IInv
<1>5. r \in Alive /\ r \in Live /\ Edges[r] \subseteq Alive /\ Edges[r] \subseteq Live
  <2>1. r \in marked /\ r \in Alive
    BY <1>3, <1>4 DEF Tracing, TraceObject
  <2>2. r \in Live
    BY <1>4, <2>1, LiveFacts DEF Tracing, TraceObject, IInv, Ref
  <2>. QED
    BY <1>4, <2>1, <2>2, LiveFacts DEF Tracing, TraceObject, IInv, ClosedHeap, Closed
<1>6. Tracing'
  <2>1. ClosedHeap(Alive)'
    BY <1>1, <1>4 DEF ClosedHeap, Closed, Tracing, TraceObject
  <2>2. \A x \in marked' \ worklist' : Edges[x] \subseteq marked'
    BY <1>3, <1>4 DEF Tracing, TraceObject
  <2>3. worklist' \subseteq marked'
    BY <1>3, <1>4 DEF Tracing, TraceObject
  <2>4. /\ mark_roots \subseteq marked'
        /\ marked' \subseteq Alive
        /\ marked' \cap Cell \subseteq Live
    BY <1>3, <1>4, <1>5 DEF Tracing, TraceObject
  <2>. QED
    BY <1>1, <2>1, <2>2, <2>3, <2>4 DEF Tracing
<1>7. Quiet' /\ Sweeping'
  BY DEF TraceObject, Quiet, Sweeping
<1>. QED
  BY <1>2, <1>6, <1>7 DEF IInv

LEMMA StartSweepStep ==
  ASSUME IInv, TypeOK', StartSweep
  PROVE  /\ IInv'
         /\ Kept' = Allocated \cap Live
<1>1. /\ Edges' = Edges /\ Allocated' = Allocated /\ Live' = Live
      /\ MachineRoots' = MachineRoots
  BY DEF StartSweep, machine, Edges, Allocated, Live, MachineRoots
<1>2. ListExact' /\ PoolIntact'
  BY <1>1 DEF IInv, ListExact, PoolIntact, StartSweep
<1>3. Tracing /\ worklist = {} /\ ListExact
  BY DEF IInv, StartSweep
<1>4. Kept' = marked \cap Cell
  <2>1. Kept' = { c \in Elements(most_recent_alloc) : c \in marked }
    BY DEF StartSweep, Kept
  <2>2. marked \cap Cell \subseteq Allocated
    BY <1>3 DEF Tracing, StartSweep, Alive, Allocated
  <2>. QED
    BY <1>3, <2>1, <2>2 DEF ListExact, Allocated
<1>5. MachineRoots \subseteq marked
  BY <1>3 DEF Tracing, StartSweep, MachineRoots, mark_roots
<1>6. marked \subseteq Kept' \cup Pool
  BY <1>4 DEF IInv, TypeOK, Ref
<1>7. ASSUME NEW r \in Kept' \cup Pool
      PROVE  Edges[r] \subseteq Kept' \cup Pool
  <2>1. CASE r \in Kept'
    BY <1>3, <1>4, <1>6, <2>1 DEF Tracing, StartSweep
  <2>2. CASE r \in Pool
    <3>1. heap[r].fields = <<>> /\ (r \notin StaticThunk => heap[r].link = Null)
      BY <2>2 DEF IInv, PoolIntact, StartSweep
    <3>2. Edges[r] \subseteq {heap[r].link} \ {Null}
      BY <2>2, <3>1 DEF Edges, Elements, Ref
    <3>3. Edges[r] \subseteq mark_roots
      BY <3>1, <3>2 DEF mark_roots
    <3>. QED
      BY <1>3, <1>6, <3>3 DEF Tracing, StartSweep
  <2>. QED
    BY <2>1, <2>2
<1>8. Kept' \subseteq Live
  BY <1>3, <1>4 DEF Tracing, StartSweep
<1>9. Sweeping'
  <2>1. ClosedHeap(Kept \cup Pool)'
    BY <1>1, <1>5, <1>6, <1>7 DEF ClosedHeap, Closed
  <2>2. current' = 1 /\ UNCHANGED <<marked, worklist, most_recent_alloc>>
    BY DEF StartSweep
  <2>3. marked \cap Cell \subseteq Elements(most_recent_alloc)
    BY <1>3 DEF Tracing, StartSweep, ListExact, Alive, Allocated
  <2>. QED
    BY <1>1, <1>3, <1>8, <2>1, <2>2, <2>3 DEF Sweeping
<1>10. Quiet' /\ Tracing'
  BY DEF StartSweep, Quiet, Tracing
<1>11. IInv'
  BY <1>2, <1>9, <1>10 DEF IInv
<1>12. Allocated \cap Live \subseteq Kept'
  <2>1. ClosedHeap(Kept' \cup Pool)
    BY <1>5, <1>6, <1>7 DEF ClosedHeap, Closed
  <2>2. Live \subseteq Kept' \cup Pool
    <3>1. Kept' \cup Pool \subseteq Ref
      BY <1>4 DEF Ref
    <3>. QED
      BY <2>1, <3>1, LiveLeast DEF IInv
  <2>. QED
    BY <2>2, DisjointAssumption DEF Allocated
<1>13. Kept' \subseteq Allocated
  BY <1>3, <1>4 DEF Tracing, StartSweep, Alive, Allocated
<1>. QED
  BY <1>8, <1>11, <1>12, <1>13

LEMMA SweepMarkedStep ==
  ASSUME IInv, TypeOK', SweepMarked
  PROVE  IInv' /\ Kept' = Kept
<1>1. /\ Edges' = Edges /\ Allocated' = Allocated /\ Live' = Live
      /\ MachineRoots' = MachineRoots
  BY DEF SweepMarked, machine, Edges, Allocated, Live, MachineRoots
<1>2. ListExact' /\ PoolIntact'
  BY <1>1 DEF IInv, ListExact, PoolIntact, SweepMarked
<1>3. /\ most_recent_alloc \in Seq(Cell)
      /\ current \in 1..Len(most_recent_alloc)
      /\ most_recent_alloc' = most_recent_alloc
      /\ current' = current + 1
      /\ marked' = marked \ {most_recent_alloc[current]}
      /\ most_recent_alloc[current] \in marked
  BY DEF SweepMarked, IInv, TypeOK
<1>4. 1..(current' - 1) = 1..(current - 1) \cup {current}
  BY <1>3
<1>5. Kept' = Kept
  <2>1. Kept' \subseteq Kept
    BY <1>3, <1>4 DEF Kept, Elements
  <2>2. Kept \subseteq Kept'
    BY <1>3, <1>4 DEF Kept, Elements
  <2>. QED
    BY <2>1, <2>2
<1>6. Sweeping'
  <2>1. Sweeping /\ phase = "sweep"
    BY DEF IInv, SweepMarked
  <2>2. ClosedHeap(Kept \cup Pool)'
    BY <1>1, <1>5, <2>1 DEF Sweeping, ClosedHeap, Closed
  <2>3. \A i \in 1..(current' - 1) : most_recent_alloc'[i] \notin marked'
    BY <1>3, <1>4, <2>1 DEF Sweeping
  <2>4. worklist' = worklist
    BY DEF SweepMarked
  <2>. QED
    BY <1>1, <1>3, <1>5, <2>1, <2>2, <2>3, <2>4 DEF Sweeping
<1>7. Quiet' /\ Tracing'
  BY DEF SweepMarked, Quiet, Tracing
<1>. QED
  BY <1>2, <1>5, <1>6, <1>7 DEF IInv

LEMMA SweepUnreferencedStep ==
  ASSUME IInv, TypeOK', SweepUnreferenced
  PROVE  /\ IInv'
         /\ Kept' = Kept
         /\ \A r \in Kept \cup Pool : Edges'[r] = Edges[r]
<1> DEFINE x == most_recent_alloc[current]
<1>1. /\ Sweeping
      /\ phase = "sweep"
      /\ most_recent_alloc \in Seq(Cell)
      /\ heap \in [Ref -> Object]
      /\ current \in 1..Len(most_recent_alloc)
      /\ Distinct(most_recent_alloc)
      /\ Elements(most_recent_alloc) = Allocated
  BY DEF SweepUnreferenced, IInv, TypeOK, ListExact, Distinct
<1>2. /\ x \notin marked
      /\ x \in Cell
      /\ x \in Elements(most_recent_alloc)
      /\ most_recent_alloc' = Unlink(most_recent_alloc, current)
      /\ heap' = [heap EXCEPT ![x] = FreeCell]
      /\ UNCHANGED <<marked, machine, phase, worklist, current>>
  BY <1>1 DEF SweepUnreferenced, Elements
<1>3. /\ Elements(most_recent_alloc') = Elements(most_recent_alloc) \ {x}
      /\ Distinct(most_recent_alloc')
      /\ \A j \in 1..(current - 1) : most_recent_alloc'[j] = most_recent_alloc[j]
  BY <1>1, <1>2, UnlinkDistinct
<1>4. \A j \in 1..(current - 1) : most_recent_alloc[j] # x
  BY <1>1 DEF Distinct
<1>5. Kept' = Kept /\ x \notin Kept
  BY <1>2, <1>3, <1>4 DEF Kept
<1>6. x \in Ref /\ x \notin Pool
  BY <1>2, DisjointAssumption DEF Ref
<1>7. /\ heap'[x] = FreeCell
      /\ \A r \in Ref \ {x} : heap'[r] = heap[r] /\ Edges'[r] = Edges[r]
  BY <1>1, <1>2, <1>6 DEF Edges
<1>8. \A r \in Kept \cup Pool : Edges'[r] = Edges[r]
  BY <1>5, <1>6, <1>7, LiveKept DEF IInv, SweepUnreferenced, Ref
<1>9. MachineRoots' = MachineRoots
  BY <1>2 DEF machine, MachineRoots
<1>10. Live' = Live
  <2>1. MachineRoots \cup Pool \subseteq Kept \cup Pool /\ Closed(Edges, Kept \cup Pool)
    BY <1>1 DEF Sweeping, ClosedHeap
  <2>2. Kept \cup Pool \subseteq Ref
    BY <1>1, LiveKept DEF Ref
  <2>3. DOMAIN Edges = Ref /\ DOMAIN Edges' = Ref
    BY DEF Edges
  <2>. QED
    BY <1>8, <1>9, <2>1, <2>2, <2>3, ReachRestrict DEF Live
<1>11. ListExact'
  <2>1. Allocated' = Allocated \ {x}
    BY <1>2, <1>6, <1>7 DEF Allocated, FreeCell, Ref
  <2>. QED
    BY <1>1, <1>3, <2>1 DEF ListExact, Distinct
<1>12. PoolIntact'
  BY <1>1, <1>2, <1>6, <1>7 DEF IInv, PoolIntact, Ref
<1>13. Sweeping'
  <2>1. ClosedHeap(Kept \cup Pool)'
    BY <1>1, <1>5, <1>8, <1>9 DEF Sweeping, ClosedHeap, Closed
  <2>2. marked \cap Cell \subseteq Elements(most_recent_alloc')
    BY <1>1, <1>2, <1>3 DEF Sweeping
  <2>3. \A i \in 1..(current' - 1) : most_recent_alloc'[i] \notin marked'
    BY <1>1, <1>2, <1>3 DEF Sweeping
  <2>. QED
    BY <1>1, <1>2, <1>5, <1>10, <2>1, <2>2, <2>3 DEF Sweeping
<1>14. Quiet' /\ Tracing'
  BY <1>1, <1>2 DEF Quiet, Tracing
<1>. QED
  BY <1>5, <1>8, <1>11, <1>12, <1>13, <1>14 DEF IInv

LEMMA EndSweepStep ==
  ASSUME IInv, TypeOK', EndSweep
  PROVE  /\ IInv'
         /\ Kept = Allocated
         /\ Allocated = Live \cap Cell
<1>1. /\ Edges' = Edges /\ Alive' = Alive /\ Allocated' = Allocated
      /\ MachineRoots' = MachineRoots
  BY DEF EndSweep, machine, Edges, Alive, Allocated, MachineRoots
<1>2. ListExact' /\ PoolIntact'
  BY <1>1 DEF IInv, ListExact, PoolIntact, EndSweep
<1>3. /\ Sweeping
      /\ phase = "sweep"
      /\ most_recent_alloc \in Seq(Cell)
      /\ Elements(most_recent_alloc) = Allocated
      /\ Len(most_recent_alloc) \in Nat
      /\ current = Len(most_recent_alloc) + 1
  BY DEF EndSweep, IInv, TypeOK, ListExact
<1>4. DOMAIN most_recent_alloc = 1..(current - 1)
  BY <1>3
<1>5. Kept = Allocated
  BY <1>3, <1>4 DEF Kept, Elements
<1>6. Alive = Kept \cup Pool
  <2>1. Pool \subseteq Alive
    BY <1>3 DEF IInv, PoolIntact, Alive, Ref
  <2>. QED
    BY <1>5, <2>1 DEF Alive, Allocated, Ref
<1>7. marked \cap Cell = {}
  BY <1>3, <1>4 DEF Sweeping, Elements
<1>8. Quiet'
  <2>1. ClosedHeap(Alive)'
    BY <1>1, <1>3, <1>6 DEF Sweeping, ClosedHeap, Closed
  <2>. QED
    BY <1>3, <1>7, <2>1 DEF Quiet, Sweeping, EndSweep
<1>9. Tracing' /\ Sweeping'
  BY DEF EndSweep, Tracing, Sweeping
<1>10. Allocated = Live \cap Cell
  BY <1>3, <1>5, LiveKept, DisjointAssumption DEF Sweeping, Allocated
<1>. QED
  BY <1>2, <1>5, <1>8, <1>9, <1>10 DEF IInv

LEMMA EndVmStep ==
  ASSUME IInv, TypeOK', end_vm
  PROVE  IInv'
<1>1. ListExact'
  BY DEF IInv, ListExact, end_vm, Elements, Allocated, FreeCell, Ref
<1>2. PoolIntact' /\ Quiet' /\ Tracing' /\ Sweeping'
  BY DEF end_vm, PoolIntact, Quiet, Tracing, Sweeping
<1>. QED
  BY <1>1, <1>2 DEF IInv

-----------------------------------------------------------------------------
(***************************************************************************)
(* The invariant and what follows from it.                                 *)
(***************************************************************************)
LEMMA InvInit ==
  ASSUME Init
  PROVE  IInv
<1>1. TypeOK
  BY TypeInit
<1>2. \A r \in Ref : heap[r].fields = <<>> /\ heap[r].link = Null
  BY DEF Init, FreeCell, Leaf
<1>3. \A r \in Cell : heap[r].type = "free"
  <2>. SUFFICES ASSUME NEW r \in Cell
                PROVE  heap[r].type = "free"
    OBVIOUS
  <2>1. heap[r] = FreeCell
    <3>1. r \in Ref /\ r \notin StaticThunk /\ r \notin StaticClosure
      BY DisjointAssumption DEF Ref, Pool
    <3>. QED
      BY <3>1 DEF Init
  <2>. QED
    BY <2>1 DEF FreeCell
<1>4. \A r \in Pool : /\ r \in Ref
                      /\ heap[r].type # "free"
                      /\ r \notin StaticThunk => heap[r].type # "thunk"
  BY DisjointAssumption DEF Init, Leaf, Ref, Pool
<1>5. ListExact
  BY <1>3 DEF Init, ListExact, Elements, Allocated
<1>6. PoolIntact
  BY <1>2, <1>4 DEF PoolIntact
<1>7. ClosedHeap(Alive)
  <2>1. \A r \in Ref : Edges[r] = {}
    BY <1>2 DEF Edges, Elements
  <2>2. MachineRoots \subseteq Alive
    BY <1>4 DEF MachineRoots, Init, Elements, Alive, Pool
  <2>. QED
    BY <2>1, <2>2 DEF ClosedHeap, Closed, Alive
<1>8. Quiet /\ Tracing /\ Sweeping
  BY <1>7 DEF Init, Quiet, Tracing, Sweeping
<1>. QED
  BY <1>1, <1>5, <1>6, <1>8 DEF IInv

LEMMA InvStep ==
  ASSUME IInv, [Next]_vars
  PROVE  IInv'
<1>1. TypeOK /\ TypeOK'
  BY TypeStep DEF IInv
<1>2. CASE MoveReference
  BY <1>1, <1>2, MoveLive, MovedStep
<1>3. CASE WriteObject
  BY <1>1, <1>3, WriteLive, WroteStep
<1>4. CASE CreateObject
  BY <1>1, <1>4, CreateLive, ObtainedStep
<1>5. CASE Collect
  BY <1>1, <1>5, MarkRootsStep, TraceObjectStep, StartSweepStep, SweepMarkedStep,
     SweepUnreferencedStep, EndSweepStep DEF Collect
<1>6. CASE end_vm
  BY <1>1, <1>6, EndVmStep
<1>7. CASE UNCHANGED vars
  <2>1. /\ Edges' = Edges /\ Alive' = Alive /\ Allocated' = Allocated /\ Kept' = Kept
        /\ MachineRoots' = MachineRoots /\ mark_roots' = mark_roots
    BY <1>7 DEF vars, machine, Edges, Alive, Allocated, Kept, MachineRoots, mark_roots
  <2>2. Live' = Live
    BY <2>1 DEF Live
  <2>3. ListExact' /\ PoolIntact'
    BY <1>7, <2>1 DEF IInv, ListExact, PoolIntact, vars
  <2>4. Quiet' /\ Tracing' /\ Sweeping'
    BY <1>7, <2>1, <2>2 DEF IInv, Quiet, Tracing, Sweeping, ClosedHeap, Closed, vars
  <2>. QED
    BY <1>1, <2>3, <2>4 DEF IInv
<1>. QED
  BY <1>2, <1>3, <1>4, <1>5, <1>6, <1>7 DEF Next, Ended

\* IInv holds in every reachable state: the inductive invariant of the
\* collector and its program (gc.c, object.c, vm.c).
THEOREM Inductive == Spec => []IInv
<1>. QED
  BY InvInit, InvStep, PTL DEF Spec

\* The program never holds a reference to a discarded object.
THEOREM NeverDangling == Spec => []NoDangling
<1>1. ASSUME IInv
      PROVE  NoDangling
  <2>1. CASE phase \in {"run", "mark", "trace"}
    BY <1>1, <2>1, LiveAlive DEF NoDangling
  <2>2. CASE phase = "sweep"
    <3>1. Kept \subseteq Allocated
      BY <1>1, <2>2, LiveKept DEF IInv, ListExact
    <3>2. Kept \cup Pool \subseteq Alive
      BY <1>1, <2>2, <3>1 DEF IInv, PoolIntact, Allocated, Alive, Ref
    <3>. QED
      BY <1>1, <2>2, <3>2, LiveKept DEF NoDangling
  <2>3. CASE phase = "ended"
    BY <2>3 DEF NoDangling
  <2>. QED
    BY <1>1, <2>1, <2>2, <2>3 DEF IInv, TypeOK
<1>. QED
  BY <1>1, Inductive, PTL

\* The allocation list holds every allocated object exactly once.
THEOREM ListIsExact == Spec => []ListExact
<1>1. IInv => ListExact
  BY DEF IInv
<1>. QED
  BY <1>1, Inductive, PTL

\* When a collection returns, the objects left are the reachable ones.
THEOREM CollectionIsExact == Spec => ExactCollection
<1>1. ASSUME IInv, [Next]_vars, phase = "sweep", phase' = "run"
      PROVE  Allocated' = Live' \cap Cell
  <2>1. EndSweep
    BY <1>1 DEF Next, MoveReference, WriteObject, CreateObject, Collect, Ended, vars,
       push_const, push_reg_stack, transfer_stack_reg, pop_u64, create_binding,
       read_binding, remove_bindings, read_field, eval_thunk, eval_application,
       write_dyn, update_thunk, create_box, create_cons, create_object, create_dyn,
       partial_apply, alloc_obj, Instruction, MarkRoots, TraceObject, StartSweep,
       SweepMarked, SweepUnreferenced, end_vm
  <2>2. Allocated = Live \cap Cell
    BY <1>1, <2>1, TypeStep, EndSweepStep DEF IInv
  <2>3. Allocated' = Allocated /\ Live' = Live
    BY <2>1 DEF EndSweep, machine, Allocated, Live, Edges, MachineRoots
  <2>. QED
    BY <2>2, <2>3
<1>2. IInv /\ [Next]_vars => [phase = "sweep" /\ phase' = "run" => Allocated' = Live' \cap Cell]_vars
  BY <1>1
<1>. QED
  BY <1>2, Inductive, PTL DEF Spec, ExactCollection

-----------------------------------------------------------------------------
(***************************************************************************)
(* MarkSweep implements HeapSpec: the fate of every object is decided in   *)
(* one step, when tracing ends, and a collection discards exactly what the *)
(* program cannot reach.                                                   *)
(***************************************************************************)
\* The edges the abstract heap has in a state of the collector.
Bar == [r \in Ref |-> IF r \in Decided \cup Pool THEN Edges[r] ELSE {}]

LEMMA BarLive ==
  ASSUME IInv, phase # "ended"
  PROVE  Promise!Live = Live
<1> DEFINE K == Decided \cup Pool
<1>1. K \subseteq Ref /\ MachineRoots \cup Pool \subseteq K /\ Closed(Edges, K)
  <2>1. CASE phase = "sweep"
    BY <2>1, LiveKept DEF IInv, Sweeping, ClosedHeap, Decided, Ref
  <2>2. CASE phase # "sweep"
    <3>1. phase \in {"run", "mark", "trace"}
      BY <2>2 DEF IInv, TypeOK
    <3>2. Alive = K
      BY <2>2, <3>1, LiveAlive, DisjointAssumption DEF Decided, Alive, Allocated, Ref
    <3>. QED
      BY <3>1, <3>2, LiveAlive DEF ClosedHeap, Alive
  <2>. QED
    BY <2>1, <2>2
<1>2. DOMAIN Edges = Ref /\ DOMAIN Bar = Ref /\ \A n \in K : Bar[n] = Edges[n]
  BY <1>1 DEF Edges, Bar
<1>3. Reach(Bar, MachineRoots \cup Pool) = Reach(Edges, MachineRoots \cup Pool)
  BY <1>1, <1>2, ReachRestrict
<1>4. Promise!Reach(Bar, MachineRoots \cup Pool) = Reach(Bar, MachineRoots \cup Pool)
  BY DEF Promise!Reach, Reach, Promise!Closed, Closed
<1>. QED
  BY <1>3, <1>4 DEF Promise!Live, Live, Bar

\* A step that leaves the machine and what is decided alone is not visible.
LEMMA Stutter ==
  ASSUME MachineRoots' = MachineRoots, Decided' = Decided,
         Decided \cup Pool \subseteq Ref,
         \A r \in Decided \cup Pool : Edges'[r] = Edges[r],
         (phase # "ended")' = (phase # "ended")
  PROVE  UNCHANGED Promise!heapVars
<1>1. Bar' = Bar
  BY DEF Bar
<1>. QED
  BY <1>1 DEF Promise!heapVars, Bar

LEMMA RefineMutate ==
  ASSUME IInv, IInv', Moved \/ Wrote
  PROVE  Promise!Mutate
<1>1. phase = "run" /\ phase' \in {"run", "mark"}
  BY DEF Moved, Wrote
<1>2. Decided = Allocated /\ Decided' = Allocated' /\ Allocated' = Allocated
  BY <1>1 DEF Decided, Allocated, Moved, Wrote, Ref
<1>3. MachineRoots' \subseteq Live
  BY DEF Moved, Wrote
<1>4. \A r \in Ref : Edges'[r] # Edges[r] => r \in Live /\ Edges'[r] \subseteq Live
  BY DEF Moved, Wrote, Edges
<1>5. ASSUME NEW n \in Ref, Bar'[n] # Bar[n]
      PROVE  n \in Live /\ Bar'[n] \subseteq Live
  BY <1>2, <1>4, <1>5 DEF Bar
<1>6. DOMAIN Bar' = Ref
  BY DEF Bar
<1>. QED
  BY <1>1, <1>2, <1>3, <1>5, <1>6, BarLive
  DEF Promise!Mutate, Promise!Node, Bar, Ref

LEMMA RefineAllocate ==
  ASSUME IInv, IInv', NEW c \in Cell, Obtained(c)
  PROVE  Promise!Allocate
<1>1. phase = "run" /\ phase' \in {"run", "mark"}
  BY DEF Obtained
<1>2. c \in Ref /\ c \notin Pool
  BY DisjointAssumption DEF Ref
<1>3. /\ Decided = Allocated
      /\ Decided' = Allocated \cup {c}
      /\ c \in Cell \ Allocated
  BY <1>1, <1>2 DEF Decided, Allocated, Obtained, Ref
<1>4. MachineRoots' \subseteq Live \cup {c} /\ Edges'[c] \subseteq Live
  BY DEF Obtained
<1>5. \A r \in Ref \ {c} : Edges'[r] = Edges[r]
  BY DEF Obtained, Edges
<1>6. Bar'[c] = Edges'[c]
  BY <1>2, <1>3 DEF Bar
<1>7. Bar' = [Bar EXCEPT ![c] = Bar'[c]]
  BY <1>2, <1>3, <1>5 DEF Bar
<1>. QED
  BY <1>1, <1>3, <1>4, <1>6, <1>7, BarLive
  DEF Promise!Allocate, Bar

LEMMA RefineStartSweep ==
  ASSUME IInv, StartSweep
  PROVE  Promise!Collect
<1>1. /\ phase = "trace" /\ phase' = "sweep"
      /\ Edges' = Edges
      /\ MachineRoots' = MachineRoots
  BY DEF StartSweep, machine, Edges, MachineRoots
<1>2. Decided = Allocated /\ Decided' = Allocated \cap Live
  BY <1>1, TypeStep, StartSweepStep DEF Decided, IInv, Next, Collect
<1>3. Bar' = [n \in Ref |-> IF n \in Decided' \cup Pool THEN Bar[n] ELSE {}]
  BY <1>1, <1>2 DEF Bar
<1>. QED
  BY <1>1, <1>2, <1>3, BarLive
  DEF Promise!Collect, Promise!Node, Bar, Ref

LEMMA RefineEnd ==
  ASSUME IInv, end_vm
  PROVE  Promise!Finish
<1>1. phase = "run" /\ phase' = "ended"
  BY DEF end_vm
<1>2. Decided' = {}
  BY <1>1 DEF Decided, IInv, ListExact, end_vm, Allocated, FreeCell, Ref
<1>3. \A r \in Pool : r \in Ref /\ Edges'[r] = {}
  BY DisjointAssumption DEF end_vm, Edges, FreeCell, Elements, Ref
<1>4. Bar' = [n \in Ref |-> {}]
  BY <1>2, <1>3 DEF Bar
<1>5. MachineRoots' = {}
  BY DEF end_vm, MachineRoots, Elements
<1>. QED
  BY <1>1, <1>2, <1>4, <1>5 DEF Promise!Finish, Promise!Node, Bar, Ref

LEMMA RefineCollect ==
  ASSUME IInv, Collect
  PROVE  Promise!Collect \/ UNCHANGED Promise!heapVars
<1>1. TypeOK'
  BY TypeStep DEF IInv, Next
<1>2. Decided \cup Pool \subseteq Ref
  BY LiveKept DEF Decided, Allocated, Ref
<1>3. CASE MarkRoots
  <2>1. MachineRoots' = MachineRoots /\ Edges' = Edges /\ Decided' = Decided
    BY <1>3 DEF MarkRoots, machine, MachineRoots, Edges, Decided, Allocated
  <2>2. (phase # "ended")' = (phase # "ended")
    BY <1>3 DEF MarkRoots
  <2>. QED
    BY <1>2, <2>1, <2>2, Stutter
<1>4. CASE \E r \in Ref : TraceObject(r)
  <2>1. MachineRoots' = MachineRoots /\ Edges' = Edges /\ Decided' = Decided
    BY <1>4 DEF TraceObject, machine, MachineRoots, Edges, Decided, Allocated
  <2>2. (phase # "ended")' = (phase # "ended")
    BY <1>4 DEF TraceObject
  <2>. QED
    BY <1>2, <2>1, <2>2, Stutter
<1>5. CASE StartSweep
  BY <1>5, RefineStartSweep
<1>6. CASE SweepMarked
  <2>1. MachineRoots' = MachineRoots /\ Edges' = Edges
    BY <1>6 DEF SweepMarked, machine, MachineRoots, Edges
  <2>2. Decided' = Decided /\ (phase # "ended")' = (phase # "ended")
    BY <1>1, <1>6, SweepMarkedStep DEF SweepMarked, Decided
  <2>. QED
    BY <1>2, <2>1, <2>2, Stutter
<1>7. CASE SweepUnreferenced
  <2>1. MachineRoots' = MachineRoots
    BY <1>7 DEF SweepUnreferenced, machine, MachineRoots
  <2>2. Decided' = Decided /\ (phase # "ended")' = (phase # "ended")
    BY <1>1, <1>7, SweepUnreferencedStep DEF SweepUnreferenced, Decided
  <2>3. \A r \in Decided \cup Pool : Edges'[r] = Edges[r]
    BY <1>1, <1>7, SweepUnreferencedStep DEF SweepUnreferenced, Decided
  <2>. QED
    BY <1>2, <2>1, <2>2, <2>3, Stutter
<1>8. CASE EndSweep
  <2>1. MachineRoots' = MachineRoots /\ Edges' = Edges
    BY <1>8 DEF EndSweep, machine, MachineRoots, Edges
  <2>2. Decided' = Decided /\ (phase # "ended")' = (phase # "ended")
    BY <1>1, <1>8, EndSweepStep DEF EndSweep, Decided, Allocated
  <2>. QED
    BY <1>2, <2>1, <2>2, Stutter
<1>. QED
  BY <1>3, <1>4, <1>5, <1>6, <1>7, <1>8 DEF Collect

LEMMA RefineInit ==
  ASSUME Init
  PROVE  Promise!Init
<1>1. IInv
  BY InvInit
<1>2. Decided = {}
  <2>1. \A c \in Cell : heap[c] = FreeCell
    BY DisjointAssumption DEF Init, FreeCell, Leaf, Ref, Pool
  <2>. QED
    BY <2>1 DEF Init, Decided, Allocated, FreeCell
<1>3. \A r \in Ref : Edges[r] = {}
  BY DEF Init, Edges, Elements, FreeCell, Leaf
<1>4. Bar = [n \in Ref |-> {}]
  BY <1>3 DEF Bar
<1>5. MachineRoots \subseteq Pool
  BY DEF Init, MachineRoots, Elements, Pool
<1>. QED
  BY <1>2, <1>4, <1>5 DEF Promise!Init, Promise!Node, Bar, Ref, Init

\* The collector keeps its promise to the program: an object disappears only
\* in a collection, and a collection discards exactly what is out of reach
\* (gc.c run_gc, object.c alloc_obj, vm.c).
THEOREM KeepsPromise == Spec => ImplementsPromise
<1>1. ASSUME IInv, IInv', [Next]_vars
      PROVE  [Promise!Next]_(Promise!heapVars)
  <2>1. CASE MoveReference
    BY <1>1, <2>1, MoveLive, RefineMutate DEF IInv, Promise!Next
  <2>2. CASE WriteObject
    BY <1>1, <2>2, WriteLive, RefineMutate DEF IInv, Promise!Next
  <2>3. CASE CreateObject
    BY <1>1, <2>3, CreateLive, RefineAllocate DEF IInv, Promise!Next
  <2>4. CASE Collect
    BY <1>1, <2>4, RefineCollect DEF Promise!Next
  <2>5. CASE end_vm
    BY <1>1, <2>5, RefineEnd DEF Promise!Next
  <2>6. CASE UNCHANGED vars
    BY <2>6 DEF vars, machine, Promise!heapVars, MachineRoots, Decided, Kept, Allocated,
       Edges
  <2>. QED
    BY <1>1, <2>1, <2>2, <2>3, <2>4, <2>5, <2>6 DEF Next, Ended
<1>. QED
  BY <1>1, RefineInit, Inductive, PTL DEF Spec, ImplementsPromise, Promise!Spec
=============================================================================
