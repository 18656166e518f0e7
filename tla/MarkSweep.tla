----------------------------- MODULE MarkSweep -----------------------------
(***************************************************************************)
(* The mark-sweep collector of vm/gc.c over the allocator of object.c,     *)
(* driven by the instructions of vm/vm.c that create objects, write their  *)
(* fields, or move references between the machine's roots.                 *)
(*                                                                         *)
(* The interpreter is one thread: try_gc runs between two instructions and *)
(* run_gc then runs to its end.  The steps of run_gc are kept apart here   *)
(* (mark_roots, one iteration of trace_objects, one iteration of sweep)    *)
(* because what makes them correct holds between those steps.              *)
(*                                                                         *)
(* Data that no property tells apart is abstracted: an object is a type, a *)
(* sequence of fields and one distinguished link; the words of the stack   *)
(* without the pointer tag (return addresses, counts, saved registers),    *)
(* which mark_vm_val skips, are left out; an object counts for one unit of *)
(* memory; the worklist is a set, since the order in which it is popped    *)
(* makes no difference to the marks.                                       *)
(***************************************************************************)
EXTENDS Integers, Sequences, Reachability

CONSTANTS
  Cell,          \* addresses the allocator can hand out
  StaticThunk,   \* thunks of the constant pool
  StaticClosure, \* top-level functions of the constant pool, without captures
  StaticLeaf,    \* other static objects: boxes, strings, types, and the
                 \* handles of the standard streams
  Null,
  InitialHeap,   \* heap_size when the program starts, in objects
  Created,       \* the types of object the program creates
  MaxHeap,       \* bound: heap_size stops doubling here
  MaxStack,      \* bound on the references on the stack
  MaxBindings,   \* bound on the references in the binding stack
  MaxFields      \* bound on the fields of an object

\* Everything in the constant pool; an instruction can name it at any time.
Pool == StaticThunk \cup StaticClosure \cup StaticLeaf
Ref == Cell \cup Pool
Maybe == Ref \cup {Null}

ASSUME DisjointAssumption ==
  /\ Cell \cap Pool = {}
  /\ StaticThunk \cap (StaticClosure \cup StaticLeaf) = {}
  /\ StaticClosure \cap StaticLeaf = {}
  /\ Null \notin Ref

ASSUME BoundAssumption ==
  /\ InitialHeap \in Nat
  /\ MaxHeap \in Nat
  /\ MaxFields \in Nat
  /\ Created \subseteq {"leaf", "data", "closure", "thunk", "application"}

VARIABLES
  heap,              \* the object at each address
  most_recent_alloc, \* the list of allocated objects, most recent first
  marked,            \* the objects whose gc_marked flag is set
  stack,             \* the tagged words of vm.stack, bottom first
  bindings,          \* vm.bindings, bottom first
  reg_1,             \* vm.registers[REG_1]
  exception_reg,     \* vm.registers[EXCEPTION_REG]
  allocated_memory,  \* objects allocated since the last collection
  heap_size,         \* the threshold of try_gc
  phase,             \* what the interpreter is doing
  worklist,          \* gc.c worklist
  current            \* position of the sweep in most_recent_alloc

machine == <<stack, bindings, reg_1, exception_reg>>
vars == <<heap, most_recent_alloc, marked, machine, allocated_memory,
          heap_size, phase, worklist, current>>

\* Types with the same treatment by process_obj share a name: "leaf" is a
\* box, array, file handle or runtime type; "data" is a cons, slice or object.
Type == {"free", "leaf", "data", "closure", "thunk", "application"}

\* fields: what obj_dyn_fields returns, or l and r of a cons, or the array of
\* a slice.  link: thunk->evaluated or application->closure.
Object ==
  [type : Type \ {"application"}, fields : Seq(Maybe), link : Maybe]
    \cup [type : {"application"}, fields : Seq(Ref), link : Ref]

FreeCell == [type |-> "free", fields |-> <<>>, link |-> Null]
Leaf == [type |-> "leaf", fields |-> <<>>, link |-> Null]

Elements(s) == { s[i] : i \in DOMAIN s }
Top(s) == s[Len(s)]
PopN(s, n) == SubSeq(s, 1, Len(s) - n)

Alive == { r \in Ref : heap[r].type # "free" }
Allocated == { c \in Cell : heap[c].type # "free" }

(***************************************************************************)
(* What the collector considers: the children process_obj marks and the    *)
(* roots mark_roots marks.                                                 *)
(***************************************************************************)
\* Mutant: the closure an application applies, or the value of a thunk, is not marked.
ChildrenOf_NoLink(o) == Elements(o.fields) \ {Null}

ChildrenOf(o) == (Elements(o.fields) \cup {o.link}) \ {Null}
process_obj(r) == ChildrenOf(heap[r])

\* Mutant: the values of the static thunks are not roots.
mark_roots_NoStatics ==
  (Elements(stack) \cup Elements(bindings) \cup {reg_1, exception_reg}) \ {Null}
\* Mutant: the registers are not roots.
mark_roots_NoRegisters ==
  (Elements(stack) \cup Elements(bindings) \cup { heap[t].link : t \in StaticThunk }) \ {Null}

mark_roots ==
  (Elements(stack) \cup Elements(bindings) \cup { heap[t].link : t \in StaticThunk }
     \cup {reg_1, exception_reg}) \ {Null}

(***************************************************************************)
(* What the program can use, independently of how the collector looks for  *)
(* it: whatever a chain of fields reaches from a word of the machine or    *)
(* from the constant pool, any object of which an instruction can name.    *)
(***************************************************************************)
Edges == [r \in Ref |-> (Elements(heap[r].fields) \cup {heap[r].link}) \ {Null}]
MachineRoots ==
  (Elements(stack) \cup Elements(bindings) \cup {reg_1, exception_reg}) \ {Null}
Live == Reach(Edges, MachineRoots \cup Pool)

-----------------------------------------------------------------------------
Init ==
  /\ heap = [r \in Ref |-> CASE r \in Cell -> FreeCell
                             [] r \in StaticThunk -> [Leaf EXCEPT !.type = "thunk"]
                             [] r \in StaticClosure -> [Leaf EXCEPT !.type = "closure"]
                             [] OTHER -> Leaf]
  /\ most_recent_alloc = <<>>
  /\ marked = {}
  /\ stack = <<>>
  /\ bindings = <<>>
  /\ reg_1 = Null
  /\ exception_reg \in StaticLeaf
  /\ allocated_memory = 0
  /\ heap_size = InitialHeap
  /\ phase = "run"
  /\ worklist = {}
  /\ current = 1

\* The test at the end of every instruction; gc is what comes next if it holds.
try_gc == phase' = IF allocated_memory' > heap_size THEN "mark" ELSE "run"

\* An instruction that allocates nothing.
Instruction ==
  /\ phase = "run"
  /\ UNCHANGED <<most_recent_alloc, marked, allocated_memory, heap_size,
                 worklist, current>>
  /\ try_gc

\* An instruction that creates object o: alloc_obj zeroes it and puts it at the
\* head of the list.  The instruction then stores the operands it popped.
alloc_obj(c, o) ==
  /\ phase = "run"
  /\ o.type \in Created
  /\ heap[c].type = "free"
  /\ heap' = [heap EXCEPT ![c] = o]
  /\ most_recent_alloc' = <<c>> \o most_recent_alloc
  /\ allocated_memory' = allocated_memory + 1
  /\ try_gc
  /\ UNCHANGED <<marked, heap_size, worklist, current>>

\* Words popped by a loop, the top of the stack first.
PoppedArgs(s, n) == [i \in 1..n |-> s[Len(s) - i + 1]]
\* Words popped by a loop into fields counted downwards.
PoppedCaptures(s, n) == SubSeq(s, Len(s) - n + 1, Len(s))

-----------------------------------------------------------------------------
(***************************************************************************)
(* Instructions that move references.                                      *)
(***************************************************************************)
push_const(r) ==   \* OP_PUSH_CONST, OP_TRUE, OP_FALSE
  /\ Instruction
  /\ Len(stack) < MaxStack
  /\ stack' = Append(stack, r)
  /\ UNCHANGED <<heap, bindings, reg_1, exception_reg>>

push_reg_stack ==   \* OP_PUSH_REG_STACK REG_1, EXCEPTION_REG
  /\ Instruction
  /\ Len(stack) < MaxStack
  /\ \E r \in {reg_1, exception_reg} \ {Null} : stack' = Append(stack, r)
  /\ UNCHANGED <<heap, bindings, reg_1, exception_reg>>

transfer_stack_reg ==   \* OP_TRANSFER_STACK_REG
  /\ Instruction
  /\ stack # <<>>
  /\ stack' = PopN(stack, 1)
  /\ \/ reg_1' = Top(stack) /\ UNCHANGED exception_reg
     \/ exception_reg' = Top(stack) /\ UNCHANGED reg_1
  /\ UNCHANGED <<heap, bindings>>

pop_u64 ==   \* OP_POP_U64, and every test that consumes its operand
  /\ Instruction
  /\ stack # <<>>
  /\ stack' = PopN(stack, 1)
  /\ UNCHANGED <<heap, bindings, reg_1, exception_reg>>

create_binding ==
  /\ Instruction
  /\ stack # <<>>
  /\ Len(bindings) < MaxBindings
  /\ stack' = PopN(stack, 1)
  /\ bindings' = Append(bindings, Top(stack))
  /\ UNCHANGED <<heap, reg_1, exception_reg>>

read_binding ==
  /\ Instruction
  /\ Len(stack) < MaxStack
  /\ \E i \in DOMAIN bindings : stack' = Append(stack, bindings[i])
  /\ UNCHANGED <<heap, bindings, reg_1, exception_reg>>

remove_bindings ==   \* OP_REMOVE_BINDING(S), or BINDING_PTR restored by a case
  /\ Instruction
  /\ \E n \in 1..Len(bindings) : bindings' = PopN(bindings, n)
  /\ UNCHANGED <<heap, stack, reg_1, exception_reg>>

read_field ==   \* OP_HEAD, OP_TAIL, OP_DYN_OBJ_READ
  /\ Instruction
  /\ stack # <<>>
  /\ \E i \in DOMAIN heap[Top(stack)].fields :
       LET value == heap[Top(stack)].fields[i]
       IN  value # Null /\ stack' = Append(PopN(stack, 1), value)
  /\ UNCHANGED <<heap, bindings, reg_1, exception_reg>>

-----------------------------------------------------------------------------
(***************************************************************************)
(* Instructions that allocate.                                             *)
(***************************************************************************)
create_box(c) ==   \* the arithmetic instructions: two operands, a new box
  /\ Len(stack) >= 2
  /\ stack' = Append(PopN(stack, 2), c)
  /\ alloc_obj(c, Leaf)
  /\ UNCHANGED <<bindings, reg_1, exception_reg>>

create_cons(c) ==   \* l is on top, r below it
  /\ Len(stack) >= 2
  /\ stack' = Append(PopN(stack, 2), c)
  /\ alloc_obj(c, [type |-> "data", fields |-> PoppedArgs(stack, 2), link |-> Null])
  /\ UNCHANGED <<bindings, reg_1, exception_reg>>

create_object(c) ==   \* the arguments are the most recent bindings
  /\ Len(stack) < MaxStack
  /\ \E n \in 0..Len(bindings) :
       alloc_obj(c, [type |-> "data", fields |-> PoppedCaptures(bindings, n), link |-> Null])
  /\ stack' = Append(stack, c)
  /\ UNCHANGED <<bindings, reg_1, exception_reg>>

create_dyn(c) ==   \* OP_CREATE_CLOSURE, OP_CREATE_THUNK: captures still null
  /\ Len(stack) < MaxStack
  /\ \E type \in {"closure", "thunk"}, n \in 0..MaxFields :
       alloc_obj(c, [type |-> type, fields |-> [i \in 1..n |-> Null], link |-> Null])
  /\ stack' = Append(stack, c)
  /\ UNCHANGED <<bindings, reg_1, exception_reg>>

write_dyn ==   \* OP_WRITE_CLOSURE, OP_WRITE_THUNK: [..captures, obj] -> [obj]
  /\ Instruction
  /\ stack # <<>>
  /\ LET obj == Top(stack)
         n == Len(heap[obj].fields)
     IN  /\ heap[obj].type \in {"closure", "thunk"}
         /\ Len(stack) > n
         /\ heap' = [heap EXCEPT ![obj].fields = PoppedCaptures(PopN(stack, 1), n)]
         /\ stack' = Append(PopN(stack, n + 1), obj)
  /\ UNCHANGED <<bindings, reg_1, exception_reg>>

\* OP_PARTIAL_APPLY: [..args, f] -> [application].  The arguments f already
\* holds come first; the closure is f itself or the closure f applies.
partial_apply(c) ==
  /\ stack # <<>>
  /\ LET f == heap[Top(stack)]
         extra == IF f.type = "application" THEN f.fields ELSE <<>>
     IN  /\ f.type \in {"closure", "application"}
         /\ \E n \in 0..(Len(stack) - 1) :
              /\ Len(extra) + n <= MaxFields
              /\ alloc_obj(c, [type |-> "application",
                               fields |-> extra \o PoppedArgs(PopN(stack, 1), n),
                               link |-> IF f.type = "application" THEN f.link
                                                                  ELSE Top(stack)])
              /\ stack' = Append(PopN(stack, n + 1), c)
  /\ UNCHANGED <<bindings, reg_1, exception_reg>>

-----------------------------------------------------------------------------
(***************************************************************************)
(* OP_EVAL on a thunk and on a saturated application, and the update that  *)
(* ends the evaluation of a thunk.                                         *)
(***************************************************************************)
\* Mutant: the thunk is taken for evaluated.
eval_thunk_Unchecked ==
  /\ Instruction
  /\ stack # <<>>
  /\ heap[Top(stack)].type = "thunk"
  /\ stack' = Append(PopN(stack, 1), heap[Top(stack)].link)
  /\ UNCHANGED <<heap, bindings, reg_1, exception_reg>>

eval_thunk ==
  /\ Instruction
  /\ stack # <<>>
  /\ heap[Top(stack)].type = "thunk"
  /\ IF heap[Top(stack)].link # Null
       THEN /\ stack' = Append(PopN(stack, 1), heap[Top(stack)].link)
            /\ UNCHANGED reg_1
       ELSE /\ reg_1' = Top(stack)
            /\ UNCHANGED stack
  /\ UNCHANGED <<heap, bindings, exception_reg>>

eval_application ==   \* exact_arg_call, jump_to_closure
  /\ Instruction
  /\ stack # <<>>
  /\ LET application == heap[Top(stack)]
     IN  /\ application.type = "application"
         /\ Len(stack) - 1 + Len(application.fields) <= MaxStack
         /\ stack' = PopN(stack, 1) \o PoppedArgs(application.fields, Len(application.fields))
         /\ reg_1' = application.link
  /\ UNCHANGED <<heap, bindings, exception_reg>>

update_thunk ==   \* [thunk, evaluated] -> [evaluated]
  /\ Instruction
  /\ Len(stack) >= 2
  /\ LET evaluated == Top(stack)
         thunk == stack[Len(stack) - 1]
     IN  /\ heap[thunk].type = "thunk"
         /\ heap[evaluated].type # "thunk"
         /\ heap' = [heap EXCEPT ![thunk].link = evaluated]
         /\ stack' = Append(PopN(stack, 2), evaluated)
  /\ UNCHANGED <<bindings, reg_1, exception_reg>>

-----------------------------------------------------------------------------
(***************************************************************************)
(* The collection.                                                         *)
(***************************************************************************)
\* mark_obj on each member of S: set the flag and push what was not marked.
mark_obj(S) ==
  /\ marked' = marked \cup S
  /\ worklist' = worklist \cup (S \ marked)

MarkRoots ==
  /\ phase = "mark"
  /\ mark_obj(mark_roots)
  /\ phase' = "trace"
  /\ UNCHANGED <<heap, most_recent_alloc, machine, allocated_memory, heap_size, current>>

\* Mutant: children that are already marked are pushed again.
TraceObject_Again(r) ==
  /\ phase = "trace"
  /\ r \in worklist
  /\ marked' = marked \cup process_obj(r)
  /\ worklist' = (worklist \ {r}) \cup process_obj(r)
  /\ UNCHANGED <<heap, most_recent_alloc, machine, allocated_memory, heap_size,
                 phase, current>>

\* One iteration of trace_objects.  The object leaves the worklist before its
\* children are pushed, and is itself marked, so it does not come back.
TraceObject(r) ==
  /\ phase = "trace"
  /\ r \in worklist
  /\ marked' = marked \cup process_obj(r)
  /\ worklist' = (worklist \ {r}) \cup (process_obj(r) \ marked)
  /\ UNCHANGED <<heap, most_recent_alloc, machine, allocated_memory, heap_size,
                 phase, current>>

StartSweep ==
  /\ phase = "trace"
  /\ worklist = {}
  /\ phase' = "sweep"
  /\ current' = 1
  /\ UNCHANGED <<heap, most_recent_alloc, marked, machine, allocated_memory,
                 heap_size, worklist>>

\* Mutant: the element after i is dropped.
Unlink_Next(list, i) ==
  [j \in 1..(Len(list) - 1) |-> IF j <= i THEN list[j] ELSE list[j + 1]]

\* The list without its element i: prev->next, or the head, skips it.
Unlink(list, i) ==
  [j \in 1..(Len(list) - 1) |-> IF j < i THEN list[j] ELSE list[j + 1]]

\* Mutant: the flag stays set.
SweepMarked_KeepsFlag ==
  /\ phase = "sweep"
  /\ current <= Len(most_recent_alloc)
  /\ most_recent_alloc[current] \in marked
  /\ current' = current + 1
  /\ UNCHANGED <<heap, most_recent_alloc, marked, machine, allocated_memory, heap_size,
                 phase, worklist>>

SweepMarked ==
  /\ phase = "sweep"
  /\ current <= Len(most_recent_alloc)
  /\ most_recent_alloc[current] \in marked
  /\ marked' = marked \ {most_recent_alloc[current]}
  /\ current' = current + 1
  /\ UNCHANGED <<heap, most_recent_alloc, machine, allocated_memory, heap_size,
                 phase, worklist>>

\* Mutant: the object after the one freed is skipped.
SweepUnreferenced_Skips ==
  /\ phase = "sweep"
  /\ current <= Len(most_recent_alloc)
  /\ most_recent_alloc[current] \notin marked
  /\ most_recent_alloc' = Unlink(most_recent_alloc, current)
  /\ heap' = [heap EXCEPT ![most_recent_alloc[current]] = FreeCell]
  /\ current' = current + 1
  /\ UNCHANGED <<marked, machine, allocated_memory, heap_size, phase, worklist>>

SweepUnreferenced ==
  /\ phase = "sweep"
  /\ current <= Len(most_recent_alloc)
  /\ most_recent_alloc[current] \notin marked
  /\ most_recent_alloc' = Unlink(most_recent_alloc, current)
  /\ heap' = [heap EXCEPT ![most_recent_alloc[current]] = FreeCell]
  /\ UNCHANGED <<marked, machine, allocated_memory, heap_size, phase, worklist,
                 current>>

\* run_gc returns to try_gc, which doubles the threshold.
EndSweep ==
  /\ phase = "sweep"
  /\ current > Len(most_recent_alloc)
  /\ phase' = "run"
  /\ heap_size' = IF 2 * heap_size > MaxHeap THEN MaxHeap ELSE 2 * heap_size
  /\ allocated_memory' = 0
  /\ current' = 1
  /\ UNCHANGED <<heap, most_recent_alloc, marked, machine, worklist>>

\* OP_END or a runtime error: end_vm frees the constants, the stacks and,
\* in free_objects, every object of the list.
end_vm ==
  /\ phase = "run"
  /\ phase' = "ended"
  /\ heap' = [r \in Ref |-> IF r \in Cell \ Elements(most_recent_alloc)
                              THEN heap[r] ELSE FreeCell]
  /\ most_recent_alloc' = <<>>
  /\ stack' = <<>>
  /\ bindings' = <<>>
  /\ reg_1' = Null
  /\ exception_reg' = Null
  /\ current' = 1
  /\ UNCHANGED <<marked, allocated_memory, heap_size, worklist>>

Ended == phase = "ended" /\ UNCHANGED vars

Collect ==
  \/ MarkRoots
  \/ \E r \in Ref : TraceObject(r)
  \/ StartSweep
  \/ SweepMarked
  \/ SweepUnreferenced
  \/ EndSweep

MoveReference ==
  \/ \E r \in Pool : push_const(r)
  \/ push_reg_stack
  \/ transfer_stack_reg
  \/ pop_u64
  \/ create_binding
  \/ read_binding
  \/ remove_bindings
  \/ read_field
  \/ eval_thunk
  \/ eval_application

WriteObject == write_dyn \/ update_thunk

CreateObject ==
  \E c \in Cell :
    create_box(c) \/ create_cons(c) \/ create_object(c) \/ create_dyn(c) \/ partial_apply(c)

Next == MoveReference \/ WriteObject \/ CreateObject \/ Collect \/ end_vm \/ Ended

Spec == Init /\ [][Next]_vars

\* run_gc is straight-line code between two instructions: it runs to its end.
FairSpec == Spec /\ WF_vars(Collect)

-----------------------------------------------------------------------------
TypeOK ==
  /\ heap \in [Ref -> Object]
  /\ most_recent_alloc \in Seq(Cell)
  /\ marked \subseteq Ref
  /\ stack \in Seq(Ref)
  /\ bindings \in Seq(Ref)
  /\ reg_1 \in Maybe
  /\ exception_reg \in Maybe
  /\ allocated_memory \in Nat
  /\ heap_size \in Nat
  /\ phase \in {"run", "mark", "trace", "sweep", "ended"}
  /\ worklist \subseteq Ref
  /\ current \in 1..(Len(most_recent_alloc) + 1)

\* The program never holds a dangling reference: everything it can reach from
\* the stack, the bindings, the registers and the constant pool exists (gc.c
\* mark_roots, process_obj, sweep).
NoDangling == phase # "ended" => Live \subseteq Alive

\* Every object the allocator handed out and did not free is on the list
\* exactly once; otherwise it is never freed, or freed twice (object.c
\* alloc_obj, gc.c sweep).
ListExact ==
  /\ Elements(most_recent_alloc) = Allocated
  /\ \A i, j \in DOMAIN most_recent_alloc :
       most_recent_alloc[i] = most_recent_alloc[j] => i = j

\* The objects a sweep in progress keeps: those it passed and those it will
\* find marked.
Kept == { most_recent_alloc[i] : i \in 1..(current - 1) }
          \cup { c \in Elements(most_recent_alloc) : c \in marked }

(***************************************************************************)
(* Why it works.  Pool objects are not on the list, so their flag, once    *)
(* set, stays set for good, and no later collection looks at their fields  *)
(* again: what keeps the value of a static thunk is mark_roots.            *)
(***************************************************************************)
PoolIntact ==
  phase # "ended" =>
    \A r \in Pool : /\ heap[r].type # "free"
                    /\ heap[r].fields = <<>>
                    /\ r \notin StaticThunk => heap[r].link = Null /\ heap[r].type # "thunk"

ClosedHeap(K) == MachineRoots \subseteq K /\ Closed(Edges, K)

Quiet ==
  phase \in {"run", "mark"} =>
    /\ ClosedHeap(Alive)
    /\ marked \cap Cell = {}
    /\ worklist = {}

Tracing ==
  phase = "trace" =>
    /\ ClosedHeap(Alive)
    /\ mark_roots \subseteq marked
    /\ marked \subseteq Alive
    /\ worklist \subseteq marked
    /\ \A r \in marked \ worklist : Edges[r] \subseteq marked
    /\ marked \cap Cell \subseteq Live

Sweeping ==
  phase = "sweep" =>
    /\ ClosedHeap(Kept \cup Pool)
    /\ \A i \in 1..(current - 1) : most_recent_alloc[i] \notin marked
    /\ marked \cap Cell \subseteq Elements(most_recent_alloc)
    /\ Kept \subseteq Live
    /\ worklist = {}

\* The inductive invariant: outside a sweep the existing objects are closed
\* under their fields, tracing leaves no marked object with an unmarked child
\* outside the worklist, and what a sweep will keep is closed at each step
\* (gc.c mark_roots, trace_objects, sweep).
IInv == TypeOK /\ ListExact /\ PoolIntact /\ Quiet /\ Tracing /\ Sweeping

\* A collection is exact: when it returns, the objects that exist are those
\* the program can reach, no more (gc.c run_gc).
ExactCollection ==
  [][phase = "sweep" /\ phase' = "run" => Allocated' = Live' \cap Cell]_vars

\* run_gc returns: an object is pushed on the worklist once per collection,
\* even when the heap is cyclic (gc.c mark_obj, trace_objects).
CollectionEnds == phase = "mark" ~> phase = "run"

\* What the interpreter relies on (HeapSpec): the discarded objects are
\* decided at once, when tracing ends; freeing them one by one is not visible.
Decided == IF phase = "sweep" THEN Kept ELSE Allocated

Promise ==
  INSTANCE HeapSpec WITH
    alive   <- Decided,
    edge    <- [r \in Ref |-> IF r \in Decided \cup Pool THEN Edges[r] ELSE {}],
    root    <- MachineRoots,
    running <- phase # "ended"

ImplementsPromise == Promise!Spec
=============================================================================
