------------------------------ MODULE HeapUse ------------------------------
(***************************************************************************)
(* What the instructions of Machine do with the heap, for the collector    *)
(* that Machine leaves out: they are the program that HeapSpec speaks of,  *)
(* whose promise MarkSweep keeps.  An object no reference leads to is      *)
(* never seen again, so that it makes no difference when it is discarded.  *)
(***************************************************************************)
EXTENDS Layouts

\* The references process_obj follows from an object (gc.c).
Children(object) ==
  ({ object.fields[n] : n \in DOMAIN object.fields } \cup {object.link}) \ {0}
WithChildren(refs) == refs \cup UNION { Children(heap[i]) : i \in refs }

\* The references mark_roots looks for: the tagged words of the stack and the registers,
\* the bindings; and the constants, which an instruction can name at any time.
RefsOf(words) == { w.n : w \in { v \in words : v.tag } }
MarkedRoots ==
  RefsOf({ stack[n] : n \in DOMAIN stack } \cup {reg_1, exception_reg})
    \cup { bindings[n] : n \in DOMAIN bindings }
Held == MarkedRoots \cup DOMAIN chunk.constants

\* No instruction follows more than two references: those of an application behind an
\* evaluated thunk are the farthest.
Found == WithChildren(WithChildren(Held))

\* Only thunks are updated, and what has no fields gets none.
IsRewritten(object, later) ==
  /\ later.type = object.type
  /\ later.link # object.link => object.type = "thunk"
  /\ object.fields = <<>> => later.fields = <<>>

\* What an instruction leaves on the stacks, in the registers and in the objects it writes
\* was found behind the roots, or is the one object it makes.
Uses ==
  LET made == DOMAIN heap' \ DOMAIN heap
  IN  /\ Held' \subseteq Found \cup made
      /\ \A i \in DOMAIN heap : heap'[i] # heap[i] =>
           i \in Found /\ Children(heap'[i]) \subseteq Found /\ IsRewritten(heap[i], heap'[i])
      /\ \A i \in made : Children(heap'[i]) \subseteq Found
      /\ DOMAIN heap \subseteq DOMAIN heap'
      /\ \A i \in made : made = {i} /\ \A j \in DOMAIN heap : heap'[j] = heap[j]

\* An instruction keeps no reference to an object that no reference led to, writes to no
\* such object, takes no number for a reference and uses no capture that is not written yet;
\* and it makes one object or writes to one, never both.
OnlyReachable == [][Uses]_vm_vars

\* The constants have no fields, and only static thunks among them refer to anything: the
\* flag of a constant is never cleared, as no sweep meets it, so that process_obj looks at it
\* in one collection at most.  mark_roots marks the values of static thunks for that reason.
ConstantsBare ==
  \A i \in DOMAIN chunk.constants :
    heap[i].fields = <<>> /\ (heap[i].link # 0 => heap[i].type = "thunk")
=============================================================================
