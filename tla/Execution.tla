----------------------------- MODULE Execution -----------------------------
(***************************************************************************)
(* A compiler run and the execution of its output: programs are compiled,  *)
(* the machine of Machine runs the chunks, and its results are compared    *)
(* with what the programs mean.                                            *)
(***************************************************************************)
EXTENDS Machine, BytecodeFile, FiniteSets

\* The final state of the code generator, prepared to be executed; meaning is the
\* Value of the program.
Executable(generated, meaning, outside_world) ==
  [chunk |-> image(generated), compiled |-> ~generated.error, world |-> outside_world,
   source |-> [meaning |-> meaning,
               variant_count |-> generated.variant_count,
               variant |-> [x \in DOMAIN generated.globals |-> generated.globals[x].variant_index]]]

\* The code generator produces lists, beginning with the constants of every chunk,
\* and the built-in functions lie behind its code.
IsProgram(c) ==
  /\ IsList(c.code) /\ IsList(c.constants) /\ IsList(c.closures)
  /\ BeginsWith(c.constants, BuiltinConstants)
  /\ c.global_function_start \in 0..Len(c.code)
ASSUME ProgramsAssumption == \A p \in DOMAIN Programs : IsProgram(Programs[p].chunk)

\* A program is executed when it compiled without errors.
Init == run_vm
Next == Step \/ Stopped
Spec == Init /\ [][Next]_vm_vars
\* run_interpreter loops until END or an error.
FairSpec == Spec /\ WF_vm_vars(Step)

-----------------------------------------------------------------------------
(***************************************************************************)
(* Words of the stack are numbers or references to objects, bindings and   *)
(* the links and fields of objects refer to objects of the heap.           *)
(***************************************************************************)
TypeOK ==
  /\ status \in {"running", "ok", "error", "fault"}
  /\ ip \in Nat
  /\ \A n \in DOMAIN stack : stack[n].tag => stack[n].n \in DOMAIN heap
  /\ \A n \in DOMAIN bindings : bindings[n] \in DOMAIN heap
  /\ \A i \in DOMAIN heap :
       /\ heap[i].link \in {0} \cup DOMAIN heap
       /\ \A n \in DOMAIN heap[i].fields : heap[i].fields[n] \in {0} \cup DOMAIN heap

\* Generated code never reaches a panic of the machine: every instruction finds
\* its operands, reads bindings and captures that exist, and is an instruction
\* rather than the inside of one (pop_val, utils.c; the panics of vm.c).
NoFault ==
  /\ status # "fault"
  /\ status = "running" => Ready

\* Calls, case branches, let expressions and continuations leave the stacks as
\* they found them: when the machine ends there is the result and nothing else.
Balanced == status = "ok" => Len(stack) = 1 /\ bindings = <<>>

\* Every address a jump can reach is the beginning of an instruction, and no
\* constant or variant was left for later: the remapping queue was emptied.
Linked ==
  LET code == chunk.code
      Starts(address) == code[address + 1].op # "operand"
      Follows(address) == address + 1 + OperandSize(code[address + 1].op)
  IN  /\ \A i \in DOMAIN code :
           LET c == code[i]
           IN  CASE c.op \in {"JUMP_REL", "JUMP_REL_CONDITIONAL"} ->
                      /\ Follows(i - 1) + c.arg \in 0..(Len(code) - 1)
                      /\ Starts(Follows(i - 1) + c.arg)
                 [] c.op = "PUSH_CONST" -> c.arg \in DOMAIN chunk.constants
                 [] c.op = "IS_VARIANT" -> c.arg \in 0..(source.variant_count - 1)
                 [] OTHER -> TRUE
      /\ \A n \in DOMAIN chunk.closures : Starts(chunk.closures[n].address)

\* A program that is saved and loaded is the program: whatever types and strings it
\* has, the chunk survives in a file, and of a file that was not written to its end
\* nothing is executed (write_chunk_to, chunk_from).
Tables == { <<>>, << <<"t">> >>, << <<"t">>, <<"t", "u">> >> }
Texts == { <<>>, <<"a", "b">> }
ToBeSaved(types, strings) ==
  [code |-> SubSeq(chunk.code, 1, chunk.global_function_start), constants |-> chunk.constants,
   closures |-> chunk.closures, types |-> BuiltinTypes \o types, strings |-> strings]
LoadsWhatWasSaved ==
  ip = 0 /\ stack = <<>> =>
    \A types \in Tables, strings \in Texts : Survives(ToBeSaved(types, strings))

\* Call by need: a thunk is evaluated once, its value is never replaced, and a
\* pending evaluation of it is unique (eval_thunk, OP_UPDATE_THUNK).
Pending(i) ==
  { n \in 1..(Len(stack) - 1) :
      stack[n] = Val(i) /\ stack[n + 1] = Raw(address_of_global("UPDATE_THUNK")) }
OneEvaluation ==
  \A i \in { i \in DOMAIN heap : heap[i].type = "thunk" } :
    Cardinality(Pending(i)) <= (IF heap[i].link = 0 THEN 1 ELSE 0)

\* Every program that means something comes to an end.
Terminates == <>(status \in {"ok", "error"})

-----------------------------------------------------------------------------
(***************************************************************************)
(* Statements of the source that the machine does not meet.                *)
(***************************************************************************)
\* bytecode.h on OP_DIVIDE: `l` is expected at the top of the stack and `r` below.
DivideAsDocumented ==
  [][ Op("DIVIDE") /\ status' = "running" =>
        heap'[stack'[Len(stack')].n].n = Quotient(Obj(0).n, Obj(1).n) ]_vm_vars

\* vm.h: the stack pointer is the index of the next free slot of the stack, so
\* everything below it lies within the stack's capacity.
StackFits == Len(stack) <= stack_len

\* "not a boolean" (OP_JUMP_REL_CONDITIONAL) is reported of conditions that have
\* no truth value.
NotABoolean ==
  status = "error" /\ op = "JUMP_REL_CONDITIONAL" => source.meaning.kind = "error"
=============================================================================
