------------------------------ MODULE Machine ------------------------------
(***************************************************************************)
(* The virtual machine: the instructions of vm/vm.c with eval_val.c and    *)
(* function_call.c, one action per instruction.                            *)
(*                                                                         *)
(* A word of the stack carries the pointer tag: Val(i) is a reference to   *)
(* object i, Raw(n) a number (an address, a count, a saved register).  The *)
(* heap is a sequence: the constants of the chunk, then the objects in the *)
(* order of their allocation; collecting them is the subject of MarkSweep. *)
(* An object has a type, a number n (the value of a box, the closure info  *)
(* of a function or thunk, the variant of an object), its fields, and one  *)
(* link (thunk->evaluated, application->closure), 0 for null.              *)
(*                                                                         *)
(* run_vm loads the chunk of a program, a result of Codegen, and executes  *)
(* it.                                                                     *)
(***************************************************************************)
EXTENDS Integers, SequencesExt, Bytecode, Streams

CONSTANTS
  Programs,   \* a sequence of programs: the chunk, whether it compiled, the
              \* world it is executed in and, for what is said of the execution,
              \* its source, which no instruction reads
  StackSizes, \* STACK_SIZE, the initial capacity of the stack
  MaxHeap     \* bound on the objects of the heap

VARIABLES
  program,     \* the program of vm.code
  status,      \* "running"; "ok" after END; "error" after runtime_error;
               \* "fault" where the C code panics or leaves its defined behaviour
  ip,          \* registers[INSTRUCTION_PTR]
  stack,       \* vm.stack up to registers[STACK_PTR]
  stack_len,   \* the capacity of vm.stack
  bindings,    \* vm.bindings up to registers[BINDING_PTR]
  reg_1,       \* registers[REG_1]
  heap,
  exception_reg,   \* registers[EXCEPTION_REG]
  world        \* the files and streams outside of the machine

outside == <<exception_reg, world>>
vm_vars == <<program, status, ip, stack, stack_len, bindings, reg_1, heap, outside>>

\* vm.code: the instructions, constants and closure infos of the program, and
\* after its code the built-in functions.
image(generated) ==
  [code |-> generated.code \o GlobalCode, global_function_start |-> Len(generated.code),
   closures |-> generated.closures, constants |-> generated.constants]
chunk == Programs[program].chunk
source == Programs[program].source
At(address) == chunk.code[address + 1]
address_of_global(f) == chunk.global_function_start + Offset[f]

Val(i) == [tag |-> TRUE, n |-> i]
Raw(n) == [tag |-> FALSE, n |-> n]
Vals(refs) == [i \in DOMAIN refs |-> Val(refs[i])]

Object(type, n, fields, link, whnf) ==
  [type |-> type, n |-> n, fields |-> fields, link |-> link, whnf |-> whnf]
BoxTypes == {"int", "bool", "unit"}
UNIT_BOX == 1
TRUE_BOX == 2
FALSE_BOX == 3
Box(condition) == Val(IF condition THEN TRUE_BOX ELSE FALSE_BOX)

info(i) == chunk.closures[heap[i].n]
Nulls(n) == [i \in 1..n |-> 0]
Drop(s, n) == SubSeq(s, 1, Len(s) - n)
\* The word n below the top of the stack, and the object it refers to.
Word(n) == stack[Len(stack) - n]
Ref(n) == Word(n).n
Obj(n) == heap[Ref(n)]

-----------------------------------------------------------------------------
run_vm ==
  /\ program \in DOMAIN Programs
  /\ Programs[program].compiled
  /\ status = "running"
  /\ ip = 0
  /\ stack = <<>>
  /\ stack_len \in StackSizes
  /\ bindings = <<>>
  /\ reg_1 = Raw(0)
  /\ exception_reg = Val(UNIT_BOX)
  /\ world = Programs[program].world
  /\ heap = [i \in DOMAIN chunk.constants |->
               LET c == chunk.constants[i]
               IN  Object(c.type, c.n, <<>>, 0, c.type \in BoxTypes)]

\* The words pop_val takes from the top of the stack, and those read untagged.
Operands(op) ==
  CASE op \in {"CREATE_CONS", "ADD", "SUBTRACT", "MULTIPLY", "DIVIDE", "LESS", "GREATER", "EQUAL",
               "UPDATE_THUNK"} -> 2
    [] op \in {"JUMP_REL_CONDITIONAL", "EVAL", "OBJECT_READ", "WRITE_CLOSURE", "WRITE_THUNK",
               "HANDLE_CONTINUATION", "PARTIAL_APPLY", "NOT", "NEGATE", "IS_CONS", "IS_OBJ",
               "IS_INT", "IS_BOOL", "IS_UNIT", "IS_VARIANT", "HEAD", "TAIL"} -> 1
    [] OTHER -> 0
\* The words an extern function pops.
ExternOperands(function) ==
  CASE function \in {"OPEN_FILE", "WRITE"} -> 2
    [] function \in {"CLOSE_FILE", "STREAM_ERRORS", "READ_CONTENTS", "READ_LINE"} -> 1
    [] OTHER -> 0
RawOperands(op) ==
  CASE op = "SWAP" -> 2
    [] op \in {"TRANSFER_STACK_REG", "COPY_STACK_REG", "COPY", "POP_U64", "U64_ADD",
               "CREATE_BINDING", "JUMP", "HANDLE_CONTINUATION"} -> 1
    [] OTHER -> 0

op == At(ip).op
arg == At(ip).arg
next == ip + 1 + OperandSize(op)

\* The instruction finds the operands it expects, within the code.
WithinCode == ip \in 0..(Len(chunk.code) - 1)
FindsOperands ==
  LET popped == IF op = "CALL_EXTERN" THEN ExternOperands(arg) ELSE Operands(op)
  IN  /\ Len(stack) >= popped + RawOperands(op)
      /\ \A n \in 0..(popped - 1) : Word(n).tag /\ Ref(n) \in DOMAIN heap
Ready == WithinCode /\ op # "operand" /\ FindsOperands

Op(name) == status = "running" /\ WithinCode /\ op = name /\ FindsOperands

\* push_stack doubles the stack when the stack pointer meets its capacity.
Grown(from, to) == IF from <= stack_len /\ stack_len < to THEN 2 * stack_len ELSE stack_len

\* Pop n words and push others.
Replace(n, words) ==
  /\ stack' = Drop(stack, n) \o words
  /\ stack_len' = Grown(Len(stack) - n, Len(stack) - n + Len(words))

Advance == ip' = next /\ status' = "running" /\ UNCHANGED program
Continue == Advance /\ UNCHANGED outside
JumpTo(address) == ip' = address /\ status' = "running" /\ UNCHANGED <<program, outside>>
Stop(with) ==
  /\ status' = with
  /\ UNCHANGED <<program, ip, stack, stack_len, bindings, reg_1, heap, outside>>
runtime_error == Stop("error")
Panic == Stop("fault")

\* Mutant: what is pushed is the object that was made before.
Allocate_Previous(n, object) ==
  /\ Len(heap) < MaxHeap
  /\ heap' = Append(heap, object)
  /\ Replace(n, <<Val(Len(heap))>>)
\* Push a new object, the bound on the heap permitting.
Allocate(n, object) ==
  /\ Len(heap) < MaxHeap
  /\ heap' = Append(heap, object)
  /\ Replace(n, <<Val(Len(heap) + 1)>>)

-----------------------------------------------------------------------------
(***************************************************************************)
(* Moving words and jumping.                                               *)
(***************************************************************************)
PUSH_REG_STACK ==
  /\ Op("PUSH_REG_STACK")
  /\ Replace(0, << CASE arg = "INSTRUCTION_PTR" -> Raw(next)
                     [] arg = "BINDING_PTR" -> Raw(Len(bindings))
                     [] arg = "REG_1" -> reg_1
                     [] arg = "EXCEPTION_REG" -> exception_reg >>)
  /\ Continue
  /\ UNCHANGED <<bindings, reg_1, heap>>

\* Only REG_1 and EXCEPTION_REG in the code that is generated.
TRANSFER_STACK_REG ==
  /\ Op("TRANSFER_STACK_REG") /\ arg = "REG_1"
  /\ reg_1' = Word(0)
  /\ Replace(1, <<>>)
  /\ Continue
  /\ UNCHANGED <<bindings, heap>>

COPY_STACK_REG ==   \* only BINDING_PTR in the code that is generated
  /\ Op("COPY_STACK_REG")
  /\ IF Word(0).tag \/ Word(0).n > Len(bindings) THEN Panic
     ELSE /\ bindings' = SubSeq(bindings, 1, Word(0).n)
          /\ Continue
          /\ UNCHANGED <<stack, stack_len, reg_1, heap>>

SWAP == Op("SWAP") /\ Replace(2, <<Word(0), Word(1)>>) /\ Continue
          /\ UNCHANGED <<bindings, reg_1, heap>>
COPY == Op("COPY") /\ Replace(0, <<Word(0)>>) /\ Continue
          /\ UNCHANGED <<bindings, reg_1, heap>>
POP_U64 == Op("POP_U64") /\ Replace(1, <<>>) /\ Continue
          /\ UNCHANGED <<bindings, reg_1, heap>>
U64_ADD == Op("U64_ADD") /\ Replace(1, <<Raw(Word(0).n + arg)>>) /\ Continue
          /\ UNCHANGED <<bindings, reg_1, heap>>
PUSH_CONST ==
  /\ Op("PUSH_CONST")
  /\ IF arg \notin DOMAIN chunk.constants THEN Panic
     ELSE Replace(0, <<Val(arg)>>) /\ Continue /\ UNCHANGED <<bindings, reg_1, heap>>
PUSH_BOOL ==
  /\ Op("TRUE") \/ Op("FALSE")
  /\ Replace(0, <<Box(op = "TRUE")>>) /\ Continue
  /\ UNCHANGED <<bindings, reg_1, heap>>

JUMP ==
  /\ Op("JUMP")
  /\ IF Word(0).tag THEN Panic
     ELSE Replace(1, <<>>) /\ JumpTo(Word(0).n) /\ UNCHANGED <<bindings, reg_1, heap>>
JUMP_REL ==
  /\ Op("JUMP_REL")
  /\ JumpTo(next + arg)
  /\ UNCHANGED <<stack, stack_len, bindings, reg_1, heap>>
JUMP_GLOBALS ==
  /\ Op("JUMP_GLOBALS")
  /\ JumpTo(address_of_global(arg))
  /\ UNCHANGED <<stack, stack_len, bindings, reg_1, heap>>
JUMP_REL_CONDITIONAL ==
  /\ Op("JUMP_REL_CONDITIONAL")
  /\ IF Obj(0).type # "bool" THEN runtime_error
     ELSE /\ Replace(1, <<>>)
          /\ JumpTo(IF Obj(0).n = 1 THEN next + arg ELSE next)
          /\ UNCHANGED <<bindings, reg_1, heap>>

-----------------------------------------------------------------------------
(***************************************************************************)
(* Bindings and captures.  CREATE_BINDING tags whatever it pops.           *)
(***************************************************************************)
READ_BINDING ==
  /\ Op("READ_BINDING")
  /\ IF arg + 1 > Len(bindings) THEN Panic
     ELSE /\ Replace(0, <<Val(bindings[Len(bindings) - arg])>>)
          /\ Continue
          /\ UNCHANGED <<bindings, reg_1, heap>>
CREATE_BINDING ==
  /\ Op("CREATE_BINDING")
  /\ bindings' = Append(bindings, Word(0).n)
  /\ Replace(1, <<>>) /\ Continue
  /\ UNCHANGED <<reg_1, heap>>
REMOVE_BINDINGS ==
  /\ Op("REMOVE_BINDING") \/ Op("REMOVE_BINDINGS")
  /\ LET n == IF op = "REMOVE_BINDING" THEN 1 ELSE arg
     IN  IF n > Len(bindings) THEN Panic
         ELSE /\ bindings' = Drop(bindings, n)
              /\ Continue
              /\ UNCHANGED <<stack, stack_len, reg_1, heap>>
CAPTURE_READ ==
  /\ Op("CAPTURE_READ")
  /\ IF arg.offset + 1 > Len(bindings) THEN Panic
     ELSE LET captures == heap[bindings[Len(bindings) - arg.offset]].fields
          IN  IF arg.capture + 1 \notin DOMAIN captures THEN Panic
              ELSE /\ Replace(0, <<Val(captures[arg.capture + 1])>>)
                   /\ Continue
                   /\ UNCHANGED <<bindings, reg_1, heap>>

-----------------------------------------------------------------------------
(***************************************************************************)
(* eval_val.c and function_call.c                                          *)
(***************************************************************************)
\* The arguments of a call that are too many for it, the last lowest, with their
\* number and the continuation that gives them to the result.
extra_words(extra) ==
  IF extra = <<>> THEN <<>>
  ELSE Vals(Reverse(extra)) \o <<Raw(Len(extra)), Raw(address_of_global("APPL_CONT"))>>
\* function_call with the arguments of a saturated application: those of the
\* call are on top, the first highest.
\* Mutant: the arguments of the call are pushed in their order.
call_words_InOrder(fields, arity) ==
  extra_words(SubSeq(fields, arity + 1, Len(fields))) \o Vals(SubSeq(fields, 1, arity))
call_words(fields, arity) ==
  extra_words(SubSeq(fields, arity + 1, Len(fields))) \o Vals(Reverse(SubSeq(fields, 1, arity)))

\* Saturated: eval_application calls it, under a continuation that evaluates
\* the result again.
Saturated(a) == Len(heap[a].fields) >= info(heap[a].link).arity

\* An evaluated thunk stands for its value (eval_thunk).
\* Mutant: a thunk is evaluated every time.
forwarded_Again(i) == i
forwarded(i) == IF heap[i].type = "thunk" /\ heap[i].link # 0 THEN heap[i].link ELSE i

EVAL ==
  /\ Op("EVAL")
  /\ LET val == Ref(0)
         target == IF heap[val].whnf THEN val ELSE forwarded(val)
     IN  CASE heap[val].whnf ->
                /\ Continue
                /\ UNCHANGED <<stack, stack_len, reg_1, heap>>
           [] ~heap[val].whnf /\ heap[target].type = "thunk" ->
                /\ reg_1' = Val(target)
                /\ Replace(1, <<Raw(ip), Val(target), Raw(address_of_global("UPDATE_THUNK"))>>)
                /\ JumpTo(info(target).address)
                /\ UNCHANGED heap
           [] ~heap[val].whnf /\ heap[target].type = "application" /\ Saturated(target) ->
                /\ reg_1' = Val(heap[target].link)
                /\ Replace(1, <<Raw(ip)>> \o call_words(heap[target].fields, info(heap[target].link).arity))
                /\ JumpTo(info(heap[target].link).address)
                /\ UNCHANGED heap
           [] OTHER ->
                /\ heap' = [heap EXCEPT ![target].whnf = TRUE]
                /\ Replace(1, <<Val(target)>>)
                /\ Continue
                /\ UNCHANGED reg_1
  /\ UNCHANGED bindings

UPDATE_THUNK ==   \* [thunk, evaluated] -> [evaluated]
  /\ Op("UPDATE_THUNK")
  /\ IF ~Obj(0).whnf \/ Obj(1).type # "thunk" THEN Panic
     ELSE /\ heap' = [heap EXCEPT ![Ref(1)].link = Ref(0)]
          /\ Replace(2, <<Word(0)>>)
          /\ Continue
          /\ UNCHANGED <<bindings, reg_1>>

(***************************************************************************)
(* handle_continuation: [..cont args count f], f evaluated.  The arguments *)
(* a partial application holds go on top of those that remain.  The case   *)
(* with too many arguments makes room by writing above the stack pointer,  *)
(* without the growth push_stack would do.                                 *)
(***************************************************************************)
HANDLE_CONTINUATION ==
  /\ Op("HANDLE_CONTINUATION")
  /\ IF Obj(0).type \notin {"closure", "application"} THEN runtime_error
     ELSE LET partial == Obj(0).type = "application"
              held == IF partial THEN Obj(0).fields ELSE <<>>
              closure == IF partial THEN Obj(0).link ELSE Ref(0)
              arity == info(closure).arity
              count == Word(1).n + Len(held)
              base == Drop(stack, 2) \o Vals(Reverse(held))
              popped == [i \in 1..count |-> base[Len(base) - i + 1].n]
          IN  /\ stack_len' = Grown(Len(stack) - 2, Len(base))
              /\ CASE count < arity ->
                        /\ Len(heap) < MaxHeap
                        /\ heap' = Append(heap, Object("application", 0, popped, closure, FALSE))
                        /\ stack' = Append(Drop(base, count + 1), Val(Len(heap) + 1))
                        /\ JumpTo(base[Len(base) - count].n)
                        /\ UNCHANGED reg_1
                   [] count = arity ->
                        /\ stack' = base
                        /\ reg_1' = Val(closure)
                        /\ JumpTo(info(closure).address)
                        /\ UNCHANGED heap
                   [] OTHER ->
                        /\ stack' = Drop(base, arity)
                                      \o <<Raw(count - arity), Raw(address_of_global("APPL_CONT"))>>
                                      \o SubSeq(base, Len(base) - arity + 1, Len(base))
                        /\ reg_1' = Val(closure)
                        /\ JumpTo(info(closure).address)
                        /\ UNCHANGED heap
              /\ UNCHANGED bindings

\* [..args, f] -> [application]: after the arguments f already holds.
PARTIAL_APPLY ==
  /\ Op("PARTIAL_APPLY")
  /\ IF Obj(0).type \notin {"closure", "application"} THEN runtime_error
     ELSE LET partial == Obj(0).type = "application"
              held == IF partial THEN Obj(0).fields ELSE <<>>
              closure == IF partial THEN Obj(0).link ELSE Ref(0)
          IN  IF \E n \in 1..arg : ~Word(n).tag THEN Panic
              ELSE /\ Allocate(arg + 1, Object("application", 0, held \o [n \in 1..arg |-> Ref(n)],
                                               closure, FALSE))
                   /\ Continue
                   /\ UNCHANGED <<bindings, reg_1>>

-----------------------------------------------------------------------------
(***************************************************************************)
(* Objects.                                                                *)
(***************************************************************************)
CREATE_CLOSURE ==
  /\ Op("CREATE_CLOSURE")
  /\ Allocate(0, Object("closure", arg, Nulls(chunk.closures[arg].capture_count), 0, TRUE))
  /\ Continue
  /\ UNCHANGED <<bindings, reg_1>>
CREATE_THUNK ==
  /\ Op("CREATE_THUNK")
  /\ Allocate(0, Object("thunk", arg, Nulls(chunk.closures[arg].capture_count), 0, FALSE))
  /\ Continue
  /\ UNCHANGED <<bindings, reg_1>>
\* [..captures, obj] -> [obj], the first capture lowest.
\* Mutant: the first capture is left out.
written_captures_OffByOne(n) == [i \in 1..n |-> IF i = 1 THEN 0 ELSE Ref(n - i + 1)]
written_captures(n) == [i \in 1..n |-> Ref(n - i + 1)]
WRITE_CAPTURES ==
  /\ Op("WRITE_CLOSURE") \/ Op("WRITE_THUNK")
  /\ LET n == info(Ref(0)).capture_count
     IN  IF Obj(0).type # (IF op = "WRITE_CLOSURE" THEN "closure" ELSE "thunk")
             \/ \E i \in 1..n : ~Word(i).tag
         THEN Panic
         ELSE /\ heap' = [heap EXCEPT ![Ref(0)].fields = written_captures(n)]
              /\ Replace(n + 1, <<Word(0)>>)
              /\ Continue
              /\ UNCHANGED <<bindings, reg_1>>
CREATE_CONS ==   \* [r, l]
  /\ Op("CREATE_CONS")
  /\ Allocate(2, Object("cons", 0, <<Ref(0), Ref(1)>>, 0, TRUE))
  /\ Continue
  /\ UNCHANGED <<bindings, reg_1>>
CREATE_OBJECT ==   \* the arguments are the most recent bindings
  /\ Op("CREATE_OBJECT")
  /\ IF arg.arg_count > Len(bindings) THEN Panic
     ELSE /\ Allocate(0, Object("object", arg.variant,
                                SubSeq(bindings, Len(bindings) - arg.arg_count + 1, Len(bindings)),
                                0, TRUE))
          /\ Continue
          /\ UNCHANGED <<bindings, reg_1>>
READ_CONS ==
  /\ Op("HEAD") \/ Op("TAIL")
  /\ IF Obj(0).type # "cons" THEN runtime_error
     ELSE /\ Replace(1, <<Val(Obj(0).fields[IF op = "HEAD" THEN 1 ELSE 2])>>)
          /\ Continue
          /\ UNCHANGED <<bindings, reg_1, heap>>
OBJECT_READ ==   \* [obj] -> [obj, arg]
  /\ Op("OBJECT_READ")
  /\ IF Obj(0).type # "object" \/ arg + 1 \notin DOMAIN Obj(0).fields THEN Panic
     ELSE /\ Replace(0, <<Val(Obj(0).fields[arg + 1])>>)
          /\ Continue
          /\ UNCHANGED <<bindings, reg_1, heap>>

\* The tests keep their operand.
Test(condition) ==
  Replace(0, <<Box(condition)>>) /\ Continue /\ UNCHANGED <<bindings, reg_1, heap>>
IS_TYPE ==
  \/ Op("IS_CONS") /\ Test(Obj(0).type = "cons")
  \/ Op("IS_OBJ") /\ Test(Obj(0).type = "object")
  \/ Op("IS_INT") /\ Test(Obj(0).type = "int")
  \/ Op("IS_BOOL") /\ Test(Obj(0).type = "bool")
  \/ Op("IS_UNIT") /\ Test(Obj(0).type = "unit")
IS_VARIANT ==
  /\ Op("IS_VARIANT")
  /\ IF Obj(0).type # "object" THEN runtime_error ELSE Test(Obj(0).n = arg)

-----------------------------------------------------------------------------
(***************************************************************************)
(* Arithmetic: r is on top, l below it, both evaluated by the built-in     *)
(* function.  A type error is noticed at the end of the instruction.       *)
(* A division is thus carried out even when its operands are not numbers.  *)
(***************************************************************************)
Quotient(l, r) ==   \* C truncates towards zero
  LET abs(n) == IF n < 0 THEN -n ELSE n
      q == abs(l) \div abs(r)
  IN  IF (l < 0) = (r < 0) THEN q ELSE -q

NUM_BIN_OP ==
  /\ \E name \in {"ADD", "SUBTRACT", "MULTIPLY", "DIVIDE"} : Op(name)
  /\ LET r == Obj(0).n
         l == Obj(1).n
     IN  \/ op = "DIVIDE" /\ r = 0 /\ Panic
         \/ op = "DIVIDE" /\ Obj(0).type \notin BoxTypes /\ Panic
         \/ /\ op = "DIVIDE" /\ Obj(0).type \in BoxTypes => r # 0
            /\ Obj(0).type # "int" \/ Obj(1).type # "int"
            /\ runtime_error
         \/ /\ Obj(0).type = "int" /\ Obj(1).type = "int"
            /\ op = "DIVIDE" => r # 0
            /\ Allocate(2, Object("int", CASE op = "ADD" -> l + r
                                           [] op = "SUBTRACT" -> l - r
                                           [] op = "MULTIPLY" -> l * r
                                           [] op = "DIVIDE" -> Quotient(l, r), <<>>, 0, TRUE))
            /\ Continue
            /\ UNCHANGED <<bindings, reg_1>>
NEGATE ==
  /\ Op("NEGATE")
  /\ IF Obj(0).type # "int" THEN runtime_error
     ELSE /\ Allocate(1, Object("int", -Obj(0).n, <<>>, 0, TRUE))
          /\ Continue
          /\ UNCHANGED <<bindings, reg_1>>
COMPARISON_BIN_OP ==
  /\ Op("LESS") \/ Op("GREATER")
  /\ IF Obj(0).type # "int" \/ Obj(1).type # "int" THEN runtime_error
     ELSE /\ Replace(2, <<Box(IF op = "LESS" THEN Obj(1).n < Obj(0).n ELSE Obj(1).n > Obj(0).n)>>)
          /\ Continue
          /\ UNCHANGED <<bindings, reg_1, heap>>
EQUAL ==
  /\ Op("EQUAL")
  /\ IF Obj(0).type # Obj(1).type \/ Obj(0).type \notin BoxTypes THEN runtime_error
     ELSE /\ Replace(2, <<Box(Obj(0).n = Obj(1).n)>>)
          /\ Continue
          /\ UNCHANGED <<bindings, reg_1, heap>>
NOT ==
  /\ Op("NOT")
  /\ IF Obj(0).type # "bool" THEN runtime_error
     ELSE /\ Replace(1, <<Box(Obj(0).n = 0)>>)
          /\ Continue
          /\ UNCHANGED <<bindings, reg_1, heap>>

-----------------------------------------------------------------------------
(***************************************************************************)
(* Exceptions and extern functions: what a program does besides computing. *)
(* An object of type file stands for the stream numbered n; one of type    *)
(* array holds the text that was read.  To use a stream that was closed, or *)
(* to print a line that could not be read, is undefined.                   *)
(***************************************************************************)
TRANSFER_STACK_EXCEPTION ==
  /\ Op("TRANSFER_STACK_REG") /\ arg = "EXCEPTION_REG"
  /\ exception_reg' = Word(0)
  /\ Replace(1, <<>>) /\ Advance
  /\ UNCHANGED <<bindings, reg_1, heap, world>>

CallExtern(function) == Op("CALL_EXTERN") /\ arg = function
FileHandle(n) == Object("file", n, <<>>, 0, TRUE)
Array(text) == Object("array", text, <<>>, 0, TRUE)
\* The operands are replaced by a new object, or by words, the world by another.
Answer(n, object, w) ==
  Allocate(n, object) /\ Advance /\ world' = w /\ UNCHANGED <<bindings, reg_1, exception_reg>>
Leave(n, words, w) ==
  Replace(n, words) /\ Advance /\ world' = w /\ UNCHANGED <<bindings, reg_1, heap, exception_reg>>

\* A handle of an open stream is on top of the stack.
IsHandle == Obj(0).type = "file"
stream == Obj(0).n
OnStream(action) ==
  CASE ~IsHandle -> runtime_error
    [] IsHandle /\ ~world.streams[stream].open -> Panic
    [] OTHER -> action

\* A new object where the code has one for each: handles have no identity.
STD_STREAM ==
  /\ CallExtern("STDIN") \/ CallExtern("STDOUT") \/ CallExtern("STDERR")
  /\ Answer(0, FileHandle(CASE arg = "STDIN" -> STDIN [] arg = "STDOUT" -> STDOUT [] arg = "STDERR" -> STDERR),
            world)
\* The path, a number here, is on top of the mode.
OPEN_FILE ==
  /\ CallExtern("OPEN_FILE")
  /\ LET w == fopen(world, Obj(0).n, Obj(1).n)
     IN  CASE Obj(1).type # "int" -> runtime_error
           [] Obj(1).type = "int" /\ CanOpen(world, Obj(0).n, Obj(1).n) ->
                Answer(2, FileHandle(Len(w.streams)), w)
           [] OTHER -> Leave(2, <<Val(UNIT_BOX)>>, w)
CLOSE_FILE ==
  CallExtern("CLOSE_FILE") /\ OnStream(Leave(1, <<Val(UNIT_BOX)>>, fclose(world, stream)))
STREAM_ERRORS ==
  /\ CallExtern("STREAM_ERRORS")
  /\ OnStream(Answer(1, Object("bool", IF ferror(world, stream) THEN 1 ELSE 0, <<>>, 0, TRUE),
                     clearerr(world, stream)))
\* What print_val writes of a number or a text.
Printed(i) == IF heap[i].type = "array" THEN heap[i].n ELSE <<heap[i].n>>
WRITE_VALUE ==
  /\ CallExtern("WRITE")
  /\ OnStream(IF Printed(Ref(1)) = NO_LINE THEN Panic   \* what it has is not its length
              ELSE Leave(2, <<>>, fprintf(world, stream, Printed(Ref(1)))))
READ_LINE ==
  CallExtern("READ_LINE") /\ OnStream(Answer(1, Array(Line(world, stream)), getline(world, stream)))
READ_CONTENTS ==
  CallExtern("READ_CONTENTS")
    /\ OnStream(Answer(1, Array(Contents(world, stream)), fread_all(world, stream)))

-----------------------------------------------------------------------------
PATTERN_MATCH_FAIL == Op("PATTERN_MATCH_FAIL") /\ runtime_error
END == Op("END") /\ Stop("ok")

\* run_interpreter has returned.
Stopped == status # "running" /\ UNCHANGED vm_vars

Step ==
  \/ PUSH_REG_STACK \/ TRANSFER_STACK_REG \/ COPY_STACK_REG \/ SWAP \/ COPY \/ POP_U64
  \/ U64_ADD \/ PUSH_CONST \/ PUSH_BOOL
  \/ JUMP \/ JUMP_REL \/ JUMP_GLOBALS \/ JUMP_REL_CONDITIONAL
  \/ READ_BINDING \/ CREATE_BINDING \/ REMOVE_BINDINGS \/ CAPTURE_READ
  \/ EVAL \/ UPDATE_THUNK \/ HANDLE_CONTINUATION \/ PARTIAL_APPLY
  \/ CREATE_CLOSURE \/ CREATE_THUNK \/ WRITE_CAPTURES \/ CREATE_CONS \/ CREATE_OBJECT
  \/ READ_CONS \/ OBJECT_READ \/ IS_TYPE \/ IS_VARIANT
  \/ NUM_BIN_OP \/ NEGATE \/ COMPARISON_BIN_OP \/ EQUAL \/ NOT
  \/ TRANSFER_STACK_EXCEPTION \/ STD_STREAM \/ OPEN_FILE \/ CLOSE_FILE \/ STREAM_ERRORS
  \/ WRITE_VALUE \/ READ_LINE \/ READ_CONTENTS
  \/ PATTERN_MATCH_FAIL \/ END

=============================================================================
