------------------------------ MODULE Bytecode ------------------------------
(***************************************************************************)
(* The instructions of bytecode.h as they lie in memory, and the built-in  *)
(* functions of builtins.c that run_vm places after the compiled code.     *)
(*                                                                         *)
(* Code is a sequence of bytes: the byte of an opcode holds the whole      *)
(* instruction, the bytes of its operand are fillers.  Addresses, relative *)
(* jumps and the constants added to return addresses are thus those of the *)
(* program, and a jump into the middle of an instruction is visible.       *)
(***************************************************************************)
EXTENDS Integers, SequencesExt

OperandByte == [op |-> "operand", arg |-> 0]

\* Bytes of the operands read by run_interpreter; the others have none.
OperandSize(op) ==
  CASE op \in {"TRANSFER_STACK_REG", "COPY_STACK_REG", "PUSH_REG_STACK", "REMOVE_BINDINGS",
               "JUMP_GLOBALS", "OBJECT_READ", "PARTIAL_APPLY", "CALL_EXTERN"} -> 1
    [] op \in {"READ_BINDING", "JUMP_REL", "JUMP_REL_CONDITIONAL", "CREATE_CLOSURE",
               "CREATE_THUNK", "IS_VARIANT"} -> 2
    [] op = "CAPTURE_READ" -> 3
    [] op \in {"PUSH_CONST", "PATTERN_MATCH_FAIL"} -> 4
    [] op = "CREATE_OBJECT" -> 6
    [] op = "U64_ADD" -> 8
    [] OTHER -> 0

Instruction(op, arg) ==
  <<[op |-> op, arg |-> arg]>> \o [i \in 1..OperandSize(op) |-> OperandByte]

\* init_chunk: the constants every chunk begins with.
BuiltinConstants ==
  <<[type |-> "unit", n |-> 0], [type |-> "bool", n |-> 1], [type |-> "bool", n |-> 0]>>

\* Instructions without operands, given by their names.
Code(ops) == FlattenSeq([i \in DOMAIN ops |-> Instruction(ops[i], 0)])

Return == Code(<<"SWAP", "JUMP">>)

-----------------------------------------------------------------------------
(***************************************************************************)
(* The built-in functions.  They are entered with [..cont r l] or with     *)
(* [..cont arg] and return their result on the stack.                      *)
(***************************************************************************)
StrictOperator(op) == Code(<<"EVAL", "SWAP", "EVAL", op>>) \o Return
StrictUnary(op) == Code(<<"EVAL", op>>) \o Return

\* GREATER_EQ and LESS_EQ call the opposite test, keeping l in REG_1 while the
\* return address goes below the operands.
Negated(op) ==
  Instruction("PUSH_REG_STACK", "INSTRUCTION_PTR") \o Instruction("U64_ADD", 17)
    \o Code(<<"SWAP">>) \o Instruction("TRANSFER_STACK_REG", "REG_1")
    \o Code(<<"SWAP">>) \o Instruction("PUSH_REG_STACK", "REG_1")
    \o Instruction("JUMP_GLOBALS", op) \o Code(<<"NOT">>) \o Return

OR_BYTECODE ==
  Code(<<"EVAL">>) \o Instruction("JUMP_REL_CONDITIONAL", 2) \o Return
    \o Code(<<"POP_U64", "TRUE">>) \o Return

AND_BYTECODE ==
  Code(<<"EVAL">>) \o Instruction("JUMP_REL_CONDITIONAL", 2)
    \o Code(<<"POP_U64", "FALSE">>) \o Return

\* GLOBAL_FUNC_..., in the order of builtins.h, with their code.
FUNCTIONS == <<
  [name |-> "CONS",       code |-> Code(<<"CREATE_CONS">>) \o Return],
  [name |-> "ADD",        code |-> StrictOperator("ADD")],
  [name |-> "SUB",        code |-> StrictOperator("SUBTRACT")],
  [name |-> "MUL",        code |-> StrictOperator("MULTIPLY")],
  [name |-> "DIV",        code |-> StrictOperator("DIVIDE")],
  [name |-> "NEG",        code |-> StrictUnary("NEGATE")],
  [name |-> "EQUAL",      code |-> StrictOperator("EQUAL")],
  [name |-> "GREATER",    code |-> StrictOperator("GREATER")],
  [name |-> "LESS",       code |-> StrictOperator("LESS")],
  [name |-> "GREATER_EQ", code |-> Negated("LESS")],
  [name |-> "LESS_EQ",    code |-> Negated("GREATER")],
  [name |-> "AND",        code |-> AND_BYTECODE],
  [name |-> "OR",         code |-> OR_BYTECODE],
  [name |-> "NOT",        code |-> StrictUnary("NOT")],
  [name |-> "FORCE",      code |-> Code(<<"EVAL">>) \o Return],
  [name |-> "APPL_CONT",  code |-> Code(<<"EVAL", "HANDLE_CONTINUATION">>)],
  [name |-> "UPDATE_THUNK", code |-> Code(<<"EVAL", "UPDATE_THUNK">>) \o Return],
  [name |-> "ERROR",      code |-> Code(<<"END">>)] >>

CodeUpTo(i) == FlattenSeq([j \in 1..i |-> FUNCTIONS[j].code])

GlobalCode == CodeUpTo(Len(FUNCTIONS))

GlobalNames == { FUNCTIONS[i].name : i \in DOMAIN FUNCTIONS }

\* global_function_offset
Offset ==
  [f \in GlobalNames |->
     Len(CodeUpTo((CHOOSE i \in DOMAIN FUNCTIONS : FUNCTIONS[i].name = f) - 1))]
=============================================================================
