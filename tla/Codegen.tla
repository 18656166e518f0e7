------------------------------ MODULE Codegen ------------------------------
(***************************************************************************)
(* The code generator of compiler/codegen: expr.c, pattern_matching.c and  *)
(* top_level.c.  generate_code maps a program to a chunk.                  *)
(*                                                                         *)
(* A state s of the generator is a record: the chunk under construction    *)
(* (code, constants, closures), the contexts of the functions being        *)
(* compiled (ctx, innermost last), the remapping queue, what the globals   *)
(* compiled so far became (globals), the number of constructors met, and   *)
(* whether an error was reported.  Constants are numbered instead of being *)
(* addressed by words; the single module of a program holds its globals.   *)
(*                                                                         *)
(* A program is [main |-> expression, globals |-> set of declarations]; its*)
(* globals include run, which stands for std..run.                         *)
(***************************************************************************)
EXTENDS Syntax, Bytecode, RemappingQueue, SequencesExt

\* constant_index and variant_index before a declaration is compiled.
None == -1
SELF_IDENT == "+closure_self"
\* bind_to == null.
NoBinding == ""

-----------------------------------------------------------------------------
(***************************************************************************)
(* codegen.c: contexts, captures and emission.                             *)
(***************************************************************************)
NewContext == [ident_stack |-> <<>>, capture_stack |-> <<>>]

\* f(v), where v is computed once however often f refers to it.
Once(v, f(_)) == CHOOSE result \in { f(x) : x \in {v} } : TRUE

\* Address of the next byte: get_last_bytecode_index() + 1.
Here(s) == Len(s.code)
emit(s, op, arg) == [s EXCEPT !.code = @ \o Instruction(op, arg)]
emit_ops(s, ops) == [s EXCEPT !.code = @ \o Code(ops)]
\* Overwrite the operand of the instruction at an address.
patch(s, address, arg) == [s EXCEPT !.code[address + 1].arg = arg]
\* Make the relative jump at an address go to target.
jump_to(s, address, target) == patch(s, address, target - (address + 3))
land(s, address) == jump_to(s, address, Here(s))

declare_ident(s, ident) ==
  [s EXCEPT !.ctx[Len(s.ctx)].ident_stack = Append(@, ident)]
idents(s) == Len(Last(s.ctx).ident_stack)
\* Drop the identifiers declared since there were count, and their bindings.
\* Mutant: the bindings are counted after the identifiers were dropped.
leave_TooLate(s, count) ==
  emit([s EXCEPT !.ctx[Len(s.ctx)].ident_stack = SubSeq(@, 1, count)], "REMOVE_BINDINGS", 0)
leave(s, count) ==
  emit([s EXCEPT !.ctx[Len(s.ctx)].ident_stack = SubSeq(@, 1, count)],
       "REMOVE_BINDINGS", idents(s) - count)

\* Distance of an identifier from the top of the stack of context level.
Declared(s, level, ident) == ident \in ToSet(s.ctx[level].ident_stack)
offset(s, level, ident) ==
  Min({ Len(s.ctx[level].ident_stack) - i :
          i \in { i \in DOMAIN s.ctx[level].ident_stack : s.ctx[level].ident_stack[i] = ident } })

\* Resolving a capture gives the state, its index in context level, and whether
\* it was found.
capture_found(s, level, capture) ==
  [s |-> s, found |-> TRUE,
   index |-> (CHOOSE i \in DOMAIN s.ctx[level].capture_stack : s.ctx[level].capture_stack[i] = capture) - 1]
\* A capture that is new there is added to context level.
add_capture(s, level, capture) ==
  IF Contains(s.ctx[level].capture_stack, capture) THEN capture_found(s, level, capture)
  ELSE capture_found([s EXCEPT !.ctx[level].capture_stack = Append(@, capture)], level, capture)

add_outer_capture(outer, level) ==
  IF ~outer.found THEN outer
  ELSE add_capture(outer.s, level, [parent_index |-> outer.index, is_local |-> FALSE])
RECURSIVE resolve_capture(_, _, _)
resolve_capture(s, level, ident) ==
  IF level = 1 THEN [s |-> s, index |-> 0, found |-> FALSE]
  ELSE IF Declared(s, level - 1, ident)
  THEN add_capture(s, level, [parent_index |-> offset(s, level - 1, ident), is_local |-> TRUE])
  ELSE add_outer_capture(resolve_capture(s, level - 1, ident), level)

create_constant(s, type, n) == [s EXCEPT !.constants = Append(@, [type |-> type, n |-> n])]
create_closure_info(s, arity, address, capture_count) ==
  [s EXCEPT !.closures =
     Append(@, [arity |-> arity, address |-> address, capture_count |-> capture_count])]

enqueue_remapping_work(s, ident, address, arg_count) ==
  [s EXCEPT !.queue = enqueue(@, [ident |-> ident, address |-> address, arg_count |-> arg_count])]
\* arg_count of the work for an identifier that is not a pattern constructor.
NoPattern == -1

-----------------------------------------------------------------------------
(***************************************************************************)
(* expr.c                                                                  *)
(***************************************************************************)
RECURSIVE compile_expr(_, _)

GLOBAL_RES_OK(s, ident) == ident \in DOMAIN s.globals

compile_global(s, ident, index) ==
  emit(IF index = None THEN enqueue_remapping_work(s, ident, Here(s), NoPattern) ELSE s,
       "PUSH_CONST", index)
\* Neither a local identifier nor, when capture.found is false, a captured one.
compile_outer_identifier(s, ident, capture) ==
  IF capture.found
  THEN emit(capture.s, "CAPTURE_READ",
            [offset |-> offset(s, Len(s.ctx), SELF_IDENT), capture |-> capture.index])
  ELSE IF GLOBAL_RES_OK(s, ident) THEN compile_global(s, ident, s.globals[ident].constant_index)
  ELSE [emit(s, "PUSH_CONST", None) EXCEPT !.error = TRUE]
compile_identifier(s, ident) ==
  IF Declared(s, Len(s.ctx), ident) THEN emit(s, "READ_BINDING", offset(s, Len(s.ctx), ident))
  ELSE compile_outer_identifier(s, ident, resolve_capture(s, Len(s.ctx), ident))

\* unit, true and false are the first three constants of every chunk.
compile_literal(s, literal) ==
  CASE literal.type = "unit" -> emit(s, "PUSH_CONST", 1)
    [] literal.type = "bool" -> emit(s, "PUSH_CONST", IF literal.value = 1 THEN 2 ELSE 3)
    [] OTHER -> emit(create_constant(s, literal.type, literal.value), "PUSH_CONST",
                     Len(s.constants) + 1)

\* The return address of a built-in function: INSTRUCTION_PTR, read just before
\* the OP_U64_ADD at an address, plus the distance to the code that follows.
push_continuation(s) == emit(emit(s, "PUSH_REG_STACK", "INSTRUCTION_PTR"), "U64_ADD", 0)
\* Mutant: the distance is counted from OP_U64_ADD.
call_global_OffByOne(s, function, add_address) ==
  emit(patch(s, add_address, Here(s) + 2 - (add_address + 1)), "JUMP_GLOBALS", function)
call_global(s, function, add_address) ==
  emit(patch(s, add_address, Here(s) + 2 - (add_address + 1) + 1), "JUMP_GLOBALS", function)

compile_bin_op(s, node) ==
  IF node.op = "COMPOSITION"
  THEN compile_expr(s, Apply(Identifier("compose"), <<node.l, node.r>>))
  ELSE call_global(compile_expr(compile_expr(push_continuation(s), node.r), node.l),
                   node.op, Here(s) + 2)

compile_unary_op(s, node) ==
  call_global(compile_expr(push_continuation(s), node.val), node.op, Here(s) + 2)

\* The condition is on the stack; the second half starts after the jump over it.
compile_then(s, node, true_jump) ==
  land(compile_expr(land(s, true_jump), node.then), Here(s) - 3)
compile_else(s, node) ==
  compile_then(emit(compile_expr(emit(s, "JUMP_REL_CONDITIONAL", 0), node.else), "JUMP_REL", 0),
               node, Here(s))
compile_if_expr(s, node) ==
  compile_else(emit_ops(compile_expr(s, node.condition), <<"EVAL">>), node)

(***************************************************************************)
(* Lambdas and thunks: the body, skipped by a jump, then the construction  *)
(* of the object.  bind_to is the identifier the object is    *)
(* bound to, already declared by the caller, or NoBinding.  An object with  *)
(* captures is bound before they are read, so that it can capture itself.  *)
(***************************************************************************)

\* The identifier stack while a function is compiled: its parameters, the first
\* deepest, then the function itself, through which captures are read.
enter_function(s, params) ==
  [emit_ops(emit(emit_ops(s, [i \in DOMAIN params |-> "CREATE_BINDING"]),
                 "PUSH_REG_STACK", "REG_1"), <<"CREATE_BINDING">>)
     EXCEPT !.ctx = Append(@, [ident_stack |-> Append(params, SELF_IDENT), capture_stack |-> <<>>])]
compile_body(s, params, body) == compile_expr(enter_function(s, params), body)

read_capture(capture, self) ==
  IF capture.is_local THEN Instruction("READ_BINDING", capture.parent_index)
  ELSE Instruction("CAPTURE_READ", [offset |-> self, capture |-> capture.parent_index])
read_captures(s, captures) ==
  [s EXCEPT !.code = @ \o FlattenSeq([i \in DOMAIN captures |->
                            read_capture(captures[i], offset(s, Len(s.ctx), SELF_IDENT))])]

CREATE(kind) == IF kind = "closure" THEN "CREATE_CLOSURE" ELSE "CREATE_THUNK"
WRITE(kind) == IF kind = "closure" THEN "WRITE_CLOSURE" ELSE "WRITE_THUNK"
construct(s, kind, info, captures, bind_to) ==
  CASE captures = <<>> ->
         emit_ops(emit(create_constant(s, kind, info), "PUSH_CONST", Len(s.constants) + 1),
                  IF bind_to = NoBinding THEN <<>> ELSE <<"COPY", "CREATE_BINDING">>)
    [] captures # <<>> /\ bind_to = NoBinding ->
         emit_ops(emit(read_captures(s, captures), CREATE(kind), info), <<WRITE(kind)>>)
    [] captures # <<>> /\ bind_to # NoBinding ->
         emit_ops(emit(read_captures(emit_ops(emit(s, CREATE(kind), info), <<"CREATE_BINDING">>), captures),
                       "READ_BINDING", offset(s, Len(s.ctx), bind_to)), <<WRITE(kind)>>)

\* After the body: return, and construct the object in the context around it.
return(compiled, kind, arity) ==
  emit_ops(IF kind = "closure" THEN emit(compiled, "REMOVE_BINDINGS", arity + 1)
                               ELSE emit_ops(compiled, <<"REMOVE_BINDING">>), <<"SWAP", "JUMP">>)
finish_function(returned, start, kind, arity, bind_to, captures) ==
  construct(create_closure_info([land(returned, start) EXCEPT !.ctx = Front(@)],
                                arity, start + 3, Len(captures)),
            kind, Len(returned.closures) + 1, captures, bind_to)
compiled_function(compiled, start, kind, arity, bind_to) ==
  finish_function(return(compiled, kind, arity), start, kind, arity, bind_to,
                  Last(compiled.ctx).capture_stack)

compile_function(s, kind, params, body, bind_to) ==
  Once(compile_body(emit(s, "JUMP_REL", 0), params, body),
       LAMBDA compiled : compiled_function(compiled, Here(s), kind, Len(params), bind_to))

compile_lambda(s, node) == compile_function(s, "closure", node.params, node.body, NoBinding)

compile_bound(s, ident, e) ==
  compile_function(s, IF e.kind = "lambda" THEN "closure" ELSE "thunk",
                   IF e.kind = "lambda" THEN e.params ELSE <<>>,
                   IF e.kind = "lambda" THEN e.body ELSE e, ident)
compile_declaration(s, decl) ==
  emit_ops(compile_bound(declare_ident(s, decl.name), decl.name, decl.body), <<"POP_U64">>)

RECURSIVE compile_declarations(_, _)
compile_declarations(s, declarations) ==
  IF declarations = <<>> THEN s
  ELSE compile_declarations(compile_declaration(s, Head(declarations)), Tail(declarations))
compile_let_expr(s, node) ==
  leave(compile_expr(compile_declarations(s, node.declarations), node.body), idents(s))

\* The arguments are compiled last first, then the function.
RECURSIVE compile_arguments(_, _)
compile_arguments(s, arguments) ==
  IF arguments = <<>> THEN s
  ELSE compile_arguments(compile_expr(s, Head(arguments)), Tail(arguments))
compile_application(s, node) ==
  emit(emit_ops(compile_expr(compile_arguments(s, ArgumentsOf(node)), Callee(node)), <<"EVAL">>),
       "PARTIAL_APPLY", Len(ArgumentsOf(node)))

-----------------------------------------------------------------------------
(***************************************************************************)
(* pattern_matching.c                                                      *)
(*                                                                         *)
(* compile_pattern_node returns the state and the address of the jump to   *)
(* take when the pattern does not match, 0 when it always does.  The word  *)
(* to match is on top of the stack and is gone in both cases.              *)
(***************************************************************************)
\* A test followed by POP_U64; JUMP_REL failure, skipped when the test succeeds.
jump_unless(tested) ==
  [s |-> emit(emit_ops(emit(tested, "JUMP_REL_CONDITIONAL", 4), <<"POP_U64">>), "JUMP_REL", 0),
   failure |-> Here(tested) + 4]
test(s, ops) == jump_unless(emit_ops(s, ops))

\* A second test that jumps back to address when it fails.
require(s, address) ==
  jump_to(emit(emit(s, "JUMP_REL_CONDITIONAL", 3), "JUMP_REL", 0), Here(s) + 3, address)

\* Send the failure of a component to address.
redirect(m, address) == IF m.failure = 0 THEN m.s ELSE jump_to(m.s, m.failure, address)

RECURSIVE compile_pattern_node(_, _)

\* The head while the cons is still on the stack, so that it fails through
\* POP_U64; then the tail.
cons_tail(s, node, failure) ==
  [s |-> redirect(compile_pattern_node(emit_ops(s, <<"TAIL">>), node.r), failure), failure |-> failure]
cons_head(s, node, failure) ==
  cons_tail(redirect(compile_pattern_node(emit_ops(s, <<"COPY", "HEAD">>), node.l), failure - 1),
            node, failure)
compile_cons_pattern(is_cons, node) == cons_head(is_cons.s, node, is_cons.failure)

\* The arguments of a constructor, the last one first.
RECURSIVE object_patterns(_, _, _)
object_patterns(s, arguments, failure) ==
  IF arguments = <<>> THEN s
  ELSE object_patterns(
         redirect(compile_pattern_node(emit(s, "OBJECT_READ", Len(arguments) - 1), Head(arguments)),
                  failure - 1),
         Tail(arguments), failure)
check_variant(s, constructor, variant, arg_count) ==
  emit(IF variant = None THEN enqueue_remapping_work(s, constructor, Here(s), arg_count) ELSE s,
       "IS_VARIANT", variant)
object_pattern(is_obj, constructor, arguments) ==
  [s |-> emit_ops(object_patterns(
           require(check_variant(is_obj.s, constructor, is_obj.s.globals[constructor].variant_index,
                                 Len(arguments)), is_obj.failure - 1),
           arguments, is_obj.failure), <<"POP_U64">>),
   failure |-> is_obj.failure]
application_pattern(is_obj, constructor, arguments) ==
  IF GLOBAL_RES_OK(is_obj.s, constructor) THEN object_pattern(is_obj, constructor, arguments)
  ELSE [s |-> [is_obj.s EXCEPT !.error = TRUE], failure |-> 0]

type_check_op(literal) ==
  CASE literal.type = "int" -> "IS_INT"
    [] literal.type = "bool" -> "IS_BOOL"
    [] literal.type = "unit" -> "IS_UNIT"
literal_pattern(typed, literal) ==
  [s |-> require(emit_ops(compile_literal(typed.s, literal), <<"EVAL", "EQUAL">>), typed.failure),
   failure |-> typed.failure]

compile_pattern_node(s, node) ==
  CASE node.kind = "identifier" /\ ~(GLOBAL_RES_OK(s, node.ident)
                                       /\ s.globals[node.ident].is_constructor) ->
         [s |-> emit_ops(declare_ident(s, node.ident), <<"CREATE_BINDING">>), failure |-> 0]
    [] node.kind = "underscore" -> [s |-> emit_ops(s, <<"POP_U64">>), failure |-> 0]
    [] node.kind = "bin_op" -> compile_cons_pattern(test(s, <<"EVAL", "IS_CONS">>), node)
    [] node.kind \in {"identifier", "application"} ->
         application_pattern(test(s, <<"EVAL", "IS_OBJ">>), Callee(node).ident, ArgumentsOf(node))
    [] node.kind = "literal" -> literal_pattern(test(s, <<"EVAL", type_check_op(node)>>), node)

(***************************************************************************)
(* One branch, entered with [..binding_ptr expr]: it unbinds what a failed *)
(* branch bound, matches a copy of expr, and on success drops both words,  *)
(* leaves its result and jumps back to the exit of the case.  Its failure  *)
(* jump goes to the next branch.                                           *)
(***************************************************************************)
\* The condition is on the stack: its failure takes the pattern's along.
decide(m, guarded, exit_point) ==
  [s |-> redirect([m EXCEPT !.s = emit(guarded, "JUMP_REL", 0)], exit_point), failure |-> exit_point]
compile_condition(m, guarded) == decide(m, guarded, Here(guarded))
compile_guard(m, condition) ==
  IF condition.kind = "null" THEN m
  ELSE compile_condition(m, emit(compile_expr(m.s, condition), "JUMP_REL_CONDITIONAL", 3))

\* After the body the branch is left, and failures go behind it.
leave_branch(m, left, exit) ==
  redirect([m EXCEPT !.s = jump_to(emit(left, "JUMP_REL", 0), Here(left), exit)], Here(left) + 3)
compile_branch_body(m, node, count, exit) ==
  leave_branch(m, leave(compile_expr(emit_ops(m.s, <<"POP_U64", "POP_U64">>), node.body), count), exit)

unbind(s) ==
  emit_ops(emit(emit_ops(s, <<"SWAP">>), "COPY_STACK_REG", "BINDING_PTR"), <<"SWAP", "COPY">>)
compile_pattern_match_branch(s, node, exit) ==
  compile_branch_body(compile_guard(compile_pattern_node(unbind(s), node.pattern), node.condition),
                      node, idents(s), exit)

RECURSIVE compile_branches(_, _, _)
compile_branches(s, patterns, exit) ==
  IF patterns = <<>> THEN s
  ELSE compile_branches(compile_pattern_match_branch(s, Head(patterns), exit), Tail(patterns), exit)

\* At exit a jump over the branches, which go back to it.
start_branches(s) == emit_ops(emit(emit(s, "JUMP_REL", 0), "PUSH_REG_STACK", "BINDING_PTR"), <<"SWAP">>)
\* Mutant: the jump over the branches is given the end there was before them.
compile_case_Stale(s, node) ==
  jump_to(emit(compile_branches(start_branches(s), node.patterns, Here(s)), "PATTERN_MATCH_FAIL", 0),
          Here(s), Here(s))
compile_case(s, node) ==
  land(emit(compile_branches(start_branches(s), node.patterns, Here(s)), "PATTERN_MATCH_FAIL", 0),
       Here(s))
compile_case_expression(s, node) ==
  compile_case(emit(compile_expr(s, node.value), "JUMP_REL", 3), node)

(***************************************************************************)
(* attributes.c: the body of a function of std that is built in reads its  *)
(* parameters, the last one first, and calls the machine.                  *)
(***************************************************************************)
RECURSIVE evaluated_parameters(_, _)
evaluated_parameters(s, n) ==
  IF n = 0 THEN s
  ELSE emit_ops(emit(evaluated_parameters(s, n - 1), "READ_BINDING", n - 1), <<"EVAL">>)
\* Mutant: only the last parameter is read.
call_extern_Last(s, n, function) ==
  emit(emit_ops(emit(s, "READ_BINDING", 0), <<"EVAL">>), "CALL_EXTERN", function)
call_extern(s, n, function) == emit(evaluated_parameters(s, n), "CALL_EXTERN", function)
push_unit(s) == emit(s, "PUSH_CONST", 1)
compile_builtin(s, ident) ==
  CASE ident = "open" -> call_extern(s, 2, "OPEN_FILE")
    [] ident = "close" -> call_extern(s, 1, "CLOSE_FILE")
    [] ident = "write" -> push_unit(call_extern(s, 2, "WRITE"))
    [] ident = "stdin" -> call_extern(s, 0, "STDIN")
    [] ident = "stdout" -> call_extern(s, 0, "STDOUT")
    [] ident = "stderr" -> call_extern(s, 0, "STDERR")
    [] ident = "stream_err" -> call_extern(s, 1, "STREAM_ERRORS")
    [] ident = "read_file_contents" -> call_extern(s, 1, "READ_CONTENTS")
    [] ident = "read_file_line" -> call_extern(s, 1, "READ_LINE")
    [] ident = "set_exception_reg" ->
         push_unit(emit(emit(s, "READ_BINDING", 0), "TRANSFER_STACK_REG", "EXCEPTION_REG"))
    [] ident = "get_exception_reg" -> emit(s, "PUSH_REG_STACK", "EXCEPTION_REG")
    [] ident = "clear_exception_reg" ->
         emit(push_unit(emit(s, "PUSH_REG_STACK", "EXCEPTION_REG")), "TRANSFER_STACK_REG", "EXCEPTION_REG")
    [] ident = "exit" -> emit_ops(s, <<"END">>)

compile_node(s, node) ==
  CASE node.kind = "literal"     -> compile_literal(s, node)
    [] node.kind = "lambda"      -> compile_lambda(s, node)
    [] node.kind = "identifier"  -> compile_identifier(s, node.ident)
    [] node.kind = "bin_op"      -> compile_bin_op(s, node)
    [] node.kind = "unary_op"    -> compile_unary_op(s, node)
    [] node.kind = "let"         -> compile_let_expr(s, node)
    [] node.kind = "application" -> compile_application(s, node)
    [] node.kind = "case"        -> compile_case_expression(s, node)
    [] node.kind = "if"          -> compile_if_expr(s, node)
    [] node.kind = "attribute"   -> compile_builtin(s, node.ident)
    [] node.kind = "underscore"  -> [s EXCEPT !.error = TRUE]
compile_expr(generator, node) == Once(generator, LAMBDA s : compile_node(s, node))

-----------------------------------------------------------------------------
(***************************************************************************)
(* top_level.c                                                             *)
(***************************************************************************)
\* A global function binds its arguments but not itself; a global that is not a
\* lambda is a thunk.  A constructor creates an object from its arguments.
leave_global(s, lambda, arity) ==
  emit_ops(IF lambda THEN emit(s, "REMOVE_BINDINGS", arity) ELSE s, <<"SWAP", "JUMP">>)
finish_top_level(s, start, ident, lambda, arity, variant) ==
  [create_constant(create_closure_info(s, arity, start, 0),
                   IF lambda THEN "closure" ELSE "thunk", Len(s.closures) + 1)
     EXCEPT !.globals[ident].constant_index = Len(s.constants) + 1,
            !.globals[ident].variant_index = variant,
            !.globals[ident].arg_count = arity,
            !.ctx[1].ident_stack = <<>>]

create_object(s, variant, arity) ==
  [emit(s, "CREATE_OBJECT", [variant |-> variant, arg_count |-> arity]) EXCEPT !.variant_count = @ + 1]

enter_global(s, params) ==
  emit_ops([s EXCEPT !.ctx[1].ident_stack = params], [i \in DOMAIN params |-> "CREATE_BINDING"])
compile_global_body(s, body, arity) ==
  IF body.kind = "constructor" THEN create_object(s, s.variant_count, arity) ELSE compile_expr(s, body)
compile_top_level(s, ident, lambda, params, body) ==
  finish_top_level(leave_global(compile_global_body(enter_global(s, params), body, Len(params)),
                                lambda, Len(params)),
                   Here(s), ident, lambda, Len(params),
                   IF body.kind = "constructor" THEN s.variant_count ELSE None)
compile_top_level_decl(s, ident, decl) ==
  compile_top_level(s, ident, decl.kind = "lambda", IF decl.kind = "lambda" THEN decl.params ELSE <<>>,
                    IF decl.kind = "lambda" THEN decl.body ELSE decl)

\* One piece of remapping work: its declaration is compiled unless that was done,
\* then the constant, or the variant for a pattern, is written where it was missing.
IsPattern(work) == work.arg_count # NoPattern
Compiled(info, work) ==
  info.constant_index # None /\ (IsPattern(work) => info.variant_index # None)
\* Mutant: a pattern is given the constant of its constructor.
remap_Constant(s, work, info) ==
  [patch(s, work.address, info.constant_index)
     EXCEPT !.error = @ \/ (IsPattern(work) /\ (info.arg_count # work.arg_count \/ ~info.is_constructor))]
remap(s, work, info) ==
  [patch(s, work.address, IF IsPattern(work) THEN info.variant_index ELSE info.constant_index)
     EXCEPT !.error = @ \/ (IsPattern(work) /\ (info.arg_count # work.arg_count \/ ~info.is_constructor))]
finish_remapping(s, work) == remap(s, work, s.globals[work.ident])

\* After an error the loop is left at the first work that would compile something.
try_remap_from_globals(s, work, info) ==
  CASE Compiled(info, work) -> remap(s, work, info)
    [] ~Compiled(info, work) /\ s.error -> [s EXCEPT !.queue = EmptyQueue]
    [] OTHER -> finish_remapping(compile_top_level_decl(s, work.ident, info.body), work)
dequeue_remapping_work(s) == [s EXCEPT !.queue = dequeue(@)]
RECURSIVE clear_remapping_queue(_)
clear_remapping_queue(s) ==
  IF s.queue.len = 0 THEN s
  ELSE clear_remapping_queue(
         try_remap_from_globals(dequeue_remapping_work(s), first(s.queue), s.globals[first(s.queue).ident]))

global_info(d) ==
  [body |-> d.body, is_constructor |-> IsConstructor(d), arg_count |-> 0,
   constant_index |-> None, variant_index |-> None]
InitialState(globals) ==
  [code |-> <<>>, constants |-> BuiltinConstants, closures |-> <<>>, ctx |-> <<NewContext>>,
   queue |-> EmptyQueue, variant_count |-> 0, error |-> FALSE,
   globals |-> [x \in { d.name : d \in globals } |-> global_info(CHOOSE d \in globals : d.name = x)]]

\* main is applied by run, forced, and the machine ends; then the globals that
\* turned out to be needed are compiled.
call_force(s) ==
  emit(emit_ops(emit(emit(s, "PUSH_REG_STACK", "INSTRUCTION_PTR"), "U64_ADD", 12), <<"SWAP">>),
       "JUMP_GLOBALS", "FORCE")
generate_code(p) ==
  clear_remapping_queue(emit_ops(call_force(
    compile_application(InitialState(p.globals), Application(Identifier("run"), p.main))), <<"END">>))
=============================================================================
