------------------------------ MODULE Layouts ------------------------------
(***************************************************************************)
(* What the code of a program keeps to, so that the machine finds what it  *)
(* expects.  A layout says of an address which words the function that is  *)
(* executed there has on the stack, which bindings it made, and what is in *)
(* REG_1.  The machine checks none of this: pop_val looks at the tag of a  *)
(* word, and vm.c panics where a binding or a field is missing.            *)
(***************************************************************************)
EXTENDS Execution

CONSTANT Layouts   \* for each program [at |-> the layouts of its addresses,
                   \*                   arity |-> the arguments of its constructors]

(***************************************************************************)
(* What is known of a word, or of a binding:                               *)
(*   value       a reference to an object                                  *)
(*   whnf        to one that is evaluated                                  *)
(*   thunk       to a thunk                                                *)
(*   self i      to a function or thunk of closure info i                  *)
(*   variant v   to an object of constructor v                             *)
(*   new         to the object made last, whose captures are not written   *)
(*   address a   an address of the code                                    *)
(*   depth n     BINDING_PTR when the function had n bindings              *)
(***************************************************************************)
Kind(kind, n) == [kind |-> kind, n |-> n]
VALUE == Kind("value", 0)
WHNF == Kind("whnf", 0)
THUNK == Kind("thunk", 0)
NEW_OBJECT == Kind("new", 0)
SELF(i) == Kind("self", i)
VARIANT(v) == Kind("variant", v)
ADDRESS(a) == Kind("address", a)
DEPTH(n) == Kind("depth", n)
IsReference(k) == k.kind \in {"value", "whnf", "thunk", "self", "variant", "new"}

(***************************************************************************)
(* A layout is [place, mode, words, binds, reg]: in the function that run_vm *)
(* entered ("main") or in one with a caller ("function"); words and        *)
(* bindings, the last on top; REG_1, or NOTHING.  The mode is READY, or     *)
(*   FAILING     a pattern did not match: there may be further bindings    *)
(*   TESTED(v)   on top is whether the word below is an object of variant v *)
(*   MADE(t, i)  the object made last, a closure or thunk of info i, waits *)
(*               for its captures                                          *)
(*   APPLYING    below the words are arguments and their number            *)
(*   RETURNING   the result is on the stack, and on it where it goes       *)
(***************************************************************************)
NOTHING == Kind("nothing", 0)
READY == Kind("ready", 0)
FAILING == Kind("failing", 0)
TESTED(v) == Kind("tested", v)
MADE(type, i) == Kind(type, i)
APPLYING == Kind("applying", 0)
RETURNING == Kind("returning", 0)
IsMade(mode) == mode.kind \in {"closure", "thunk"}

FromTop(kinds, n) == kinds[Len(kinds) - n]
\* There are n words, references all of them.
HasReferences(l, n) == Len(l.words) >= n /\ \A i \in 0..(n - 1) : IsReference(FromTop(l.words, i))
Values(n) == [i \in 1..n |-> VALUE]
Replaced(l, n, kinds) == [l EXCEPT !.words = Drop(@, n) \o kinds]

\* What is known may be forgotten.
Below(k, known) == k = known \/ (known = VALUE /\ IsReference(k))
AllBelow(kinds, known, n) == \A i \in 1..n : Below(kinds[i], known[i])
Admits(l, known) ==
  /\ l.place = known.place
  /\ l.mode = known.mode \/ (l.mode = READY /\ known.mode = FAILING)
  /\ Len(l.words) = Len(known.words) /\ AllBelow(l.words, known.words, Len(l.words))
  /\ Len(l.binds) >= Len(known.binds) /\ AllBelow(l.binds, known.binds, Len(known.binds))
  /\ Len(l.binds) = Len(known.binds) \/ known.mode = FAILING
  /\ known.reg = NOTHING \/ Below(l.reg, known.reg)

\* A function can wait here for a value, which will be on top.
Waits(l) ==
  /\ l.mode \in {READY, APPLYING} /\ l.reg = NOTHING
  /\ Len(l.words) >= 1 /\ FromTop(l.words, 0) = VALUE
\* A function with n arguments begins.
Begins(l, n) == l.place = "function" /\ l.mode = READY /\ l.words = Values(n) /\ l.binds = <<>>

-----------------------------------------------------------------------------
(***************************************************************************)
(* The instructions.  Most take references and leave references.           *)
(***************************************************************************)
Taken(i) ==
  CASE i.op = "CALL_EXTERN" -> ExternOperands(i.arg)
    [] i.op = "TRANSFER_STACK_REG" -> 1
    [] i.op = "PARTIAL_APPLY" -> i.arg + 1
    [] OTHER -> Operands(i.op)
Left(i) ==
  CASE i.op = "TRANSFER_STACK_REG" -> 0
    [] i.op = "CALL_EXTERN" /\ i.arg = "WRITE" -> 0
    [] i.op \in {"IS_CONS", "IS_OBJ", "IS_INT", "IS_BOOL", "IS_UNIT"} -> 2
    [] OTHER -> 1
IsPlain(i) ==
  \/ i.op \in {"PUSH_CONST", "TRUE", "FALSE", "CREATE_CONS", "HEAD", "TAIL", "ADD", "SUBTRACT",
               "MULTIPLY", "DIVIDE", "LESS", "GREATER", "EQUAL", "NEGATE", "NOT", "PARTIAL_APPLY",
               "CREATE_OBJECT", "CALL_EXTERN", "IS_CONS", "IS_OBJ", "IS_INT", "IS_BOOL", "IS_UNIT"}
  \/ i.op \in {"PUSH_REG_STACK", "TRANSFER_STACK_REG"} /\ i.arg = "EXCEPTION_REG"

\* c is a chunk, L its layouts, A the arities of its constructors.
Instr(c, a) == c.code[a + 1]
Beyond(c, a) == a + 1 + OperandSize(Instr(c, a).op)
GlobalAt(c, f) == c.global_function_start + Offset[f]
Goes(L, l, to) == to \in DOMAIN L /\ Admits(l, L[to])
GoesOn(c, L, a, l) == Goes(L, l, Beyond(c, a))

Computes(c, L, A, a) ==
  LET i == Instr(c, a)
  IN  /\ IsPlain(i) /\ L[a].mode = READY
      /\ HasReferences(L[a], Taken(i))
      /\ GoesOn(c, L, a, Replaced(L[a], Taken(i), Values(Left(i))))
      /\ i.op = "PUSH_CONST" => i.arg \in DOMAIN c.constants
      /\ i.op = "PARTIAL_APPLY" => i.arg \in Nat
      /\ i.op = "CREATE_OBJECT" =>
           /\ i.arg.arg_count \in 0..Len(L[a].binds)
           /\ i.arg.variant \in DOMAIN A /\ A[i.arg.variant] = i.arg.arg_count

Moves(c, L, a) ==
  LET i == Instr(c, a)
      l == L[a]
      top == FromTop(l.words, 0)
  IN  \/ /\ i.op = "PUSH_REG_STACK" /\ l.mode = READY
         /\ \/ i.arg = "INSTRUCTION_PTR" /\ GoesOn(c, L, a, Replaced(l, 0, <<ADDRESS(Beyond(c, a))>>))
            \/ i.arg = "BINDING_PTR" /\ GoesOn(c, L, a, Replaced(l, 0, <<DEPTH(Len(l.binds))>>))
            \/ i.arg = "REG_1" /\ l.reg # NOTHING /\ GoesOn(c, L, a, Replaced(l, 0, <<l.reg>>))
      \/ /\ i.op = "TRANSFER_STACK_REG" /\ i.arg = "REG_1" /\ l.mode = READY /\ HasReferences(l, 1)
         /\ GoesOn(c, L, a, [Replaced(l, 1, <<>>) EXCEPT !.reg = top])
      \/ /\ i.op = "COPY_STACK_REG" /\ l.mode \in {READY, FAILING}
         /\ Len(l.words) >= 1 /\ top.kind = "depth" /\ top.n \in 0..Len(l.binds)
         /\ GoesOn(c, L, a, [l EXCEPT !.mode = READY, !.binds = SubSeq(@, 1, top.n)])
      \/ /\ i.op = "SWAP" /\ l.mode \in {READY, FAILING} /\ Len(l.words) >= 2
         /\ GoesOn(c, L, a, Replaced(l, 2, <<top, FromTop(l.words, 1)>>))
      \/ /\ i.op = "COPY" /\ l.mode = READY /\ Len(l.words) >= 1
         /\ GoesOn(c, L, a, Replaced(l, 0, <<top>>))
      \/ /\ i.op = "POP_U64" /\ l.mode \in {READY, FAILING} /\ Len(l.words) >= 1
         /\ GoesOn(c, L, a, Replaced(l, 1, <<>>))
      \/ /\ i.op = "U64_ADD" /\ l.mode = READY /\ Len(l.words) >= 1 /\ top.kind = "address" /\ i.arg \in Nat
         /\ GoesOn(c, L, a, Replaced(l, 1, <<ADDRESS(top.n + i.arg)>>))
      \/ /\ i.op = "JUMP_REL" /\ l.mode \in {READY, FAILING}
         /\ Goes(L, l, Beyond(c, a) + i.arg)

Forks(c, L, a) ==
  LET i == Instr(c, a)
      l == L[a]
      popped == [Replaced(l, 1, <<>>) EXCEPT !.mode = READY]
  IN  /\ i.op = "JUMP_REL_CONDITIONAL" /\ HasReferences(l, 1)
      /\ GoesOn(c, L, a, popped)
      /\ \/ l.mode = READY /\ Goes(L, popped, Beyond(c, a) + i.arg)
         \/ /\ l.mode.kind = "tested" /\ HasReferences(l, 2)
            /\ Goes(L, Replaced(popped, 1, <<VARIANT(l.mode.n)>>), Beyond(c, a) + i.arg)

Binds(c, L, a) ==
  LET i == Instr(c, a)
      l == L[a]
      bound(n) == FromTop(l.binds, n)
  IN  \/ /\ i.op = "READ_BINDING" /\ (l.mode = READY \/ IsMade(l.mode)) /\ i.arg \in 0..(Len(l.binds) - 1)
         /\ GoesOn(c, L, a, Replaced(l, 0, <<bound(i.arg)>>))
      \/ /\ i.op = "CREATE_BINDING" /\ (l.mode = READY \/ IsMade(l.mode)) /\ HasReferences(l, 1)
         /\ GoesOn(c, L, a, [Replaced(l, 1, <<>>) EXCEPT !.binds = Append(@, FromTop(l.words, 0))])
      \/ /\ i.op \in {"REMOVE_BINDING", "REMOVE_BINDINGS"} /\ l.mode = READY
         /\ LET n == IF i.op = "REMOVE_BINDING" THEN 1 ELSE i.arg
            IN  n \in 0..Len(l.binds) /\ GoesOn(c, L, a, [l EXCEPT !.binds = Drop(@, n)])
      \/ /\ i.op = "CAPTURE_READ" /\ (l.mode = READY \/ IsMade(l.mode)) /\ i.arg.offset \in 0..(Len(l.binds) - 1)
         /\ bound(i.arg.offset).kind = "self" /\ bound(i.arg.offset).n \in DOMAIN c.closures
         /\ i.arg.capture \in 0..(c.closures[bound(i.arg.offset).n].capture_count - 1)
         /\ GoesOn(c, L, a, Replaced(l, 0, <<VALUE>>))

\* What is new is an object like others once its captures are written.
AllWritten(kinds) == [i \in DOMAIN kinds |-> IF kinds[i].kind = "new" THEN VALUE ELSE kinds[i]]
Stored(l) == [l EXCEPT !.mode = READY, !.words = AllWritten(@), !.binds = AllWritten(@)]
Makes(c, L, A, a) ==
  LET i == Instr(c, a)
      l == L[a]
      type == IF i.op \in {"CREATE_CLOSURE", "WRITE_CLOSURE"} THEN "closure" ELSE "thunk"
  IN  \/ /\ i.op \in {"CREATE_CLOSURE", "CREATE_THUNK"} /\ l.mode = READY /\ i.arg \in DOMAIN c.closures
         /\ type = "thunk" => c.closures[i.arg].arity = 0
         /\ GoesOn(c, L, a, [Replaced(l, 0, <<NEW_OBJECT>>) EXCEPT !.mode = MADE(type, i.arg)])
      \/ /\ i.op \in {"WRITE_CLOSURE", "WRITE_THUNK"} /\ l.mode.kind = type /\ l.mode.n \in DOMAIN c.closures
         /\ LET n == c.closures[l.mode.n].capture_count
            IN  /\ HasReferences(l, n + 1) /\ FromTop(l.words, 0) = NEW_OBJECT
                /\ GoesOn(c, L, a, Stored(Replaced(l, n + 1, <<NEW_OBJECT>>)))
      \/ /\ i.op = "IS_VARIANT" /\ l.mode = READY /\ HasReferences(l, 1)
         /\ GoesOn(c, L, a, [Replaced(l, 1, Values(2)) EXCEPT !.mode = TESTED(i.arg)])
      \/ /\ i.op = "OBJECT_READ" /\ l.mode = READY /\ Len(l.words) >= 1
         /\ FromTop(l.words, 0).kind = "variant" /\ FromTop(l.words, 0).n \in DOMAIN A
         /\ i.arg \in 0..(A[FromTop(l.words, 0).n] - 1)
         /\ GoesOn(c, L, a, Replaced(l, 0, <<VALUE>>))

Enters(c, L, a) ==
  LET i == Instr(c, a)
      l == L[a]
  IN  \/ /\ i.op = "EVAL" /\ Waits(l)
         /\ GoesOn(c, L, a, Replaced(l, 1, <<WHNF>>))
      \/ /\ i.op = "JUMP_GLOBALS" /\ l.mode = READY
         /\ GlobalAt(c, i.arg) \in DOMAIN L
         /\ LET f == L[GlobalAt(c, i.arg)]
                n == Len(f.words)
                r == FromTop(l.words, n)
            IN  /\ Begins(f, n) /\ f.reg = NOTHING
                /\ HasReferences(l, n) /\ Len(l.words) > n /\ r.kind = "address"
                /\ Goes(L, [Replaced(l, n + 1, <<VALUE>>) EXCEPT !.reg = NOTHING], r.n)
                /\ Waits(L[r.n])
      \/ /\ i.op = "UPDATE_THUNK" /\ l.mode = READY /\ Len(l.words) >= 2
         /\ FromTop(l.words, 0) = WHNF /\ FromTop(l.words, 1) = THUNK
         /\ GoesOn(c, L, a, Replaced(l, 2, <<WHNF>>))
      \/ /\ i.op = "HANDLE_CONTINUATION" /\ l.mode = APPLYING /\ l.place = "function"
         /\ l.binds = <<>> /\ Len(l.words) = 1 /\ HasReferences(l, 1)

Leaves(c, L, a) ==
  LET i == Instr(c, a)
      l == L[a]
  IN  \/ /\ i.op = "SWAP" /\ l.mode = READY /\ l.place = "function"
         /\ Len(l.words) = 1 /\ HasReferences(l, 1) /\ l.binds = <<>>
         /\ Beyond(c, a) \in DOMAIN L /\ L[Beyond(c, a)].mode = RETURNING
      \/ i.op = "JUMP" /\ l.mode = RETURNING
      \/ i.op \in {"PATTERN_MATCH_FAIL", "END"}

-----------------------------------------------------------------------------
\* A layout is one, and new is only what was made and not written.
IsLayout(l) ==
  /\ l = [place |-> l.place, mode |-> l.mode, words |-> l.words, binds |-> l.binds, reg |-> l.reg]
  /\ l.place \in {"main", "function"}
  /\ IsList(l.words) /\ IsList(l.binds)
  /\ \A i \in DOMAIN l.binds : IsReference(l.binds[i])
  /\ l.reg = NOTHING \/ (IsReference(l.reg) /\ l.reg.kind # "new")
  /\ IsMade(l.mode) \/ \A i \in DOMAIN l.words : l.words[i].kind # "new"
  /\ IsMade(l.mode) \/ \A i \in DOMAIN l.binds : l.binds[i].kind # "new"
  /\ l.mode = RETURNING => l.reg = NOTHING

\* A function or thunk begins with its arguments, itself in REG_1.
IsInfo(c, L, i) ==
  LET f == c.closures[i]
  IN  /\ f.arity \in Nat /\ f.capture_count \in Nat
      /\ f.address \in DOMAIN L
      /\ Begins(L[f.address], f.arity)
      /\ L[f.address].reg \in {NOTHING, SELF(i)}

\* What every program begins with: a function or thunk among the constants has no captures.
IsConstant(c, k) ==
  /\ k.type \in BoxTypes \cup {"closure", "thunk"}
  /\ k.type \in {"closure", "thunk"} => k.n \in DOMAIN c.closures /\ c.closures[k.n].capture_count = 0
  /\ k.type = "thunk" => c.closures[k.n].arity = 0

Continuation(mode, words) ==
  [place |-> "function", mode |-> mode, words |-> words, binds |-> <<>>, reg |-> NOTHING]
Start == [place |-> "main", mode |-> READY, words |-> <<>>, binds |-> <<>>, reg |-> NOTHING]

Obeys(c, L, A, a) ==
  /\ a \in 0..(Len(c.code) - 1) /\ IsLayout(L[a])
  /\ \/ Computes(c, L, A, a) \/ Moves(c, L, a) \/ Forks(c, L, a) \/ Binds(c, L, a)
     \/ Makes(c, L, A, a) \/ Enters(c, L, a) \/ Leaves(c, L, a)
Verified(c, L, A) ==
  /\ \A a \in DOMAIN L : Obeys(c, L, A, a)
  /\ \A v \in DOMAIN A : A[v] \in Nat
  /\ \A i \in DOMAIN c.closures : IsInfo(c, L, i)
  /\ \A i \in DOMAIN c.constants : IsConstant(c, c.constants[i])
  /\ 0 \in DOMAIN L /\ L[0] = Start
  /\ GlobalAt(c, "UPDATE_THUNK") \in DOMAIN L
  /\ L[GlobalAt(c, "UPDATE_THUNK")] = Continuation(READY, <<THUNK, VALUE>>)
  /\ GlobalAt(c, "APPL_CONT") \in DOMAIN L
  /\ L[GlobalAt(c, "APPL_CONT")] = Continuation(APPLYING, <<VALUE>>)

\* The code that is generated obeys its layouts, whichever way it is executed: it takes
\* from the stacks only what it put there, on every path (codegen, builtins.c).
CodeObeys ==
  ip = 0 /\ stack = <<>> => Verified(chunk, Layouts[program].at, Layouts[program].arity)

\* The machine ends where run_vm began it, with the result alone: END is the last instruction
\* of main, unless a function may end the program in the middle of others (std..exit).
EndsInMain ==
  LET L == Layouts[program].at
  IN  \A a \in DOMAIN L : At(a).op = "END" =>
        /\ L[a].place = "main" /\ L[a].mode = READY
        /\ Len(L[a].words) = 1 /\ L[a].binds = <<>>
=============================================================================
