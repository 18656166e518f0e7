----------------------------- MODULE Labelling -----------------------------
(***************************************************************************)
(* The layouts of a program, found by following its code from where        *)
(* functions begin.                                                        *)
(***************************************************************************)
EXTENDS Layouts

\* What an instruction makes of a layout l, and where: nothing if it has not the words for it.
Flow(c, L, a) ==
  LET i == Instr(c, a)
      l == L[a]
      n == Beyond(c, a)
      \* Where a value is waited for, no more is known of it.
      AsAwaited(to, known) ==
        IF Instr(c, to).op = "EVAL" /\ known.words # <<>>
        THEN [known EXCEPT !.words[Len(known.words)] = VALUE, !.reg = NOTHING] ELSE known
      To(to, known) == IF to \in 0..(Len(c.code) - 1) THEN { [to |-> to, l |-> AsAwaited(to, known)] } ELSE {}
      Has(k) == Len(l.words) >= k
      Push(k) == To(n, Replaced(l, 0, <<k>>))
      top == FromTop(l.words, 0)
      popped == [Replaced(l, 1, <<>>) EXCEPT !.mode = READY]
  IN CASE IsPlain(i) -> IF Has(Taken(i)) THEN To(n, Replaced(l, Taken(i), Values(Left(i)))) ELSE {}
       [] i.op = "PUSH_REG_STACK" /\ ~IsPlain(i) ->
            Push(CASE i.arg = "INSTRUCTION_PTR" -> ADDRESS(n) [] i.arg = "BINDING_PTR" -> DEPTH(Len(l.binds))
                   [] i.arg = "REG_1" -> l.reg)
       [] i.op = "TRANSFER_STACK_REG" /\ ~IsPlain(i) ->
            IF Has(1) THEN To(n, [Replaced(l, 1, <<>>) EXCEPT !.reg = top]) ELSE {}
       [] i.op = "COPY_STACK_REG" ->
            IF Has(1) /\ top.kind = "depth"
            THEN To(n, [l EXCEPT !.mode = READY, !.binds = SubSeq(@, 1, Min({top.n, Len(@)}))]) ELSE {}
       [] i.op = "SWAP" ->
            CASE Has(2) -> To(n, Replaced(l, 2, <<top, FromTop(l.words, 1)>>))
              [] Len(l.words) = 1 -> To(n, Continuation(RETURNING, <<>>))
              [] OTHER -> {}
       [] i.op = "COPY" -> IF Has(1) THEN Push(top) ELSE {}
       [] i.op = "POP_U64" -> IF Has(1) THEN To(n, Replaced(l, 1, <<>>)) ELSE {}
       [] i.op = "U64_ADD" -> IF Has(1) THEN To(n, Replaced(l, 1, <<ADDRESS(top.n + i.arg)>>)) ELSE {}
       [] i.op = "JUMP_REL" -> To(n + i.arg, l)
       [] i.op = "JUMP_REL_CONDITIONAL" ->
            IF ~Has(1) THEN {}
            ELSE To(n, popped) \cup
                 IF l.mode.kind = "tested" /\ Has(2)
                 THEN To(n + i.arg, Replaced(popped, 1, <<VARIANT(l.mode.n)>>)) ELSE To(n + i.arg, popped)
       [] i.op = "READ_BINDING" -> IF i.arg < Len(l.binds) THEN Push(FromTop(l.binds, i.arg)) ELSE {}
       [] i.op = "CREATE_BINDING" ->
            IF Has(1) THEN To(n, [Replaced(l, 1, <<>>) EXCEPT !.binds = Append(@, top)]) ELSE {}
       [] i.op \in {"REMOVE_BINDING", "REMOVE_BINDINGS"} ->
            LET k == IF i.op = "REMOVE_BINDING" THEN 1 ELSE i.arg
            IN  IF k <= Len(l.binds) THEN To(n, [l EXCEPT !.binds = Drop(@, k)]) ELSE {}
       [] i.op = "CAPTURE_READ" -> Push(VALUE)
       [] i.op \in {"CREATE_CLOSURE", "CREATE_THUNK"} ->
            To(n, [Replaced(l, 0, <<NEW_OBJECT>>) EXCEPT
                     !.mode = MADE(IF i.op = "CREATE_CLOSURE" THEN "closure" ELSE "thunk", i.arg)])
       [] i.op \in {"WRITE_CLOSURE", "WRITE_THUNK"} ->
            IF IsMade(l.mode) /\ Has(c.closures[l.mode.n].capture_count + 1)
            THEN To(n, Stored(Replaced(l, c.closures[l.mode.n].capture_count + 1, <<NEW_OBJECT>>)))
            ELSE {}
       [] i.op = "IS_VARIANT" ->
            IF Has(1) THEN To(n, [Replaced(l, 1, Values(2)) EXCEPT !.mode = TESTED(i.arg)]) ELSE {}
       [] i.op = "OBJECT_READ" -> Push(VALUE)
       [] i.op = "EVAL" -> IF Has(1) THEN To(n, Replaced(l, 1, <<WHNF>>)) ELSE {}
       [] i.op = "JUMP_GLOBALS" ->
            LET k == FUNCTIONS[CHOOSE f \in DOMAIN FUNCTIONS : FUNCTIONS[f].name = i.arg].name
                count == IF k \in {"NEG", "NOT", "FORCE"} THEN 1 ELSE 2
                entry == [Continuation(READY, Values(count)) EXCEPT !.reg = NOTHING]
            IN  To(GlobalAt(c, k), entry) \cup
                IF Has(count + 1) THEN To(FromTop(l.words, count).n, [Replaced(l, count + 1, <<VALUE>>) EXCEPT !.reg = NOTHING])
                ELSE {}
       [] i.op = "UPDATE_THUNK" -> IF Has(2) THEN To(n, Replaced(l, 2, <<WHNF>>)) ELSE {}
       [] OTHER -> {}

\* What is known where two paths meet.
MetKind(k, l) == IF k = l THEN k ELSE IF IsReference(k) /\ IsReference(l) THEN VALUE ELSE NOTHING
Met(k, l) ==
  IF Len(k.words) # Len(l.words) THEN k
  ELSE LET n == Min({Len(k.binds), Len(l.binds)})
       IN  [k EXCEPT !.mode = IF k.mode = l.mode /\ Len(k.binds) = Len(l.binds) THEN @ ELSE FAILING,
                     !.words = [i \in DOMAIN @ |-> MetKind(k.words[i], l.words[i])],
                     !.binds = [i \in 1..n |-> MetKind(k.binds[i], l.binds[i])],
                     !.reg = IF k.reg = l.reg THEN @ ELSE NOTHING]
RECURSIVE AllMet(_)
AllMet(layouts) ==
  LET k == CHOOSE k \in layouts : TRUE
  IN  IF Cardinality(layouts) = 1 THEN k
      ELSE LET l == CHOOSE l \in layouts \ {k} : TRUE
           IN  AllMet((layouts \ {k, l}) \cup {Met(k, l)})

RECURSIVE Traced(_, _, _)
Traced(c, L, work) ==
  IF work = {} THEN L
  ELSE LET reached == UNION { Flow(c, L, a) : a \in work }
           targets == { r.to : r \in reached }
           known(a) == IF a \in DOMAIN L THEN {L[a]} ELSE {}
           met == [a \in targets |-> AllMet(known(a) \cup { r.l : r \in { r \in reached : r.to = a } })]
       IN  Traced(c, met @@ L, { a \in targets : a \notin DOMAIN L \/ met[a] # L[a] })

Roots(c) ==
  [a \in {0} |-> Start]
    @@ [a \in { c.closures[i].address : i \in DOMAIN c.closures } |->
          LET i == CHOOSE i \in DOMAIN c.closures : c.closures[i].address = a
          IN  [Continuation(READY, Values(c.closures[i].arity)) EXCEPT !.reg = SELF(i)]]
    @@ [a \in {GlobalAt(c, "UPDATE_THUNK")} |-> Continuation(READY, <<THUNK, VALUE>>)]
    @@ [a \in {GlobalAt(c, "APPL_CONT")} |-> Continuation(APPLYING, <<VALUE>>)]
Awaiting(c, L) ==
  [a \in DOMAIN L |-> IF Instr(c, a).op = "EVAL" THEN [L[a] EXCEPT !.reg = NOTHING] ELSE L[a]]
Constructions(c, L) ==
  { c.code[a + 1].arg : a \in { a \in DOMAIN L : c.code[a + 1].op = "CREATE_OBJECT" } }
LayoutsOf(c) ==
  LET L == Traced(c, Awaiting(c, Roots(c)), DOMAIN Roots(c))
      made == Constructions(c, L)
  IN  [at |-> L, arity |-> [v \in { o.variant : o \in made } |-> (CHOOSE o \in made : o.variant = v).arg_count]]
=============================================================================
