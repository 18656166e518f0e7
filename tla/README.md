# Verification of the functional language

The repository holds a compiler and a virtual machine for a small lazy functional
language. A program passes through

    lexer, parser -> reduction -> module resolution -> global pass -> code generator -> chunk
    chunk -> virtual machine (evaluation, calls, extern functions) <-> allocator, garbage collector

Everything runs in one thread and once per program. What makes it hard is not
concurrency but protocols that spread over many steps: a collection that may
happen after any instruction, evaluation that is suspended on the machine's own
stack, code that is patched after it was emitted, and calls with fewer or more
arguments than the callee has parameters.

## Inventory

| Component | State | Operations | Correct when |
|---|---|---|---|
| Allocator and collector: `object.c`, `vm/gc.c` | list `most_recent_alloc`, mark flags, `worklist`, `allocated_memory`, `heap_size` | `alloc_obj`, `try_gc`, `mark_roots`, `trace_objects`, `sweep`, `free_objects` | what the program can reach exists, what it cannot reach is freed, each object is on the list once, a collection ends |
| Machine: `vm/vm.c`, `vm/utils.c` | stack, binding stack, registers, chunk | one case per instruction | every instruction finds its operands; jumps land on instructions; stacks are balanced; the stack grows in time |
| Evaluation and calls: `vm/eval_val.c`, `vm/function_call.c` | continuations, thunks, arguments on the machine's stack | `OP_EVAL`, `function_call`, `handle_continuation`, `partial_apply` | a thunk is evaluated once; arguments arrive in order whatever their number |
| Bytecode and built-ins: `bytecode.*`, `compiler/builtins.*` | constants, closure infos, code of the built-in functions | `write_global_functions`, offsets | operands as documented |
| Code generator: `compiler/codegen/*` | contexts with identifiers and captures, code, remapping queue | one function per kind of node, patching | the code computes what the source means |
| Reduction: `compiler/reduction.c` | the tree | `reduce_declaration`, `reduce_uses` | items of `use` declarations become aliases that stand for what they name |
| Module resolution: `compiler/module_resolution.c`, `file_compilation.c` | table of modules and items, worklist, list of files | walk over the module declarations, one piece of work at a time | every submodule's item leads to the module made for it; the work runs out |
| Global resolution: `codegen/global_pass.c`, `global_resolution.c` | globals of each module | `resolve_path`, `resolve_global_path`, `find_global_decl` | a path leads to the item its author sees, or to the right error; it ends |
| Remapping queue: `codegen/remapping.c` | ring buffer | enqueue, dequeue, grow | nothing lost, order kept |
| Lexer and parser: `lexer.c`, `parsing/parser.c` | position, line; tokens `prev` and `current`, first error | one function per kind of token and of node | the tree stands for the text; no item is lost, repeated or out of its order; an end is reached; no crash without an error |
| Slices: `vm/extern_functions/slice_functions.c`, `std..slice` | arrays, slices of arrays | drop, take, index, length, join, cons, push, equality | slices behave as sequences and stay within their arrays, as long as a u32 counts the bytes of a list |
| Bytecode files: `bytecode/binary.c` | file | write, read | what is read is what was written, and only whole files are read |
| Input and output: `vm/extern_functions/extern_functions.c`, `codegen/attributes.c`, `std.._io` | file handles, exception register | open, close, read, write; `bind`, `catch`, `throw`, `with_file`, `run` | effects happen once and in order; exceptions end what they should; a closed file is not used |
| Identifier table, arena | tables | | |
| Driver, diagnostics, prelude | | | |

They interact by calls and by shared state: the interpreter and the collector
share the heap, the stacks and the registers (`try_gc` at the end of every
instruction); the code generator and the machine share the layout of
instructions, of captures and of the binding stack, agreed on nowhere but in the
two implementations; compiling one global enqueues others.
`PROJECT.json` lists all components with their status, and the hazards, each at its line.

## Modules

### The collector

* `Reachability` defines reachability over an edge function as the least closed
  set, without recursion, so that it can be used in proofs.
* `HeapSpec` is what the interpreter relies on: objects are obtained, references
  move along what is reachable, a collection discards in one step exactly what is
  not. No marks, no list.
* `MarkSweep` is the collector as it is. Its variables are those of the code
  (`most_recent_alloc`, `marked` for the flags, `stack`, `bindings`, `reg_1`,
  `exception_reg`, `allocated_memory`, `heap_size`, `worklist`) with `phase` and
  `current` for the place in `run_gc`. The instructions that allocate, write
  fields or move references are actions named after the instruction; each ends in
  `try_gc`, which decides whether a collection comes next. `MarkRoots`,
  `TraceObject`, `StartSweep`, `SweepMarked`, `SweepUnreferenced` and `EndSweep`
  are `run_gc`; `end_vm` is the end of the machine.
  Objects that `process_obj` treats alike share a type: a leaf has no children, a
  data object has fields, closures, thunks and applications have fields and a link.
  Untagged words of the stack are left out, memory is counted in objects, the
  worklist is a set.
* `MCMarkSweep` adds the symmetry of cells for TLC.
* `MarkSweepProofs` holds the proofs.

### Compiler and machine

* `Syntax`: the nodes of `parsing/nodes.h` as records; declarations in the form
  `reduce_declaration` leaves them in.
* `Bytecode`: sizes of instructions, the code of the built-in functions. An
  address is a byte address, an instruction being followed by filler for its
  operand bytes, so that jump distances are those of the code.
* `Codegen`: `expr.c`, `pattern_matching.c`, `top_level.c`, `codegen.c` as
  operators from a state of the generator to the next; `generate_code` yields the
  chunk. Constants are numbered instead of addressed by words.
* `RemappingQueue`: the ring buffer of `remapping.c`, slots, start and length,
  which `Codegen` uses for references that were compiled before what they refer
  to. `RemappingQueueProofs` shows that it is a sequence.
* `Machine`: one action per instruction with the calls it makes (`EVAL`,
  `HANDLE_CONTINUATION`, `PARTIAL_APPLY`, ...), growth of the stack, errors
  (`status = "error"`) and what would be a panic or undefined (`"fault"`).
  `runtime_error` does not abort the instruction; the machine stops after it.
* `Meaning`: what a program means, on the tree, with environments and no
  addresses, stacks or jumps. This is the abstract specification: arguments and
  declarations wait until they are needed, operators are applied when met, an
  error anywhere is an error of the program.
* `Execution` composes them: a program is compiled and executed. `Agreement` relates the
  machine's state to the meaning. `MCExecution` holds the programs.
* `Layouts`: what the code of a program keeps to so that the machine finds what it
  expects. A layout says of an address which words the function executed there has on
  the stack, which bindings it made and what is in `REG_1`; `Obeys` is what each
  instruction asks of its layout and of those it leads to. The vm checks none of it.
  `Labelling` finds the layouts by following the code, for TLC.
* `Frames`: the stacks of a machine that executes such code, a frame for each function
  that waits. `Soundness` and `MachineProofs` hold the proofs;
  `DataLemmas` what they need of numbers and sequences.
* `HeapUse` connects the machine with the collector: what `mark_roots` takes for roots
  and `process_obj` follows, in terms of the machine, and what an instruction may do with
  references and objects (`Uses`). `MachineProofs` maps the machine's heap to that of
  `HeapSpec` (`Heap`).
* `BytecodeFile`: `write_chunk_to` and `chunk_from`. A file is a sequence of cells,
  one per field or element of a list; `fwrite` may fail at any cell, and a file may
  end at any cell. Built-in constants are written but passed over when read,
  built-in types counted but not written, as in the code.

* `Streams`: the streams and files of the C library as the extern functions use them;
  a world is what is outside of the machine, with the calls that were made of it.
* `StdIO`: the declarations of `std.._io` as nodes of the tree, which `Codegen` compiles
  and `Machine` executes: actions are objects with a function from a state to a pair.
* `Effects`: programs of input and output. `Do` is the reference: an action does its
  effects when it is run and yields or raises; no register, no pairs, no laziness.
  `Expression` is the same action as a program. `MCEffects` holds the programs.

What is read or written is a number, a path is a number, and a path's preparation
(`as_path`, the zero byte behind it) is left out. Peculiarities kept: after an
exception `with_file` leaves its file open; reading past the end of a file yields a
text without a length and no exception; a file that cannot be opened is an exception.

`Meaning`, `Codegen`, `Labelling` and the comparison of results (`Agreement`) are recursive
over programs and values; they use RECURSIVE operators and no theorem depends on them.
A program comes to `Execution` compiled, as a constant: what the proofs need of it is
`ProgramsAssumption` (the generator's lists are lists and begin with the constants of
every chunk), which TLC evaluates for the programs of the runs.

### Modules, paths and references

* `Modules`: `resolve_ast` step by step. `program` is given as nodes (a
  `ModuleDeclNode` or a file's top level); `modules`, `todo`, `at` and `worklist`
  are the table, the module declarations still to be walked over in the current
  module, that module, and the stack of queued nodes and files; `files` is the list
  of compiled files. `SelfModule`, `RefuseSelf`, `RefuseFile`, `RefuseRedeclared`
  and `Submodule` are one iteration of the walk, `ResolveNode`, `ResolveFile` and
  `FileUnusable` one piece of work, `ListGlobals` one module of `run_global_pass`.
  `reduced_declarations` and `reduced_submodules` are what reduction makes of `use`
  declarations. The lookup of a module's file (`file_compilation.c`) is part of it;
  a path is a sequence of names and slashes.
  Libraries other than `std` are left out: the driver configures none, so that the
  loop over them (`module_resolution.c:330`) never runs.
* `Paths`: `resolve_path`, `resolve_global`, `resolve_global_path`,
  `find_global_decl` as functions of the finished table, with the limit of 32
  aliases. `reached` is the loop of `resolve_path`, by the number of names it has
  passed; `resolve_alias` is its recursion, by depth.
* `References`: `clear_remapping_queue` where it follows a reference to an alias of
  a constructor, across modules: `Refer`, `Dequeue`.
* `Places` is the reference: what a path means, read off the declarations of the
  program without table, indices or worklist. `MCModules` holds the programs.
* `Privacy` states who may use a private module.
* `ModulesProofs` holds the proofs about the table and about privacy, `PlacesProofs`
  those that compare with `Places`.

What the models show a reader of the code, without being an error of it: a module
declared by an alias also stays in the worklist at the top level and leaves an
empty module behind; a self module is never a type; `find_global_decl` looks at
private and public globals alike, so that privacy is that of modules only; files
that declare each other in a circle are resolved for ever, which is why
`ResolutionEnds` is about programs without such a circle.

### Lexer and parser

* `Lexer`: `next_token` on a sequence of characters with `EOF_CHAR` behind it.
* `Parser`: the functions of `parser.c` as operators from the parser's state to the
  node and the next state; what a function does after a call is an operator of what
  the call returned. `crashed` is set where the code reads through null.
  A step is one iteration of the loop of `build_ast`: `Module`, `UseDeclaration`,
  `Declaration`, `Finish`. Number literals are computed modulo `NumberModulus`.
* `Printing` is the reference: how a tree is written, from the precedences alone.
  `MCParser` holds trees, phrases of tokens, medleys of items and scraps of characters.

Peculiarities kept: `not a == b` is `(not a) == b`; `_` needs parentheses as an
argument; operators beginning with `&`, `^`, `%` or `#` have precedences but are never
lexed; `;--` is an operator; a module without a name needs a declaration, modules and
uses alone do not do (`parser.c:1027`). Modules, uses and declarations are kept in
three lists: how they follow one another in the source cannot be told from the tree.

### Slices

* `Slices`: every function of `slice_functions.c` on arrays of bytes and slices of
  them; lengths, starts and sizes in bytes are words of `IntSize` bytes, arguments are
  signed. The state is the machine's stack; each action takes its arguments from it.
  `byte_count` is the product of a number of elements and their size in a u32, as
  `obj_init_array` computes the memory of a new array (`object.c:112`) and join, cons
  and push what they copy; it wraps, and nothing checks it. A call that then reads or
  writes outside an array (`Holds`, `Copyable`) makes the status `undefined`, which
  ends the behaviour. Comparison computes in a `usize` and does not wrap.
* `StdSlices`: the functions of `std..slice` that are programs in the language; a
  predicate is the set of the elements it holds of, recursion a function on numbers.
* `SliceSpec` is the abstract specification: sequences of elements, no arrays.
  It promises what the code does at the edges: dropping or taking 0 gives all,
  dropping a negative number gives nothing, two empty slices may be unequal; and
  only the length of what cons makes of integers, whose bytes overlap (the copy
  begins one byte behind the start, `slice_functions.c:291`). A list of `Room` bytes
  or more cannot be made: a join, cons or push that would make one `Breaks`.
* `SlicesAsLists` maps a value to its elements, and `MCSlices` holds the instance;
  `SlicesProofs` holds the proofs.

## Runs

| Run | Checks | Instance |
|---|---|---|
| `gc_thunks` | `TypeOK`, `NoDangling` | two cells, a static thunk, a static leaf, boxes and thunks, two words of stack, a field each |
| `gc_calls` | `IInv`, `CollectionEnds` | closures with captures, applications and cons cells over a static closure; no symmetry |
| `gc_chains` | `ListExact`, `ExactCollection`, `ImplementsPromise` | three cells, cons cells, objects and thunks, one binding |
| `vm_runs` | `TypeOK`, `Agrees`, `NoFault`, `Balanced`, `Linked`, `OneEvaluation`, `LoadsWhatWasSaved`, `CodeObeys`, `EndsInMain`, `OnlyReachable`, `Terminates` | 218 programs |
| `vm_effects` | `EffectsAsMeant`, `CodeObeys` | 72 programs of input and output, a file that exists, one that does not, one that cannot be written, three lines of input |
| `modules` | `TypeOK`, `Represented`, `PathsAgree`, `PrivacyKept`, `ResolutionEnds`, `FollowKeepsMeaning`, `FollowsDeclarations`, `ReferencesEnd` | programs of up to a dozen modules, every path of up to four names from every module |
| `parser` | `TypeOK`, `RoundTrip`, `NothingLost`, `CrashAfterError`, `InSource`, `Lines`, `Progress` | trees, phrases of up to 4 tokens, medleys of up to 3 items, texts of up to 4 characters |
| `slices` | `TypeOK`, `InArray`, `WhileFunctions`, `ListOfSlice`, `ImplementsLists` | integers of three bits, arrays of up to three elements, two values on the stack |
| `vm_divide`, `vm_stack`, `vm_guards`, `module_files` | one statement of the source each | see Findings |

**Bounds of the collector.** A cell is reused after it was freed, so the length of
executions is not bounded: every run contains histories with any number of
collections. Two cells are enough for a parent and its child, a cycle, and a
freed neighbour in the list; three for an unreferenced object between two others
and chains in which the head, the middle or the end is dropped. `MaxHeap` stops
the doubling of `heap_size`: with one unit a collection comes after every second
allocation, with more it only comes later. `MaxStack`, `MaxBindings` and
`MaxFields` limit how many references the program holds. The proofs need none of
these bounds.

**Programs of the machine.** `MCExecution` builds them in groups: recursion,
captures over several levels, shadowing, cyclic data, every operator; programs in
error; calls of a function of arity 1 or 2 that yields a function of arity 1 to 3
to which 0 to 2 arguments were given, with 1 to 4 arguments (72 combinations);
chains of functions that yield functions; nine values matched against twelve
patterns. All are linked with a prelude in whose declarations names are used
before they are declared. `MaxHeap = 120` is above the number of objects any of
them allocates, so the bound does not cut an execution short; `Depth = 4` is how
far a result is compared with its meaning. `Agrees` compares everything that was
evaluated; what is not yet evaluated may still become anything.
Numbers are small: no program overflows an i32 or divides by zero. The queue of
references grows past its first two slots and wraps round in them.
`LoadsWhatWasSaved` takes each program's chunk, with no, one and two types and with
and without strings, and every place where a file can end.

**Programs of input and output.** Twelve actions that yield or raise, before or after an
effect, are each followed by another action, caught by a handler that looks at the
exception, by one that does not and by one that raises, and tried. Twelve more run an
action twice, nest handlers and files, append, overwrite, and raise within an open
file. `MaxHeap = 4000` is above what any of them allocates. `EffectsAsMeant` compares
every call made of the C library, with its stream and text, at every step.

**Programs of the resolution.** Each of the programs of `MCModules` is there for a
combination of cases of the code: modules in modules and in files, `self`, types,
private and public, aliases of modules (over `super`, to themselves, of aliases),
imports, libraries shadowed and not, missing files, two declarations of one name.
Programs with more modules than an index can number are left to the proofs. The paths
asked for are one to three names out of `a`, `b`, `super` and `std` followed by `x`,
and, where the limit on aliases of aliases is met, in a chain of 33 of them, the paths
of two names that need 31, 32 and 33. `FollowLimit = 5` is how many references in a row
`FollowKeepsMeaning` and `ReferencesEnd` look at; the code has no such limit, and no program
of the run has more than two aliases of a constructor before the declaration, except
the one in which they form a circle.

**Texts.** `MaxPhrase = 4` tokens reach every production with one token too many, too
few or wrong; every tree puts each operator or open form into each operand position
of each other one, to a depth of three. `MaxScrap = 4` characters reach the end of the
text inside of every literal, escape and comment. `MaxItems = 3` of seven items (a file,
an alias, a module of five items, two uses, a constructor and a function) follow one
another in every order, by themselves, in a module and in a type. `NumberModulus = 100`
makes a number of three digits wrap: phrases have the literal `171`.

**Words.** With `IntSize = 3` and `ByteBase = 2` an integer has three bytes of one bit:
numbers from -4 to 3, unsigned 0 to 7, more than the longest array, so that starts
behind the end and sums that wrap both occur, and so do sizes in bytes: three integers
have nine bytes, of which the code counts one. The proofs are for every width.

**Fairness.** `CollectionEnds` assumes weak fairness of the collection:
`run_gc` is straight-line code that nothing preempts. `Terminates` assumes weak
fairness of the interpreter's step: `run_interpreter` is a loop that is left at
`OP_END` or after an error only. `ResolutionEnds` and `ReferencesEnd` assume weak
fairness of the compiler's step: the loops of `resolve_ast` and
`clear_remapping_queue` run in one thread to their ends. The programs have no files
that declare each other in a circle, for which the code does not end, and of
constructors that are aliases of each other, for which it does not end either,
`ReferencesEnd` says nothing: they stand for none. The mutants of `CollectionEnds` and `Terminates` loop with
fairness assumed (an object is traced for ever; a branch jumps back to itself).

**Deadlock** is checked in the runs of the collector and the machine: the machine
that ended stutters explicitly (`Ended`, `Stopped`), so an instruction without its
operands would be reported. `modules`, `module_files`, `parser` and `slices` do not
check it: a compiler that is done and a machine that met an error stop, and the bounds
of `slices` stop the rest.

## Properties

* `NoDangling`: what a chain of fields reaches from the stack, the bindings, the
  registers or the constant pool exists, at every step, also inside a collection.
* `ListExact`: the allocation list holds each existing object once.
* `ExactCollection`: when a collection returns, what exists is what is reachable.
* `ImplementsPromise`: the collector implements `HeapSpec`; a collection is
  mapped to the step that ends the tracing, when what will be kept is decided;
  marking and freeing are stuttering steps.
* `CollectionEnds`: a collection that began returns.
* `Agrees`: the machine ends with the value of the program, and with an error
  only if the program is in error.
* `NoFault`: no instruction meets an operand, binding, capture or field it cannot
  use, and no jump leads to the inside of an instruction.
* `Balanced`: at the end there is the result on the stack and nothing else, and
  no binding.
* `Linked`: jumps, closure addresses, constants and variants in the code were all
  patched and refer to what exists.
* `OneEvaluation`: at most one pending update per thunk, none once it has a value.
* `LoadsWhatWasSaved`: a chunk that is written to a file and read back is the same
  chunk; a file that lacks anything is refused; a write reported as successful wrote
  all.
* `CodeObeys`: the code has layouts, whichever way it is executed: on every path each
  instruction takes from the stacks only what the function put there, reads bindings,
  captures and fields that exist, and where paths meet they agree. This is about the
  code, not about an execution of it: branches that no run takes are looked at too.
* `EndsInMain`: `END` is reached only in main, with one word and no binding left. It is
  apart from `CodeObeys` because `std..exit` ends the program from within a function.
* `OnlyReachable`: what an instruction keeps, writes and writes to was found behind the
  stack, the registers, the bindings or the constants, at most two references on, or is
  the one object it makes. No number is taken for a reference, and no capture that is not
  written yet is used. What a collection discards is therefore never missed.
* `Terminates`: each program comes to an end.
* `EffectsAsMeant`: the calls made of the C library so far are the first of those that
  were meant, all of them at the end, where an exception is left in the register only if
  reporting one failed.
* `Represented`: as long as no declaration has the name of a submodule and indices
  fit their u16, the item of every submodule leads to the module made for it, or the
  work that will make it is still queued.
* `PathsAgree`: every path, seen from every module, leads where `Places` says, or to
  the error it says.
* `PrivacyKept`: a path leads to a module of the table, and each private module on the
  way down to it is declared by a module around the one the path starts in, or around
  one that declares an alias. In a program without aliases: a path leads into a private
  module only from inside the module that declares it. It is checked before references
  are followed, which leaves the table as it is.
* `ResolutionEnds`: the worklist runs out.
* `FollowsDeclarations`: each iteration of `clear_remapping_queue` does with a reference
  what the declarations say: one that means nothing is refused, one to an alias of a
  constructor becomes the alias's own path in the module that declares it, any other is
  compiled where it is declared.
* `FollowKeepsMeaning`, `ReferencesEnd`: following an alias of a constructor never
  changes what the reference stands for, and one that stands for something is compiled.
* `RoundTrip`: a tree that is written with as few parentheses as the precedences allow
  is parsed to that tree.
* `NothingLost`: an accepted text is the texts of the items of its tree, each once, those
  of one kind in the order of their list, and nothing else; and so within each module.
  Parentheses, `:` and `;` leave no trace and are not compared; literals are by value.
* `CrashAfterError`: the parser reads through null only after it has found an error
  (`build_ast` goes on after one; the driver reports it if it gets there).
* `InSource`, `Lines`: the lexer passes the terminator only behind a quote or a
  backslash at the end of the text; tokens carry their line.
* `Progress`: every iteration of the parser's loop consumes a token or is the last.
* `InArray`: slices lie within their arrays, arrays have all their bytes, and a call is
  undefined only if its arguments together have more bytes than a u32 counts.
* `ImplementsLists`: the functions implement those of sequences (`SliceSpec`), every
  call being mapped to the call on the elements, and undefined exactly for lists that
  are too large.
* `WhileFunctions`, `ListOfSlice`: `drop_while`, `take_while`, `drop_while_back`,
  `unpack` and `from_list` on top of them.

Each has a mutant: a plausible error in the definition that models the code,
with which the property fails. The mutated forms stand before the definitions
they replace and are marked as such.

## Findings

* `vm_divide`: `bytecode.h` documents the operands of `OP_DIVIDE` (and
  `OP_SUBTRACT`) the other way round than `NUM_BIN_OP` takes them.
  The built-in functions agree with the machine, so programs compute the right
  thing.
* `vm_stack`: `handle_continuation` writes two words above the stack pointer and
  advances it without the growth `push_stack` performs; past the end of the
  stack the test for equality in `push_stack` never grows it again. The run uses
  a capacity of 8 words; with the real capacity it takes a deeper evaluation.
* `vm_guards`: the condition of a case branch is tested without `OP_EVAL`. A
  condition that is the application of a function fails with "not a boolean". The
  programs of `vm_runs` therefore have operators for conditions.
* `module_files`: the file of a module is looked for at the parent's directory without
  its slash: `mod a;` in `d/m.fl` tries `da.fl`, not `d/a.fl` as the comment says.
  The programs of `modules` lie where the code looks.

Noted without a run, since no text of the repository speaks of them: saving a program
without strings reports an error although the file is whole (`fwrite` of one element
of no bytes returns 0; the property therefore asks nothing of a failed save); the
result of closing the file is not looked at; a module that has the name of a
declaration overwrites it (`phase = "fault"`); `mod up = super;` at the root makes
paths through it panic.

## Proofs

### The collector

All for every set of cells, every pool, every set of created types and every
bound, from the assumptions `DisjointAssumption` (cells and the parts of the pool
are disjoint) and `BoundAssumption` (bounds are numbers).

| Theorem | States |
|---|---|
| `TypeCorrect` | `Spec => []TypeOK` |
| `Inductive` | `Spec => []IInv` |
| `NeverDangling` | `Spec => []NoDangling` |
| `ListIsExact` | `Spec => []ListExact` |
| `CollectionIsExact` | `Spec => ExactCollection` |
| `KeepsPromise` | `Spec => ImplementsPromise` |

`NoDangling` is not inductive. It says nothing of what a sweep in progress is
about to free, nor of the marks left from earlier collections. `IInv` adds:

* `PoolIntact`: pool objects have no fields, and only static thunks have a link.
  The flag of a pool object is never cleared, because it is not on the list, so a
  later collection does not look at its children. That is sound only because the
  values of static thunks are roots and no other pool object has a child.
* `Quiet`: outside a collection the existing objects contain the roots and are
  closed under the fields; no cell is marked.
* `Tracing`: the roots are marked, a marked object off the worklist has only
  marked children, and every marked cell is reachable.
* `Sweeping`: what the sweep passed and what it will find marked contains the
  roots, is closed, and is reachable; what it passed is unmarked.

The argument has two halves. `MoveLive`, `WriteLive` and `CreateLive` reduce the
instructions to three facts: roots come from what was reachable, one reachable
object is rewritten with reachable children, one free cell gets reachable
children. From these, closure is preserved whatever the instruction. The
collection has one lemma per step (`MarkRootsStep` to `EndSweepStep`): tracing
ends with an empty worklist, so the marked objects are closed and contain the
roots, hence contain what is reachable; with the other inclusion they are
exactly that, and each sweep step keeps it so. `EndVmStep` is the end of the
machine. `KeepsPromise` maps each step to a step or a stutter of `HeapSpec`.

### The table of modules

`ModulesProofs`, for every set of programs, from `NodesAssumption` and
`ProgramsAssumption` (nodes and programs have the shape the parser gives them).

| Theorem | States |
|---|---|
| `TypeCorrect` | `Spec => []TypeOK` |
| `TableRepresentsTree` | `Spec => []Represented` |
| `PrivateStaysPrivate` | `RSpec => []PrivacyKept` |

`Represented` speaks of items and work by name; it becomes inductive with what makes
names enough (`IInv`): a module has one item per name (`NamedOnce`); each piece of work
has an item in its parent (`WorkHasItem`), and no two pieces of work have the same
(`WorkOnce`); an item with an index leads to a module with its name and parent, one
without is awaited by work or stands in the module being walked (`ItemsLead`); no
declaration was overwritten (`DeclsWhole`). The proof follows the steps: a submodule
adds an item and its work at once; a piece of work makes a module and links the item
that has its name, which is the right one because there is no other.

`PrivacyKept` needs of the table, besides, that libraries are roots and that no work is
left once globals are listed (`PInv`); then every submodule that is no alias leads to a
module whose parent declares it (`Led`). What is above a module is closed under parents
and the least such set (`AboveIs`, `AboveLeast`), since parents stand in front. The rest
is about paths of any length and aliases to any depth, for any set `V` of modules that is
closed under parents and holds the modules with aliases: as long as private modules are
visible the path is inside `V`, and afterwards it only enters public ones (`FoundModule`,
`NextModule`, by induction over the names `Reached`); the paths of aliases start inside
`V` again (`AliasesAnswer`, from the last depth down). The further assumptions are
`LimitAssumption` (the limit is a positive number) and `QueriesAssumption` (paths are
nonempty sequences of names).

### What paths mean

`PlacesProofs`, for every set of programs whose names are distinct and whose modules can be
numbered, every set of paths and every limit on aliases of aliases:

| Theorem | States |
|---|---|
| `PathsMeanWhatIsDeclared` | `RSpec => []PathsAgree` |
| `ReferencesFollowDeclarations` | `RSpec => FollowsDeclarations` |
| `ReferencesKeepTheirMeaning` | `RSpec => FollowKeepsMeaning` |

`PathsAgree` compares the finished table with `Places`, where a module is a sequence of
names and what it holds is what is declared there; it says nothing of the table while it
is made. `SInv` does, at every step. It adds to the invariant of the table:

* `TreeHeld`: every module of the table holds what is declared at its place, in the file or
  in the braces: an item for each submodule that was met by the walk, a declaration for
  each public one, and still to come (`Pending`, `PendingDecls`) what the rest of the walk
  will bring, that which a `self` module lifts into its parent included; its file is the
  one the declarations lead to.
* `AllWorkHeld`: each piece of work is a declaration at the place of its module.
* `ChildrenHeld`: a module has at most one child of a name, and only with an item for it.
* `RootsHeld`: the program and the libraries, which have their places from the beginning.

From the last two, different modules have different places (`PlaceOf` is one to one,
`PlacesDiffer`); without that the table could answer with the wrong one of two modules of
the same place. `GInv` says that each list of globals is what is declared, once no error
was reported. The steps of the walk are one lemma each (`SubmoduleSites`, `ResolveNodeSites`, ...).

The comparison itself is by induction twice. Along a path (`reached` and `Along`): the code
and the declarations have come to the same module with the same private modules in
sight, or have the same error (`Match`), name by name: submodules, `super`, imports,
libraries. Over the depth of aliases (`resolve_alias` and `Known`): what the limit leaves
to one more alias is what one more round of the declarations knows (`Aligned`), which is
why the 32nd alias fails in both. `PathMeant` is the result; it also says that the global
of the last name exists.

A reference needs the second invariant `ReferenceHeld`: one that waits comes from a module of
the table and its path is a nonempty sequence of names. `ReadsDeclared` says that the global
found is the one that is declared there, and `DequeueFollows` follows an iteration.

`FollowKeepsMeaning` looks at the whole way: what a reference stands for is what comes after
its aliases, however many there are. `Behind` says it by the number of references looked at
(`FollowLimit` at most, a number of any size), and `MeaningKept` derives from a single step
(`Follows`) that the reference left by an iteration stands, with one reference less to look
at, for the same constructor as before, and that the one compiled is that constructor.

The assumptions are those of `ModulesProofs`, with `AliasesAssumption` (the alias of a
constructor has a path of at least one name, `parser.c:889`) and `FollowLimitAssumption`.

### The remapping queue

`RemappingQueueProofs`: for works of any kind and queues of any length, what waits in
the ring buffer is a sequence, `EnqueueAppends` and `DequeueTakesFirst`. The case that
matters is `GrownKeeps`: a full buffer that wraps round is copied in two parts.

### Slices

`SlicesProofs`, for every width of integers and bytes and every constants:
`TypeCorrect` (`Spec => []TypeOK`) and `StaysInArray` (`Spec => []InArray`), with
`CopiesInside`: join, cons and push read and write within the memory of their arrays,
unless the new array would have `Word` bytes or more, when each of them leaves it, and
the other functions always do; and `AsLists`
(`Spec => ImplementsLists`): the functions implement those of sequences. The assumptions are
`SizesAssumption`, `BytesAssumption` (powers of the base are positive numbers, and any
`IntSize` bytes are those of an integer: facts of two's complement that would need
induction over the bytes) and `ConstantsAssumption`. The invariant is that the stack is
a sequence of good values; one lemma per function says that good arguments give a good
result, a fault, or an undefined one with arguments that are `TooLarge`. An array that was
made has fewer than `Word` bytes (`IsArray`), which is what makes the products of later
calls exact: a place and a size within such an array do not wrap (`ByteCount`,
`BytesInside`), and a size that does is smaller than what is written to it (`JoinMakes`,
`ConsMakes`, `PushMakes`). These proofs use no bound on `MaxLen`. What carries the proof is that a slice with elements that loses `n`
of them starts at most at the end of an array shorter than a word, so that the sum of
start and `n` does not wrap; one without elements may start anywhere, and is never read.

`AsLists` maps every call to a step of `SliceSpec`, with one lemma per function on what
its result stands for (`TakeMeans`, `JoinMeans`, ...) and one per call. It needs
`LengthsAssumption` (an array has fewer elements than half of what an integer can number,
so that the length of a list is the same with and without a sign; how many bytes they have
is not assumed, and where they are too many both break: `Heavy`); for joins that two values
have the same elements whenever their bytes are the same, wherever these lie
(`ElementsOfBytes`). What values the meanings stand for decides the results: two slices
with different starts that mean the same list give results that mean the same.

`WalksWhole` (`Spec => []WhileFunctions`) and `ListsKeep` (`Spec => []ListOfSlice`) are
about the functions of std on top of them, for any predicates. These are recursive, and
the model writes their recursion as functions on the numbers up to the length
(`counts_while`, `rests`, `unpacked`, `folded` of `StdSlices`). For each a lemma shows
that there is such a function and what it gives: a count ends at the first element
that is not to be counted (`CountEnds`, `CountExists` and `CountMeans` of `DataLemmas`),
the rest that `unpack` comes by is the list from an element on (`Dropped`), and `from_list`
puts the elements back from the end (`Folded`), whatever was in the new memory.

### Files of bytecode

`FilesSurvive` (in `MachineProofs`): a chunk of whatever length that has the constants and
types every chunk has is read back from its file as it was, and of a file that ends
anywhere before nothing is read. The proof says where each section lies in the file
(`Layout`) and that reading a section leaves the reader where the next one begins
(`NextList`, `NextNames`); of a shorter file some section's length is not met. Names are
read one after the other, by recursion over their number: the induction is done with a
set of numbers that has a least element (`UpTo` and `Iterated` of `DataLemmas`), since
the prover cannot instantiate the theorems about induction. `SavedProgramsLoad`
(`Spec => []LoadsWhatWasSaved`) applies it to the programs.

### The machine

`MachineProofs`, for every set of programs, every size of the stack and heap and
executions of any length, from `ProgramsAssumption`:

| Theorem | States |
|---|---|
| `TypeCorrect` | `Spec /\ CodeObeys => []TypeOK` |
| `AlwaysFound` | `Spec /\ CodeObeys => [](Ready /\ OnlyUndefined)` |
| `NeverFaults` | `Spec /\ CodeObeys /\ Pure => []NoFault` |
| `LeftBalanced` | `Spec /\ CodeObeys /\ EndsInMain => []Balanced` |
| `OnlyReachableUsed` | `Spec /\ CodeObeys => OnlyReachable` |
| `MachineIsMutator` | `Spec /\ CodeObeys => Heap!Spec` |
| `OnlyStaticThunksRefer` | `Spec /\ CodeObeys => []ConstantsBare` |

A machine that is given arbitrary bytecode panics, so the theorems have a hypothesis about
the code: `CodeObeys`, which the runs check for every program that is compiled (218 and
72 of them), as they check `EndsInMain` for those without `exit`. `CodeObeys` looks at each
instruction once; the theorems say of every execution, with its recursion and its calls,
what that is good for. `OnlyUndefined` is what remains: `DIVIDE` by zero and an extern
function (a stream that is closed) have no defined result whatever the code looks like;
`Pure` excludes both. That a code generator produces such code for every program is an
induction over programs and stays with TLC.

None of the first four is inductive: nothing in `NoFault` says why the address a function
returns to is on the stack. `Sane` adds that the stacks consist of frames (`Stacked`),
one for each function that waits at an `EVAL`, with the words and bindings that the
layout of that `EVAL` promises and the address to return to in the place of the value it
waits for; that the last function has what the layout of `ip` promises (`Current`); and
that the heap is well shaped (`GoodHeap`): a function has the captures its closure info
says, an object the fields its constructor has, and only the object made last may have
captures not yet written. Three cases decide how it had to be stated:

* arguments that were given to a function with too few parameters lie below the frame of a
  continuation that no code pushed, with their number (`APPLYING`, `Arguments`);
* when a pattern fails, sub-patterns may have made bindings that the jump does not know of:
  the layout is a lower bound (`FAILING`), until `COPY_STACK_REG` cuts them off;
* between `SWAP` and `JUMP` a function has no words but its result (`RETURNING`): what is
  promised then is what holds after the jump.

`StepSound` is that every instruction keeps `Sane`, by one lemma for each
(`EVAL_Sound`, `HANDLE_CONTINUATION_Sound`, ...): those that stay in their function in
`Soundness`, those that enter, leave or wait in `MachineProofs`. Most follow from a general
lemma: `StepTo` for a step within a function, `CallHere` and `CallOverHere` for calls,
`Resumed` for returns. The heap only ever grows in what is known of it (`Grows`), which
keeps the frames below as they are (`FramesLater`). That the code is not written to
and the program stays the same needs no invariant. `SaneAlways` follows, and each
theorem reads its property off `Sane`.

### The machine and the collector

The collector is proved to implement `HeapSpec`, which says what a program may do with
the heap. That the interpreter is such a program is the other half, and a statement about
every instruction: a word that is a number and looks like a reference, a register that is
read after what it referred to was dropped, a capture that is read before it is written,
an operand below those an instruction owns would each break it, mostly without an effect
until a collection comes at the wrong moment.

`StepUses` is that every instruction keeps to `Uses` in a machine that is `Sane`
before and after the step, again by lemmas for each group of instructions (`EvalUses`,
`ContinuationUses`, `CapturesUse`, ...). `Sane` is needed to know which words are references
and that the operands are there (`OperandsFound`). Three general lemmas say when a step
that writes nothing, makes an object or writes to one keeps to `Uses` (`UsesSame`,
`UsesMade`, `UsesWritten`). The largest cases are calls: `EVAL` of a saturated application and
`HANDLE_CONTINUATION` move the arguments that objects hold and those on the stack, which are
references because the layouts say how many of them lie above the number that counts them.

`MachineIsMutator` maps the heap: an object is named by its number, a constant by the
number below zero, since `HeapSpec` keeps constants and cells apart for all programs at
once; there are as many cells as it takes, so that no bound on the heap is assumed. What
an instruction finds lies in every closed set that contains the roots (`FoundLives`); so a
step that makes nothing is `Mutate` (`Mutates`), one that makes an object is `Allocate`
(`Allocates`). `Collect` and `Finish` are steps the machine's model does not take.
`Heap!Spec` is not checked by a run: its sets of cells are infinite, and reachability in
`HeapSpec` is an intersection over all sets of nodes. `OnlyReachable`, from which
the proof follows, is.

`OnlyStaticThunksRefer` is what the collector takes for granted besides `HeapSpec`
(`PoolIntact` in `MarkSweep`): a constant is traced in one collection only, since no sweep
clears its flag, and `mark_roots` looks at the values of static thunks alone.
It follows from `Uses` and the heap `run_vm` begins with.

### Only model-checked

* Liveness (`CollectionEnds`, `Terminates`, `ResolutionEnds`, `ReferencesEnd`): out of the
  prover's reach.
* `CodeObeys`, `EndsInMain`, `Linked`, `Agrees`, `EffectsAsMeant`: what the code generator
  makes of every program. `OneEvaluation` depends on the program as well: a thunk that
  needs its own value is entered twice.
* The properties of the parser: they compare with trees and printed text, which RECURSIVE
  operators define.

## Not modelled

* Diagnostics, the command line, the order of the passes: formatting and straight-line
  calls. Positions within a line and the wording of errors.
* Attributes and extern functions besides slices and streams: `type_of` and the
  attribute `type` are lookups in a table; how compound values are printed.
* `std` apart from `std..slice` and `std.._io`: its functors, `Option`, `Result` and
  lists are pure programs in the language, as any other.
* Strings, namespaces and types in `Codegen` and `Machine`: programs that are executed
  have one module, and the paths of `_io` are joined to one name; what a path means is the subject of `Paths` and `Places` instead.
  `use ... in` inside an expression is reduced to a let and not modelled.
* The identifier table is assumed to make equal names equal pointers; the arena of
  `ast.c` hands out memory that is freed as a whole.
* Widths: argument counts are u8 and jumps i16 in the code, numbers i32; the machine's
  model uses integers, and its programs stay far below. The lengths, starts and sizes in
  bytes of `Slices`, number literals and the u16 indices of modules have their widths.
  What a program does after a call of `Slices` that is undefined is not modelled.
* Programs without meaning: `let x = x` loops in the code as in the model.
* The parser after a read through null or past the terminator: undefined.
* The heap of `Machine` is never collected. What connects it with `MarkSweep` is
  `HeapSpec`, which both implement: the one its collections, the other what happens
  between them (`MachineIsMutator`). That `MarkSweep` allows every movement of references
  in any order covers the rest: when collections happen makes no difference.

## Plan

Done: the collector with its proofs; the language, from code generator to machine, for
one module; the remapping queue and aliases of constructors; slices; modules, paths and
files of modules; lexer and parser; files of bytecode; input, output and exceptions;
the proofs about the machine, slices and the functions of std on them; the machine as the
program that the collector serves.

Left, in this order:

1. Programs of several modules in `Codegen`: namespaces resolved by `Paths`, so that
   `Agrees` covers them; then types and strings.
2. The widths of argument counts and jump distances, with a small width as in `Slices`;
   the arity of constructor patterns that are compiled already.
3. Proofs: captures (`add_capture` keeps indices stable). The simplest expressions of the code generator obey their layouts.
