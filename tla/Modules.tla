------------------------------ MODULE Modules ------------------------------
(***************************************************************************)
(* The table of modules of a program: resolve_ast of                       *)
(* compiler/module_resolution.c, the reduction of use declarations in      *)
(* compiler/reduction.c, the lookup of files in file_compilation.c, and    *)
(* the pass of codegen/global_pass.c that lists the globals of a module.   *)
(*                                                                         *)
(* The table is filled by walking over the module declarations of main and *)
(* of the standard library, and then, last in first out, over the          *)
(* declarations and files those walks queued.  A step is one iteration of  *)
(* a loop of the code: the walk meets one declaration, one piece of work   *)
(* is taken, the globals of one module are listed.                         *)
(*                                                                         *)
(* A node is a ModuleDeclNode or an AstTopLevel (kind "top"):              *)
(*   kind          "top", "self" (no name), "body", "alias" or "file"      *)
(*   path          what an alias stands for: a sequence of names           *)
(*   declarations  a sequence of [name, kind, path]                        *)
(*   uses          the items of the use declarations, in the order they    *)
(*                 are visited: a sequence of [name, kind, path]           *)
(*   submodules    a sequence of nodes                                     *)
(* A path of a file is a sequence of names and slashes.  A module is       *)
(* numbered from 0, and is modules[index + 1].                             *)
(***************************************************************************)
EXTENDS Integers, Sequences, FiniteSetsExt

CONSTANTS Names,      \* identifiers
          Nodes,      \* the nodes of the programs, and those reduction makes of them
          Programs    \* the programs considered

\* (u16)-1; no decl_node, and one whose bytes were overwritten.
NoModule == 65535
NoDecl == [name |-> "", kind |-> "none", path |-> <<>>]
Clobbered == [name |-> "", kind |-> "clobbered", path |-> <<>>]

-----------------------------------------------------------------------------
(***************************************************************************)
(* reduction.c: each item of a use declaration becomes a declaration or a  *)
(* module, in front of those the node has.                                 *)
(***************************************************************************)
\* The elements of a sequence at some of its indices, in order.
At(list, indices) ==
  [k \in 1..Cardinality(indices) |->
     list[CHOOSE i \in indices : Cardinality({ j \in indices : j <= i }) = k]]
IsMod(use) == use.kind = "mod"
IsFunction(use) == use.kind # "mod"
Backwards(s) == [i \in DOMAIN s |-> s[Len(s) + 1 - i]]

\* Mutant: the declaration stands for the path without the item.
Imported_PathOnly(use) ==
  [name |-> use.name, path |-> use.path,
   kind |-> IF use.kind = "with" THEN "constructor alias" ELSE "path"]
Imported(use) ==
  [name |-> use.name, path |-> Append(use.path, use.name),
   kind |-> IF use.kind = "with" THEN "constructor alias" ELSE "path"]
ImportedModule(use) ==
  [kind |-> "alias", name |-> use.name, path |-> Append(use.path, use.name),
   declarations |-> <<>>, uses |-> <<>>, submodules |-> <<>>, is_type |-> FALSE]

reduced_declarations(node) ==
  LET uses == At(node.uses, { i \in DOMAIN node.uses : IsFunction(node.uses[i]) })
  IN Backwards([i \in DOMAIN uses |-> Imported(uses[i])]) \o node.declarations
reduced_submodules(node) ==
  LET uses == At(node.uses, { i \in DOMAIN node.uses : IsMod(node.uses[i]) })
  IN Backwards([i \in DOMAIN uses |-> ImportedModule(uses[i])]) \o node.submodules

-----------------------------------------------------------------------------
(***************************************************************************)
(* file_compilation.c: the file of a module.                               *)
(***************************************************************************)
Slashes(path) == { i \in DOMAIN path : path[i] = "/" }
\* What compile_file_module keeps of the path of the parent: it stops at the
\* last slash, or at the first character.
parent_path(path) ==
  IF Slashes(path) = {} THEN <<>> ELSE SubSeq(path, 1, Max(Slashes(path)) - 1)
file_candidates(parent, name) ==
  << parent_path(parent) \o name, parent_path(parent) \o name \o <<"/", "mod">> >>
\* The file that is opened for a module; NoFile when neither can be opened.
NoFile == <<>>
open_file_module(program, parent, name) ==
  LET c == file_candidates(parent, name)
  IN CASE c[1] \in DOMAIN program.files -> c[1]
       [] c[1] \notin DOMAIN program.files /\ c[2] \in DOMAIN program.files -> c[2]
       [] OTHER -> NoFile

-----------------------------------------------------------------------------
Decls == [name : Names, path : Seq(Names),
          kind : {"value", "path", "constructor", "constructor alias"}]
FilePaths == Seq(Names \cup {"/"})
Uses == [name : Names, path : Seq(Names), kind : {"fun", "with", "mod"}]

\* The nodes are closed under what is inside them, also after reduction.
ASSUME NodesAssumption ==
  /\ Nodes \subseteq
       [kind : {"top", "self", "body", "alias", "file"}, name : Names, path : Seq(Names),
        declarations : Seq(Decls), uses : Seq(Uses), submodules : Seq(Nodes), is_type : BOOLEAN]
  /\ \A node \in Nodes :
       /\ reduced_declarations(node) \in Seq(Decls)
       /\ reduced_submodules(node) \in Seq(Nodes)
       /\ \A i \in DOMAIN reduced_submodules(node) : reduced_submodules(node)[i].kind # "top"
       /\ node.kind = "alias" => node.path # <<>>
  /\ {"main", "std"} \subseteq Names

\* Sources that were parsed: the files, by their paths, and the standard library.
ASSUME ProgramsAssumption ==
  \A p \in Programs :
     /\ p.std \in Nodes /\ p.std.kind = "top"
     /\ NoFile \notin DOMAIN p.files
     /\ DOMAIN p.files \subseteq FilePaths
     /\ \A path \in DOMAIN p.files : p.files[path] \in Nodes /\ p.files[path].kind = "top"

-----------------------------------------------------------------------------
VARIABLES
  program,    \* [main |-> a path, files |-> the nodes of the files, std |-> a node]
  phase,      \* "start", "main", "std", "work", "globals", "resolved", "failed", "fault"
  message,    \* of the error that ended the resolution
  files,      \* compiler->files: a sequence of [path, ast]
  modules,    \* ModuleCtx.modules
  at,         \* the module whose declarations are walked over
  todo,       \* the declarations the walk still has to meet
  worklist,   \* ModuleCtxWork.worklist
  libraries,  \* ModuleCtx.libraries
  globals,    \* GlobalCtx.globals_per_module
  errors      \* of the pass over the globals

vars == <<program, phase, message, files, modules, at, todo, worklist, libraries,
          globals, errors>>
table == <<modules, at, todo, worklist>>

get_module(index) == modules[index + 1]
Count == Len(modules)

Init ==
  /\ program \in Programs
  /\ phase = "start" /\ message = ""
  /\ files = <<>> /\ modules = <<>> /\ at = 0 /\ todo = <<>> /\ worklist = <<>>
  /\ libraries = <<>> /\ globals = <<>> /\ errors = <<>>

-----------------------------------------------------------------------------
(***************************************************************************)
(* The table and the worklist.                                             *)
(***************************************************************************)
DeclItem(decl) ==
  [name |-> decl.name, is_submodule |-> FALSE, decl |-> decl, path |-> <<>>,
   index |-> 0, is_public |-> TRUE]
SubmoduleItem(node, is_public) ==
  [name |-> node.name, is_submodule |-> TRUE, decl |-> NoDecl, path |-> node.path,
   index |-> 0, is_public |-> is_public]
DeclItems(node) ==
  [i \in DOMAIN reduced_declarations(node) |-> DeclItem(reduced_declarations(node)[i])]

create_module(name, parent, file, is_file, is_type, items) ==
  [name |-> name, parent |-> parent, file |-> file, is_file |-> is_file,
   is_type |-> is_type, items |-> items]

\* item->submodule.index = mod_index: index and decl_node are members of a union.
set_index(item, index) ==
  IF item.is_submodule THEN [item EXCEPT !.index = index] ELSE [item EXCEPT !.decl = Clobbered]
\* The first item of the parent with the name of the module is given its index.
First(items, name) == Min({ i \in DOMAIN items : items[i].name = name })
link(table_, parent, name, index) ==
  IF parent = NoModule \/ (\A i \in DOMAIN table_[parent + 1].items :
                              table_[parent + 1].items[i].name # name)
  THEN table_
  ELSE [table_ EXCEPT ![parent + 1].items[First(table_[parent + 1].items, name)]
                        = set_index(@, index)]

Inline(nodes) == [i \in DOMAIN nodes |-> [node |-> nodes[i], inline |-> TRUE]]
TopLevel(nodes) == [i \in DOMAIN nodes |-> [node |-> nodes[i], inline |-> FALSE]]

resolve_node(node, parent) ==
  /\ modules' = Append(link(modules, parent, node.name, Count),
                  create_module(node.name, parent, get_module(parent).file, FALSE,
                                node.is_type, DeclItems(node)))
  /\ at' = Count
  /\ todo' = Inline(reduced_submodules(node))

resolve_top_level(ast, file, name, parent) ==
  /\ modules' = Append(link(modules, parent, name, Count),
                  create_module(name, parent, file, TRUE, FALSE, <<>>))
  /\ at' = Count
  /\ todo' = TopLevel(reduced_submodules(ast))

Fail(text) ==
  /\ phase' = "failed" /\ message' = text
  /\ UNCHANGED <<program, files, modules, at, todo, worklist, libraries, globals, errors>>

Node(node, parent) == [kind |-> "node", node |-> node, parent |-> parent]
File(node, parent) == [kind |-> "file", node |-> node, parent |-> parent]

-----------------------------------------------------------------------------
(***************************************************************************)
(* The walk over the declarations of one module: declare_module_items and  *)
(* the loop of resolve_top_level.                                          *)
(***************************************************************************)
Walking == phase \in {"main", "std", "work"} /\ todo # <<>>
Met == Head(todo).node
Declare(items) == modules' = [modules EXCEPT ![at + 1].items = @ \o items]
Keep == UNCHANGED <<program, phase, message, files, at, libraries, globals, errors>>

\* check_module_exists
check_module_exists(node) ==
  \E i \in DOMAIN get_module(at).items :
     get_module(at).items[i].is_submodule /\ get_module(at).items[i].name = node.name

SelfModule ==
  /\ Walking /\ ~Head(todo).inline /\ Met.kind = "self"
  /\ Declare(DeclItems(Met))
  /\ todo' = Inline(reduced_submodules(Met)) \o Tail(todo)
  /\ Keep /\ UNCHANGED worklist

Refused(text) == Walking /\ Fail(text)
RefuseSelf ==
  /\ Refused("inline submodules cannot have a self module")
  /\ Head(todo).inline /\ Met.kind = "self"
RefuseFile ==
  /\ Refused("inline submodules cannot declare file modules")
  /\ Head(todo).inline /\ Met.kind = "file"
\* Mutant: a module may be declared twice.
Redeclared_Never(node) == FALSE
Redeclared(node) == check_module_exists(node)
RefuseRedeclared ==
  /\ Refused("redeclared module")
  /\ Met.kind # "self" /\ (Head(todo).inline => Met.kind # "file")
  /\ Redeclared(Met)

\* What the module adds to the worklist: an alias at the top level is queued too.
Work(entry) ==
  CASE entry.node.kind = "body" -> <<Node(entry.node, at)>>
    [] entry.node.kind = "alias" /\ entry.inline -> <<>>
    [] entry.node.kind = "alias" /\ ~entry.inline -> <<Node(entry.node, at)>>
    [] entry.node.kind = "file" -> <<File(entry.node, at)>>

IsPublic(entry) == entry.inline
Submodule ==
  /\ Walking
  /\ Met.kind \in (IF Head(todo).inline THEN {"body", "alias"} ELSE {"body", "alias", "file"})
  /\ ~Redeclared(Met)
  /\ Declare(<<SubmoduleItem(Met, IsPublic(Head(todo)))>>)
  /\ worklist' = worklist \o Work(Head(todo))
  /\ todo' = Tail(todo)
  /\ Keep

-----------------------------------------------------------------------------
(***************************************************************************)
(* resolve_ast: main, the standard library, and the work they queued.      *)
(***************************************************************************)
Compiled(path, ast) == files' = Append(files, [path |-> path, ast |-> ast])
\* The index compile_module returns: files.count - 1, after the file was added.
\* Mutant: files.count.
new_file_Count == Len(files) + 1
new_file == Len(files)

\* compile_file before resolve_ast: the file of the command line.
CompileMain ==
  /\ phase = "start"
  /\ LET path == open_file_module(program, <<>>, program.main)
     IN IF path = NoFile THEN Fail("no file")
        ELSE /\ Compiled(path, program.files[path])
             /\ resolve_top_level(program.files[path], new_file, "main", NoModule)
             /\ phase' = "main"
             /\ UNCHANGED <<program, message, worklist, libraries, globals, errors>>

CompileStd ==
  /\ phase = "main" /\ todo = <<>>
  /\ Compiled(<<"std">>, program.std)
  /\ resolve_top_level(program.std, new_file, "std", NoModule)
  /\ libraries' = <<[name |-> "std", module |-> Count]>>
  /\ phase' = "std"
  /\ UNCHANGED <<program, message, worklist, globals, errors>>

StartWork ==
  /\ phase = "std" /\ todo = <<>>
  /\ phase' = "work"
  /\ UNCHANGED <<program, message, files, table, libraries, globals, errors>>

\* pop_resolution_queue
Popped == worklist[Len(worklist)]
Pop == worklist' = SubSeq(worklist, 1, Len(worklist) - 1)
Working(kind) == phase = "work" /\ todo = <<>> /\ worklist # <<>> /\ Popped.kind = kind

ResolveNode ==
  /\ Working("node")
  /\ resolve_node(Popped.node, Popped.parent)
  /\ Pop
  /\ UNCHANGED <<program, phase, message, files, libraries, globals, errors>>

\* Mutant: that no file was opened is not noticed.
ResolveFile_Unnoticed ==
  /\ Working("file")
  /\ LET parent == files[get_module(Popped.parent).file + 1]
         path == open_file_module(program, parent.path, <<Popped.node.name>>)
     IN IF path = NoFile THEN UNCHANGED vars
        ELSE /\ Compiled(path, program.files[path])
             /\ resolve_top_level(program.files[path], new_file, Popped.node.name, Popped.parent)
             /\ Pop
             /\ UNCHANGED <<program, phase, message, libraries, globals, errors>>
ResolveFile ==
  /\ Working("file")
  /\ LET parent == files[get_module(Popped.parent).file + 1]
         path == open_file_module(program, parent.path, <<Popped.node.name>>)
     IN IF path = NoFile THEN Fail("no file")
        ELSE /\ Compiled(path, program.files[path])
             /\ resolve_top_level(program.files[path], new_file, Popped.node.name, Popped.parent)
             /\ Pop
             /\ UNCHANGED <<program, phase, message, libraries, globals, errors>>

\* A file that was opened cannot be read to its end, or does not parse.
FileUnusable ==
  /\ \/ phase = "start" /\ open_file_module(program, <<>>, program.main) # NoFile
     \/ /\ Working("file")
        /\ open_file_module(program, files[get_module(Popped.parent).file + 1].path,
                            <<Popped.node.name>>) # NoFile
  /\ Fail("unusable file")

TableComplete ==
  /\ phase = "work" /\ todo = <<>> /\ worklist = <<>>
  /\ phase' = "globals"
  /\ UNCHANGED <<program, message, files, table, libraries, globals, errors>>

-----------------------------------------------------------------------------
(***************************************************************************)
(* global_pass.c: the globals of each module, in the order of the table.   *)
(***************************************************************************)
Global(decl, is_public) ==
  [name |-> decl.name, is_public |-> is_public, path |-> decl.path, kind |-> decl.kind]
PrivateGlobals(module) ==
  IF ~module.is_file THEN <<>>
  ELSE LET decls == reduced_declarations(files[module.file + 1].ast)
       IN [i \in DOMAIN decls |-> Global(decls[i], FALSE)]
IsDeclaration(item) == ~item.is_submodule
PublicGlobals(module) ==
  LET items == At(module.items, { i \in DOMAIN module.items : IsDeclaration(module.items[i]) })
  IN [i \in DOMAIN items |-> Global(items[i].decl, TRUE)]

\* declare_global_decl: a constructor that is no alias belongs in a type.
Misplaced(global, module) == global.kind = "constructor" /\ ~module.is_type
\* push_global refuses a name that is in the list.
Listed(list, i, module) ==
  /\ ~Misplaced(list[i], module)
  /\ \A j \in 1..(i - 1) : Misplaced(list[j], module) \/ list[j].name # list[i].name

ListGlobals ==
  /\ phase = "globals" /\ Len(globals) < Count
  /\ LET module == get_module(Len(globals))
         IsFault == \E i \in DOMAIN module.items :
                       ~module.items[i].is_submodule /\ module.items[i].decl = Clobbered
     IN IF IsFault
        THEN phase' = "fault" /\ UNCHANGED <<globals, errors>>
        ELSE LET list == PrivateGlobals(module) \o PublicGlobals(module)
                 listed == { i \in DOMAIN list : Listed(list, i, module) }
             IN /\ globals' = Append(globals, At(list, listed))
                /\ errors' = errors \o At([i \in DOMAIN list |->
                                [module |-> Len(globals), name |-> list[i].name,
                                 misplaced |-> Misplaced(list[i], module)]],
                                DOMAIN list \ listed)
                /\ UNCHANGED phase
  /\ UNCHANGED <<program, message, files, table, libraries>>

GlobalsListed ==
  /\ phase = "globals" /\ Len(globals) = Count
  /\ phase' = "resolved"
  /\ UNCHANGED <<program, message, files, table, libraries, globals, errors>>

-----------------------------------------------------------------------------
Walk == SelfModule \/ RefuseSelf \/ RefuseFile \/ RefuseRedeclared \/ Submodule
Resolve == CompileMain \/ CompileStd \/ StartWork \/ ResolveNode \/ ResolveFile
             \/ FileUnusable \/ TableComplete
Next == Walk \/ Resolve \/ ListGlobals \/ GlobalsListed

Spec == Init /\ [][Next]_vars /\ WF_vars(Next)

-----------------------------------------------------------------------------
Items == [name : Names, is_submodule : BOOLEAN, decl : Decls \cup {NoDecl, Clobbered},
          path : Seq(Names), index : Nat, is_public : BOOLEAN]
ModuleRecords == [name : Names, parent : Nat, file : Nat, is_file : BOOLEAN,
                  is_type : BOOLEAN, items : Seq(Items)]

\* Every index is one of the table it points into: modules refer to files that
\* were compiled, and stand behind their parents; the walk and the work are about
\* modules that exist.
TypeOK ==
  /\ program \in Programs
  /\ phase \in {"start", "main", "std", "work", "globals", "resolved", "failed", "fault"}
  /\ files \in Seq([path : FilePaths, ast : Nodes])
  /\ modules \in Seq(ModuleRecords)
  /\ \A i \in DOMAIN modules :
       /\ modules[i].file < Len(files)
       /\ modules[i].parent = NoModule \/ modules[i].parent + 1 < i
  /\ todo \in Seq([node : Nodes, inline : BOOLEAN])
  /\ worklist \in Seq([kind : {"node", "file"}, node : Nodes, parent : Nat])
  /\ \A i \in DOMAIN worklist : worklist[i].parent < Count
  /\ at \in Nat /\ (phase \in {"main", "std", "work"} => at < Count)

\* No declaration of a module has the name of one of its submodules: then
\* resolve_node and resolve_top_level find the item of the submodule they look
\* for by its name.
Distinct ==
  \A m \in DOMAIN modules : \A i, j \in DOMAIN modules[m].items :
     modules[m].items[i].is_submodule /\ ~modules[m].items[j].is_submodule
        => modules[m].items[i].name # modules[m].items[j].name

Awaited(w, m, item) ==
  worklist[w].parent = m /\ worklist[w].node.name = item.name
\* The item of a submodule leads to it, or waits for the work that will create it.
Leads(m, item) ==
  \/ item.index # 0 /\ item.index < Count
       /\ get_module(item.index).parent = m /\ get_module(item.index).name = item.name
  \/ item.index = 0 /\ \E w \in DOMAIN worklist : Awaited(w, m, item)

\* The table holds the tree of modules (module_resolution.h: it stores every item
\* of a module): as long as the names are distinct and the indices fit their u16,
\* the item of a submodule leads to the module that was made for it, once the work
\* for it has been done.
Represented ==
  Distinct /\ Count <= NoModule =>
    /\ phase # "fault"
    /\ phase \notin {"start", "failed"} =>
         \A m \in 0..(Count - 1) : \A i \in DOMAIN get_module(m).items :
            LET item == get_module(m).items[i]
            IN item.is_submodule /\ item.path = <<>> => Leads(m, item)
=============================================================================
