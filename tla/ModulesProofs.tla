--------------------------- MODULE ModulesProofs ---------------------------
(***************************************************************************)
(* The table of modules is well formed and holds the tree of modules, and  *)
(* paths keep private modules private, for all programs: TypeOK and        *)
(* Represented of Modules and PrivacyKept of Privacy are invariants.       *)
(***************************************************************************)
EXTENDS Places, DataLemmas

Entries == [node : Nodes, inline : BOOLEAN]
WorkEntries == [kind : {"node", "file"}, node : Nodes, parent : Nat]

(* What reduction makes of a node is typed.                                *)
LEMMA ReducedTyped ==
  ASSUME NEW node \in Nodes
  PROVE  /\ reduced_declarations(node) \in Seq(Decls)
         /\ reduced_submodules(node) \in Seq(Nodes)
         /\ node.name \in Names /\ node.path \in Seq(Names) /\ node.is_type \in BOOLEAN
         /\ node.kind = "alias" => node.path # <<>>
BY NodesAssumption

LEMMA DeclItemsTyped ==
  ASSUME NEW node \in Nodes
  PROVE  /\ DeclItems(node) \in Seq(Items)
         /\ \A i \in DOMAIN DeclItems(node) :
              ~DeclItems(node)[i].is_submodule /\ DeclItems(node)[i].decl \in Decls
<1> DEFINE decls == reduced_declarations(node)
<1>1. decls \in Seq(Decls)
  BY ReducedTyped
<1>2. \A d \in Decls : DeclItem(d) \in Items /\ ~DeclItem(d).is_submodule /\ DeclItem(d).decl \in Decls
  <2> SUFFICES ASSUME NEW d \in Decls
               PROVE  DeclItem(d) \in Items /\ ~DeclItem(d).is_submodule /\ DeclItem(d).decl \in Decls
    OBVIOUS
  <2>1. d.name \in Names
    BY DEF Decls
  <2>2. << >> \in Seq(Names)
    BY EmptySeq
  <2> QED BY <2>1, <2>2 DEF DeclItem, Items
<1> HIDE DEF decls
<1>3. /\ [i \in DOMAIN decls |-> DeclItem(decls[i])] \in Seq(Items)
      /\ \A i \in DOMAIN decls : ~DeclItem(decls[i]).is_submodule /\ DeclItem(decls[i]).decl \in Decls
  BY <1>1, <1>2
<1> QED BY <1>3 DEF DeclItems, decls

LEMMA TodoTyped ==
  ASSUME NEW node \in Nodes
  PROVE  /\ Inline(reduced_submodules(node)) \in Seq(Entries)
         /\ TopLevel(reduced_submodules(node)) \in Seq(Entries)
<1> DEFINE nodes == reduced_submodules(node)
<1>1. nodes \in Seq(Nodes)
  BY ReducedTyped
<1>2. \A n \in Nodes, b \in BOOLEAN : [node |-> n, inline |-> b] \in Entries
  BY DEF Entries
<1> HIDE DEF nodes
<1>3. ASSUME NEW b \in BOOLEAN
      PROVE  [i \in DOMAIN nodes |-> [node |-> nodes[i], inline |-> b]] \in Seq(Entries)
  <2>1. /\ Len(nodes) \in Nat /\ DOMAIN nodes = 1..Len(nodes)
        /\ \A i \in DOMAIN nodes : nodes[i] \in Nodes
    BY <1>1, LenProperties
  <2>2. \A i \in DOMAIN nodes : [node |-> nodes[i], inline |-> b] \in Entries
    BY <1>2, <2>1
  <2> HIDE DEF Entries
  <2>3. [i \in 1..Len(nodes) |-> [node |-> nodes[i], inline |-> b]] \in [1..Len(nodes) -> Entries]
    BY <2>1, <2>2
  <2> QED BY <2>1, <2>3, IsASeq
<1> QED BY <1>3 DEF Inline, TopLevel, nodes

LEMMA SubmoduleItemTyped ==
  ASSUME NEW node \in Nodes, NEW b \in BOOLEAN
  PROVE  /\ SubmoduleItem(node, b) \in Items
         /\ SubmoduleItem(node, b).is_submodule
         /\ SubmoduleItem(node, b).name = node.name
         /\ SubmoduleItem(node, b).index = 0
         /\ SubmoduleItem(node, b).path = node.path
BY ReducedTyped DEF SubmoduleItem, Items

LEMMA SetIndex ==
  ASSUME NEW item \in Items, NEW index \in Nat
  PROVE  /\ set_index(item, index) \in Items
         /\ set_index(item, index).name = item.name
         /\ set_index(item, index).path = item.path
         /\ set_index(item, index).is_submodule = item.is_submodule
         /\ item.is_submodule => set_index(item, index).index = index
         /\ ~item.is_submodule => set_index(item, index).index = item.index
BY DEF set_index, Items

-----------------------------------------------------------------------------
(* A table that has the items of another, with some indices changed: the   *)
(* names and kinds of the items stay what they are.                        *)
SameItems(new, old) ==
  /\ DOMAIN new.items = DOMAIN old.items
  /\ \A i \in DOMAIN old.items :
       /\ new.items[i].name = old.items[i].name
       /\ new.items[i].path = old.items[i].path
       /\ new.items[i].is_submodule = old.items[i].is_submodule

(* link changes the item it finds, and nothing else.                       *)
Finds(T, p, n, m, i) ==
  /\ p # NoModule /\ m = p + 1 /\ i = First(T[m].items, n)
  /\ \E j \in DOMAIN T[m].items : T[m].items[j].name = n
Linked(L, T, p, n, index) ==
  \A m \in 1..Len(T) :
     /\ L[m].name = T[m].name /\ L[m].parent = T[m].parent
     /\ L[m].file = T[m].file /\ L[m].is_file = T[m].is_file
     /\ SameItems(L[m], T[m])
     /\ \A i \in DOMAIN T[m].items :
          L[m].items[i] = IF Finds(T, p, n, m, i) THEN set_index(T[m].items[i], index)
                          ELSE T[m].items[i]

LEMMA Link ==
  ASSUME NEW T \in Seq(ModuleRecords), NEW p \in Nat, NEW n, NEW index \in Nat,
         p = NoModule \/ p < Len(T)
  PROVE  /\ link(T, p, n, index) \in Seq(ModuleRecords)
         /\ Len(link(T, p, n, index)) = Len(T)
         /\ Linked(link(T, p, n, index), T, p, n, index)
<1>1. CASE p = NoModule \/ (\A i \in DOMAIN T[p + 1].items : T[p + 1].items[i].name # n)
  <2>1. link(T, p, n, index) = T
    BY <1>1 DEF link
  <2> QED BY <2>1, <1>1 DEF SameItems, Linked, Finds
<1>2. CASE ~(p = NoModule \/ (\A i \in DOMAIN T[p + 1].items : T[p + 1].items[i].name # n))
  <2> DEFINE items == T[p + 1].items
             f == First(items, n)
             changed == [items EXCEPT ![f] = set_index(items[f], index)]
             R == [T[p + 1] EXCEPT !.items = changed]
  <2>1. p # NoModule /\ p + 1 \in 1..Len(T) /\ T[p + 1] \in ModuleRecords
    BY <1>2
  <2>2. items \in Seq(Items)
    BY <2>1 DEF ModuleRecords
  <2>3. link(T, p, n, index) = [T EXCEPT ![p + 1] = R]
    BY <1>2, <2>1 DEF link
  <2>4. /\ changed \in Seq(Items) /\ DOMAIN changed = DOMAIN items
        /\ \A i \in DOMAIN items :
             changed[i] = IF i = f THEN set_index(items[i], index) ELSE items[i]
    <3> HIDE DEF f, items
    <3>1. \A i \in DOMAIN items : items[i] \in Items /\ set_index(items[i], index) \in Items
      BY <2>2, SetIndex
    <3>2. changed = [i \in DOMAIN items |-> IF i = f THEN set_index(items[i], index) ELSE items[i]]
      OBVIOUS
    <3>3. DOMAIN items = 1..Len(items) /\ Len(items) \in Nat
      BY <2>2
    <3> HIDE DEF changed
    <3> QED BY <3>1, <3>2, <3>3
  <2> HIDE DEF changed
  <2>5. /\ R \in ModuleRecords
        /\ R.name = T[p + 1].name /\ R.parent = T[p + 1].parent
        /\ R.file = T[p + 1].file /\ R.is_file = T[p + 1].is_file
        /\ R.items = changed
    BY <2>1, <2>4 DEF ModuleRecords
  <2>6. \A i \in DOMAIN items : /\ changed[i].name = items[i].name
                                /\ changed[i].path = items[i].path
                                /\ changed[i].is_submodule = items[i].is_submodule
    <3> HIDE DEF items, f
    <3>1. ASSUME NEW i \in DOMAIN items
          PROVE  /\ set_index(items[i], index).name = items[i].name
                 /\ set_index(items[i], index).path = items[i].path
                 /\ set_index(items[i], index).is_submodule = items[i].is_submodule
      <4>1. items[i] \in Items
        BY <2>2
      <4> QED BY <4>1, SetIndex
    <3> QED BY <2>4, <3>1
  <2>7. SameItems(R, T[p + 1])
    <3> HIDE DEF R
    <3> QED BY <2>4, <2>5, <2>6 DEF SameItems
  <2>8. /\ [T EXCEPT ![p + 1] = R] \in Seq(ModuleRecords)
        /\ Len([T EXCEPT ![p + 1] = R]) = Len(T)
        /\ \A m \in 1..Len(T) : [T EXCEPT ![p + 1] = R][m] = IF m = p + 1 THEN R ELSE T[m]
    <3> HIDE DEF R
    <3> QED BY <2>1, <2>5
  <2>9. \E i \in DOMAIN items : items[i].name = n
    BY <1>2
  <2>10. \A m \in 1..Len(T) : SameItems(T[m], T[m])
    BY DEF SameItems
  <2> HIDE DEF R
  <2> QED BY <2>1, <2>3, <2>4, <2>5, <2>7, <2>8, <2>9, <2>10 DEF Linked, Finds
<1> QED BY <1>1, <1>2

LEMMA Create ==
  ASSUME NEW T \in Seq(ModuleRecords), NEW p \in Nat, NEW n, p = NoModule \/ p < Len(T),
         NEW c \in ModuleRecords
  PROVE  /\ Append(link(T, p, n, Len(T)), c) \in Seq(ModuleRecords)
         /\ Len(Append(link(T, p, n, Len(T)), c)) = Len(T) + 1
         /\ Append(link(T, p, n, Len(T)), c)[Len(T) + 1] = c
         /\ \A m \in 1..Len(T) :
              Append(link(T, p, n, Len(T)), c)[m] = link(T, p, n, Len(T))[m]
<1> DEFINE L == link(T, p, n, Len(T))
<1>1. L \in Seq(ModuleRecords) /\ Len(L) = Len(T) /\ Len(T) \in Nat
  BY Link
<1> HIDE DEF L
<1>2. Append(L, c) \in Seq(ModuleRecords) /\ Len(Append(L, c)) = Len(T) + 1
      /\ Append(L, c)[Len(T) + 1] = c /\ \A m \in 1..Len(T) : Append(L, c)[m] = L[m]
  BY <1>1
<1> QED BY <1>2 DEF L

\* The table with more items for one of the modules.
WithItems(T, a, new) == [T EXCEPT ![a + 1].items = @ \o new]

LEMMA Declared ==
  ASSUME NEW T \in Seq(ModuleRecords), NEW a \in Nat, a < Len(T), NEW new \in Seq(Items)
  PROVE  /\ WithItems(T, a, new) \in Seq(ModuleRecords)
         /\ Len(WithItems(T, a, new)) = Len(T)
         /\ \A m \in 1..Len(T) :
              /\ WithItems(T, a, new)[m].name = T[m].name
              /\ WithItems(T, a, new)[m].parent = T[m].parent
              /\ WithItems(T, a, new)[m].file = T[m].file
              /\ WithItems(T, a, new)[m].is_file = T[m].is_file
              /\ T[m].items \in Seq(Items) /\ WithItems(T, a, new)[m].items \in Seq(Items)
              /\ m # a + 1 => WithItems(T, a, new)[m].items = T[m].items
              /\ m = a + 1 => Len(WithItems(T, a, new)[m].items) = Len(T[m].items) + Len(new)
              /\ \A i \in 1..Len(T[m].items) : WithItems(T, a, new)[m].items[i] = T[m].items[i]
         /\ \A i \in 1..Len(new) :
              WithItems(T, a, new)[a + 1].items[Len(T[a + 1].items) + i] = new[i]
<1> DEFINE items == T[a + 1].items
           R == [T[a + 1] EXCEPT !.items = items \o new]
           T2 == WithItems(T, a, new)
<1>1. a + 1 \in 1..Len(T) /\ T[a + 1] \in ModuleRecords /\ T2 = [T EXCEPT ![a + 1] = R]
  BY DEF WithItems
<1>2. items \in Seq(Items)
  BY <1>1 DEF ModuleRecords
<1>3. /\ items \o new \in Seq(Items) /\ Len(items \o new) = Len(items) + Len(new)
      /\ \A i \in 1..Len(items) : (items \o new)[i] = items[i]
      /\ \A i \in 1..Len(new) : (items \o new)[Len(items) + i] = new[i]
  <2> HIDE DEF items
  <2> QED BY <1>2
<1>4. R \in ModuleRecords /\ R.items = items \o new
      /\ R.name = T[a + 1].name /\ R.parent = T[a + 1].parent
      /\ R.file = T[a + 1].file /\ R.is_file = T[a + 1].is_file
  BY <1>1, <1>3 DEF ModuleRecords
<1>5. /\ T2 \in Seq(ModuleRecords) /\ Len(T2) = Len(T)
      /\ \A m \in 1..Len(T) : T2[m] = IF m = a + 1 THEN R ELSE T[m]
  <2> HIDE DEF R
  <2>1. /\ [T EXCEPT ![a + 1] = R] \in Seq(ModuleRecords)
        /\ Len([T EXCEPT ![a + 1] = R]) = Len(T)
        /\ \A m \in 1..Len(T) : [T EXCEPT ![a + 1] = R][m] = IF m = a + 1 THEN R ELSE T[m]
    BY <1>1, <1>4, ExceptSeq
  <2> QED BY <1>1, <2>1
<1>6. \A m \in 1..Len(T) : T[m] \in ModuleRecords /\ T[m].items \in Seq(Items)
  <2>1. \A m \in 1..Len(T) : T[m] \in ModuleRecords
    OBVIOUS
  <2> QED BY <2>1 DEF ModuleRecords
<1>7. \A m \in 1..Len(T) :
        /\ T2[m].name = T[m].name /\ T2[m].parent = T[m].parent
        /\ T2[m].file = T[m].file /\ T2[m].is_file = T[m].is_file
        /\ m # a + 1 => T2[m].items = T[m].items
        /\ m = a + 1 => T2[m].items = items \o new
  <2> HIDE DEF R
  <2> QED BY <1>4, <1>5
<1> HIDE DEF R
<1> QED BY <1>1, <1>2, <1>3, <1>5, <1>6, <1>7

-----------------------------------------------------------------------------
(* Type correctness.                                                       *)
LEMMA InitTyped == Init => TypeOK
<1> SUFFICES ASSUME Init PROVE TypeOK
  OBVIOUS
<1>1. /\ files \in Seq([path : FilePaths, ast : Nodes])
      /\ modules \in Seq(ModuleRecords)
      /\ todo \in Seq([node : Nodes, inline : BOOLEAN])
      /\ worklist \in Seq([kind : {"node", "file"}, node : Nodes, parent : Nat])
  BY EmptySeq DEF Init
<1>2. DOMAIN modules = {} /\ DOMAIN worklist = {}
  <2>1. DOMAIN << >> = {}
    OBVIOUS
  <2> QED BY <2>1 DEF Init
<1>3. at \in Nat /\ (phase \in {"main", "std", "work"} => at < Count)
      /\ phase = "start" /\ program \in Programs
  BY DEF Init
<1> QED BY <1>1, <1>2, <1>3 DEF TypeOK

LEMMA OpenedFile ==
  ASSUME NEW p \in Programs, NEW parent, NEW name,
         open_file_module(p, parent, name) # NoFile
  PROVE  /\ open_file_module(p, parent, name) \in FilePaths
         /\ p.files[open_file_module(p, parent, name)] \in Nodes
<1>1. open_file_module(p, parent, name) \in DOMAIN p.files
  BY DEF open_file_module
<1> QED BY <1>1, ProgramsAssumption

LEMMA FileAdded ==
  ASSUME TypeOK, NEW path \in FilePaths, NEW ast \in Nodes, Compiled(path, ast)
  PROVE  files' \in Seq([path : FilePaths, ast : Nodes]) /\ Len(files') = Len(files) + 1
         /\ Len(files) \in Nat
BY DEF TypeOK, Compiled

LEMMA MetTyped ==
  ASSUME TypeOK, Walking
  PROVE  /\ Met \in Nodes /\ Head(todo).inline \in BOOLEAN
         /\ Tail(todo) \in Seq(Entries)
         /\ at + 1 \in 1..Len(modules) /\ at < Len(modules) /\ modules \in Seq(ModuleRecords)
<1>1. todo \in Seq(Entries) /\ todo # <<>>
  BY DEF TypeOK, Walking, Entries
<1>2. Head(todo) \in Entries /\ Tail(todo) \in Seq(Entries)
  BY <1>1
<1> QED BY <1>2 DEF TypeOK, Walking, Entries, Met, Count

LEMMA PoppedTyped ==
  ASSUME TypeOK, NEW kind, Working(kind)
  PROVE  /\ Popped \in WorkEntries /\ Popped.parent < Len(modules)
         /\ SubSeq(worklist, 1, Len(worklist) - 1) \in Seq(WorkEntries)
         /\ Len(SubSeq(worklist, 1, Len(worklist) - 1)) = Len(worklist) - 1
         /\ \A w \in 1..(Len(worklist) - 1) :
               SubSeq(worklist, 1, Len(worklist) - 1)[w] = worklist[w]
         /\ Len(worklist) \in DOMAIN worklist /\ DOMAIN worklist = 1..Len(worklist)
         /\ worklist \in Seq(WorkEntries) /\ Len(worklist) \in Nat
<1>1. worklist \in Seq(WorkEntries) /\ worklist # <<>>
  BY DEF TypeOK, Working, WorkEntries
<1>2. Len(worklist) \in 1..Len(worklist) /\ Len(worklist) - 1 \in Nat /\ DOMAIN worklist = 1..Len(worklist)
  BY <1>1
<1>3. Popped \in WorkEntries /\ Popped.parent < Len(modules)
  <2>1. worklist[Len(worklist)] \in WorkEntries
    BY <1>1, <1>2
  <2>2. \A i \in DOMAIN worklist : worklist[i].parent < Count
    BY DEF TypeOK
  <2> QED BY <1>2, <2>1, <2>2 DEF Popped, Count
<1> QED BY <1>1, <1>2, <1>3

\* A module is added, and the work for it is done.
LEMMA CreatedTyped ==
  ASSUME TypeOK, NEW p \in Nat, p = NoModule \/ p < Len(modules), NEW n \in Names,
         NEW f \in Nat, f < Len(files'), Len(files) <= Len(files'), Len(files) \in Nat,
         Len(files') \in Nat, NEW is_file \in BOOLEAN, NEW is_type \in BOOLEAN,
         NEW items \in Seq(Items),
         modules' = Append(link(modules, p, n, Count), create_module(n, p, f, is_file, is_type, items))
  PROVE  /\ modules' \in Seq(ModuleRecords)
         /\ Len(modules') = Len(modules) + 1
         /\ \A i \in DOMAIN modules' :
              modules'[i].file < Len(files') /\ (modules'[i].parent = NoModule \/ modules'[i].parent + 1 < i)
<1> DEFINE c == create_module(n, p, f, is_file, is_type, items)
<1>1. c \in ModuleRecords /\ c.parent = p /\ c.file = f
  BY DEF create_module, ModuleRecords
<1> HIDE DEF c
<1>2. modules \in Seq(ModuleRecords) /\ Count = Len(modules) /\ modules' = Append(link(modules, p, n, Len(modules)), c)
  BY DEF TypeOK, Count, c
<1>3. /\ modules' \in Seq(ModuleRecords) /\ Len(modules') = Len(modules) + 1
      /\ modules'[Len(modules) + 1] = c
      /\ \A m \in 1..Len(modules) : modules'[m] = link(modules, p, n, Len(modules))[m]
  BY <1>1, <1>2, Create
<1>4. \A m \in 1..Len(modules) : modules'[m].file = modules[m].file /\ modules'[m].parent = modules[m].parent
  <2>1. Linked(link(modules, p, n, Len(modules)), modules, p, n, Len(modules))
    BY <1>2, Link
  <2> QED BY <1>3, <2>1 DEF Linked
<1>5. \A m \in 1..Len(modules) :
        /\ modules[m].file < Len(files) /\ modules[m].file \in Nat
        /\ modules[m].parent = NoModule \/ modules[m].parent + 1 < m
  <2>1. DOMAIN modules = 1..Len(modules)
        /\ \A m \in 1..Len(modules) : modules[m] \in ModuleRecords
    BY <1>2
  <2>2. \A m \in DOMAIN modules :
          modules[m].file < Len(files) /\ (modules[m].parent = NoModule \/ modules[m].parent + 1 < m)
    BY DEF TypeOK
  <2> QED BY <2>1, <2>2 DEF ModuleRecords
<1>6. DOMAIN modules' = 1..(Len(modules) + 1) /\ Len(modules) \in Nat
  BY <1>2, <1>3
<1>7. ASSUME NEW i \in 1..(Len(modules) + 1)
      PROVE  modules'[i].file < Len(files') /\ (modules'[i].parent = NoModule \/ modules'[i].parent + 1 < i)
  <2>1. CASE i = Len(modules) + 1
    <3>1. modules'[i] = c
      BY <1>3, <2>1
    <3> QED BY <1>1, <1>6, <2>1, <3>1
  <2>2. CASE i \in 1..Len(modules)
    <3>1. modules'[i].file = modules[i].file /\ modules'[i].parent = modules[i].parent
      BY <1>4, <2>2
    <3>2. modules[i].file < Len(files) /\ modules[i].file \in Nat
          /\ (modules[i].parent = NoModule \/ modules[i].parent + 1 < i)
      BY <1>5, <2>2
    <3> QED BY <3>1, <3>2
  <2> QED BY <1>6, <2>1, <2>2
<1> QED BY <1>3, <1>6, <1>7

\* The actions that leave the modules and the files alone.
LEMMA TypeKept ==
  ASSUME TypeOK, UNCHANGED <<program, files, modules>>,
         phase' \in {"start", "main", "std", "work", "globals", "resolved", "failed", "fault"},
         UNCHANGED <<at, todo, worklist>>,
         phase' \in {"main", "std", "work"} => phase \in {"main", "std", "work"}
  PROVE  TypeOK'
BY DEF TypeOK, Count

LEMMA DeclareTyped ==
  ASSUME TypeOK, Walking, NEW new \in Seq(Items), Declare(new), Keep,
         todo' \in Seq(Entries), worklist' \in Seq(WorkEntries),
         \A i \in DOMAIN worklist' : worklist'[i].parent < Count
  PROVE  TypeOK'
<1>1. modules \in Seq(ModuleRecords) /\ at \in Nat /\ at < Len(modules)
  BY DEF TypeOK, Walking, Count
<1> DEFINE T2 == WithItems(modules, at, new)
<1>3. /\ T2 \in Seq(ModuleRecords) /\ Len(T2) = Len(modules)
      /\ \A m \in 1..Len(modules) : T2[m].parent = modules[m].parent /\ T2[m].file = modules[m].file
  BY <1>1, Declared
<1>4. modules' = T2
  BY DEF Declare, WithItems
<1> HIDE DEF T2
<1>5. DOMAIN modules' = DOMAIN modules /\ Count' = Count
  BY <1>1, <1>3, <1>4 DEF Count
<1>6. \A i \in DOMAIN modules' :
        modules'[i].file < Len(files') /\ (modules'[i].parent = NoModule \/ modules'[i].parent + 1 < i)
  <2>1. \A i \in DOMAIN modules :
          modules[i].file < Len(files) /\ (modules[i].parent = NoModule \/ modules[i].parent + 1 < i)
    BY DEF TypeOK
  <2>2. \A i \in DOMAIN modules : modules'[i].parent = modules[i].parent /\ modules'[i].file = modules[i].file
    BY <1>1, <1>3, <1>4
  <2>3. files' = files
    BY DEF Keep
  <2> QED BY <1>5, <2>1, <2>2, <2>3
<1>7. UNCHANGED <<program, phase, files, at>> /\ modules' \in Seq(ModuleRecords)
  BY <1>3, <1>4 DEF Keep
<1> QED BY <1>5, <1>6, <1>7 DEF TypeOK, Entries, WorkEntries

LEMMA CreateStep ==
  ASSUME TypeOK, NEW p \in Nat, p = NoModule \/ p < Len(modules), NEW n \in Names,
         NEW f \in Nat, f < Len(files'), NEW is_file \in BOOLEAN, NEW is_type \in BOOLEAN,
         NEW items \in Seq(Items),
         modules' = Append(link(modules, p, n, Count), create_module(n, p, f, is_file, is_type, items)),
         files' = files \/ \E path \in FilePaths, ast \in Nodes : Compiled(path, ast),
         at' = Count, todo' \in Seq(Entries), program' = program,
         phase' \in {"main", "std", "work"}, worklist' \in Seq(WorkEntries),
         \A i \in DOMAIN worklist' : worklist'[i].parent < Count
  PROVE  TypeOK'
<1>1. /\ files' \in Seq([path : FilePaths, ast : Nodes]) /\ Len(files) \in Nat /\ Len(files') \in Nat
      /\ Len(files) <= Len(files')
  <2>1. CASE files' = files
    BY <2>1 DEF TypeOK
  <2>2. CASE \E path \in FilePaths, ast \in Nodes : Compiled(path, ast)
    <3>1. PICK path \in FilePaths, ast \in Nodes : Compiled(path, ast)
      BY <2>2
    <3>2. files' \in Seq([path : FilePaths, ast : Nodes]) /\ Len(files') = Len(files) + 1
          /\ Len(files) \in Nat
      BY <3>1, FileAdded
    <3> QED BY <3>2
  <2> QED BY <2>1, <2>2
<1>2. /\ modules' \in Seq(ModuleRecords)
      /\ Len(modules') = Len(modules) + 1
      /\ \A i \in DOMAIN modules' :
           modules'[i].file < Len(files') /\ (modules'[i].parent = NoModule \/ modules'[i].parent + 1 < i)
  BY <1>1, CreatedTyped
<1>3. Count \in Nat /\ Count' = Count + 1
  BY <1>2 DEF Count, TypeOK
<1>4. \A i \in DOMAIN worklist' : worklist'[i].parent < Count'
  <2>1. \A i \in DOMAIN worklist' : worklist'[i].parent \in Nat
    <3>1. \A i \in DOMAIN worklist' : worklist'[i] \in WorkEntries
      OBVIOUS
    <3> QED BY <3>1 DEF WorkEntries
  <2> QED BY <1>3, <2>1
<1> QED BY <1>1, <1>2, <1>3, <1>4 DEF TypeOK, Entries, WorkEntries

LEMMA WorkTyped ==
  ASSUME NEW entry \in Entries, entry.node.kind \in {"body", "alias", "file"},
         NEW parent \in Nat, at = parent
  PROVE  /\ Work(entry) \in Seq(WorkEntries) /\ Len(Work(entry)) <= 1
         /\ \A i \in DOMAIN Work(entry) : /\ i = 1 /\ Work(entry)[i].parent = parent
                                          /\ Work(entry)[i].node = entry.node
<1>1. Node(entry.node, at) \in WorkEntries /\ File(entry.node, at) \in WorkEntries
  BY DEF Node, File, WorkEntries, Entries
<1>2. Work(entry) \in {<<>>, <<Node(entry.node, at)>>, <<File(entry.node, at)>>}
  BY DEF Work, Entries
<1>3. CASE Work(entry) = <<>>
  BY <1>3
<1>4. CASE Work(entry) = <<Node(entry.node, at)>>
  BY <1>1, <1>4 DEF Node
<1>5. CASE Work(entry) = <<File(entry.node, at)>>
  BY <1>1, <1>5 DEF File
<1> QED BY <1>2, <1>3, <1>4, <1>5

LEMMA TypeStep == TypeOK /\ [Next]_vars => TypeOK'
<1> SUFFICES ASSUME TypeOK, [Next]_vars PROVE TypeOK'
  OBVIOUS
<1>a. worklist \in Seq(WorkEntries) /\ todo \in Seq(Entries)
      /\ \A i \in DOMAIN worklist : worklist[i].parent < Count
  BY DEF TypeOK, WorkEntries, Entries
<1>b. ASSUME NEW text, Fail(text) PROVE TypeOK'
  BY <1>b, TypeKept DEF Fail
<1>1. CASE SelfModule
  <2>1. Met \in Nodes /\ Tail(todo) \in Seq(Entries) /\ DeclItems(Met) \in Seq(Items)
        /\ Inline(reduced_submodules(Met)) \in Seq(Entries)
    BY <1>1, MetTyped, DeclItemsTyped, TodoTyped DEF SelfModule
  <2>2. todo' \in Seq(Entries)
    BY <1>1, <2>1, ConcatProperties DEF SelfModule
  <2> QED BY <1>1, <1>a, <2>1, <2>2, DeclareTyped DEF SelfModule
<1>2. CASE RefuseSelf \/ RefuseFile \/ RefuseRedeclared
  BY <1>2, <1>b DEF RefuseSelf, RefuseFile, RefuseRedeclared, Refused
<1>3. CASE Submodule
  <2>1. /\ Met \in Nodes /\ Head(todo).inline \in BOOLEAN /\ Tail(todo) \in Seq(Entries)
        /\ Head(todo) \in Entries /\ at \in Nat /\ at < Count
    BY <1>3, <1>a, MetTyped DEF Submodule, TypeOK, Count, Walking
  <2>2. <<SubmoduleItem(Met, IsPublic(Head(todo)))>> \in Seq(Items)
    BY <2>1, SubmoduleItemTyped DEF IsPublic
  <2>3. Head(todo).node.kind \in {"body", "alias", "file"}
    BY <1>3 DEF Submodule, Met
  <2>4. /\ Work(Head(todo)) \in Seq(WorkEntries)
        /\ \A i \in DOMAIN Work(Head(todo)) : Work(Head(todo))[i].parent < Count
    BY <2>1, <2>3, WorkTyped
  <2>5. /\ worklist' \in Seq(WorkEntries)
        /\ \A i \in DOMAIN worklist' : worklist'[i].parent < Count
    <3> DEFINE new == Work(Head(todo))
    <3>1. worklist' = worklist \o new /\ new \in Seq(WorkEntries)
          /\ \A i \in DOMAIN new : new[i].parent < Count
      BY <1>3, <2>4 DEF Submodule
    <3> HIDE DEF new
    <3> QED BY <1>a, <3>1, ConcatProperties
  <2> QED BY <1>3, <2>1, <2>2, <2>5, DeclareTyped DEF Submodule
<1>4. CASE CompileMain
  <2> DEFINE path == open_file_module(program, <<>>, program.main)
  <2>1. CASE path = NoFile
    BY <1>4, <1>b, <2>1 DEF CompileMain
  <2>2. CASE path # NoFile
    <3>1. path \in FilePaths /\ program.files[path] \in Nodes
      BY <2>2, OpenedFile DEF TypeOK
    <3>2. /\ Compiled(path, program.files[path])
          /\ resolve_top_level(program.files[path], new_file, "main", NoModule)
          /\ phase' = "main"
          /\ UNCHANGED <<program, message, worklist, libraries, globals, errors>>
      BY <1>4, <2>2 DEF CompileMain
    <3> HIDE DEF path
    <3>3. new_file \in Nat /\ new_file < Len(files')
      BY <3>1, <3>2, FileAdded DEF new_file
    <3>4. "main" \in Names /\ << >> \in Seq(Items) /\ NoModule \in Nat
      BY NodesAssumption DEF NoModule
    <3>5. todo' \in Seq(Entries)
      BY <3>1, <3>2, TodoTyped DEF resolve_top_level
    <3> QED BY <1>a, <3>1, <3>2, <3>3, <3>4, <3>5, CreateStep DEF resolve_top_level
  <2> QED BY <2>1, <2>2
<1>5. CASE CompileStd
  <2>1. program.std \in Nodes /\ <<"std">> \in FilePaths /\ "std" \in Names
    BY NodesAssumption, ProgramsAssumption DEF TypeOK, FilePaths
  <2>2. new_file \in Nat /\ new_file < Len(files')
    BY <1>5, <2>1, FileAdded DEF CompileStd, new_file
  <2>3. << >> \in Seq(Items) /\ NoModule \in Nat /\ todo' \in Seq(Entries)
    BY <1>5, <2>1, TodoTyped DEF CompileStd, resolve_top_level, NoModule
  <2> QED BY <1>5, <1>a, <2>1, <2>2, <2>3, CreateStep DEF CompileStd, resolve_top_level
<1>6. CASE StartWork \/ TableComplete
  BY <1>6, TypeKept DEF StartWork, TableComplete, table
<1>7. CASE ResolveNode
  <2>1. /\ Popped \in WorkEntries /\ Popped.parent < Len(modules) /\ Popped.parent \in Nat
        /\ Popped.node \in Nodes
        /\ worklist' \in Seq(WorkEntries) /\ Len(worklist') = Len(worklist) - 1
        /\ \A w \in 1..(Len(worklist) - 1) : worklist'[w] = worklist[w]
    BY <1>7, PoppedTyped DEF ResolveNode, Pop, WorkEntries
  <2>2. \A i \in DOMAIN worklist' : worklist'[i].parent < Count
    BY <1>a, <2>1
  <2>3. /\ DeclItems(Popped.node) \in Seq(Items) /\ Popped.node.name \in Names
        /\ Popped.node.is_type \in BOOLEAN /\ todo' \in Seq(Entries)
    BY <1>7, <2>1, DeclItemsTyped, ReducedTyped, TodoTyped DEF ResolveNode, resolve_node
  <2>4. get_module(Popped.parent).file \in Nat /\ get_module(Popped.parent).file < Len(files')
    <3>1. Popped.parent + 1 \in DOMAIN modules /\ modules[Popped.parent + 1] \in ModuleRecords
      BY <2>1 DEF TypeOK
    <3> QED BY <1>7, <3>1 DEF TypeOK, get_module, ModuleRecords, ResolveNode
  <2>5. phase' \in {"main", "std", "work"} /\ files' = files /\ program' = program /\ at' = Count
    BY <1>7 DEF ResolveNode, Working, resolve_node
  <2> QED BY <1>7, <2>1, <2>2, <2>3, <2>4, <2>5, CreateStep DEF ResolveNode, resolve_node
<1>8. CASE ResolveFile
  <2> DEFINE parent == files[get_module(Popped.parent).file + 1]
             path == open_file_module(program, parent.path, <<Popped.node.name>>)
  <2>1. CASE path = NoFile
    BY <1>8, <1>b, <2>1 DEF ResolveFile
  <2>2. CASE path # NoFile
    <3>1. path \in FilePaths /\ program.files[path] \in Nodes
      BY <2>2, OpenedFile DEF TypeOK
    <3>2. /\ Compiled(path, program.files[path])
          /\ resolve_top_level(program.files[path], new_file, Popped.node.name, Popped.parent)
          /\ Pop /\ Working("file")
          /\ UNCHANGED <<program, phase, message, libraries, globals, errors>>
      BY <1>8, <2>2 DEF ResolveFile
    <3> HIDE DEF path
    <3>3. /\ Popped.parent < Len(modules) /\ Popped.parent \in Nat /\ Popped.node \in Nodes
          /\ worklist' \in Seq(WorkEntries) /\ Len(worklist') = Len(worklist) - 1
          /\ \A w \in 1..(Len(worklist) - 1) : worklist'[w] = worklist[w]
      BY <3>2, PoppedTyped DEF Pop, WorkEntries
    <3>4. \A i \in DOMAIN worklist' : worklist'[i].parent < Count
      BY <1>a, <3>3
    <3>5. new_file \in Nat /\ new_file < Len(files')
      BY <3>1, <3>2, FileAdded DEF new_file
    <3>6. << >> \in Seq(Items) /\ Popped.node.name \in Names /\ todo' \in Seq(Entries)
      BY <3>1, <3>2, <3>3, TodoTyped, ReducedTyped DEF resolve_top_level
    <3>7. phase' \in {"main", "std", "work"}
      BY <3>2 DEF Working
    <3> QED BY <3>1, <3>2, <3>3, <3>4, <3>5, <3>6, <3>7, CreateStep DEF resolve_top_level
  <2> QED BY <2>1, <2>2
<1>9. CASE FileUnusable
  BY <1>9, <1>b DEF FileUnusable
<1>10. CASE ListGlobals
  <2>1. phase' \in {"globals", "fault"} /\ UNCHANGED <<program, files, modules, at, todo, worklist>>
    BY <1>10 DEF ListGlobals, table
  <2> QED BY <2>1, TypeKept
<1>11. CASE GlobalsListed \/ UNCHANGED vars
  BY <1>11, TypeKept DEF GlobalsListed, table, vars, TypeOK
<1> QED BY <1>1, <1>2, <1>3, <1>4, <1>5, <1>6, <1>7, <1>8, <1>9, <1>10, <1>11
        DEF Next, Walk, Resolve

\* Every index of the table, the walk and the work is one of what it points into,
\* whatever the program.
THEOREM TypeCorrect == Spec => []TypeOK
<1>1. Init => TypeOK
  BY InitTyped
<1>2. TypeOK /\ [Next]_vars => TypeOK'
  BY TypeStep
<1> QED BY <1>1, <1>2, PTL DEF Spec

-----------------------------------------------------------------------------
(***************************************************************************)
(* The tree of modules.  Represented is not inductive: that the work finds *)
(* the item it is about needs that the items of a module and the work for  *)
(* them are told apart by their names.                                     *)
(***************************************************************************)
NamedOnce ==
  \A m \in DOMAIN modules : \A i, j \in DOMAIN modules[m].items :
     /\ modules[m].items[i].is_submodule /\ modules[m].items[j].is_submodule
     /\ modules[m].items[i].name = modules[m].items[j].name
     => i = j

\* Work is queued for an item that leads nowhere yet, and only once.
WorkHasItem ==
  \A w \in DOMAIN worklist : \E i \in DOMAIN modules[worklist[w].parent + 1].items :
     /\ modules[worklist[w].parent + 1].items[i].is_submodule
     /\ modules[worklist[w].parent + 1].items[i].name = worklist[w].node.name
     /\ modules[worklist[w].parent + 1].items[i].index = 0
WorkOnce ==
  \A v, w \in DOMAIN worklist :
     worklist[v].parent = worklist[w].parent /\ worklist[v].node.name = worklist[w].node.name => v = w

ItemsLead ==
  \A m \in DOMAIN modules : \A i \in DOMAIN modules[m].items :
     modules[m].items[i].is_submodule /\ modules[m].items[i].path = <<>>
        => Leads(m - 1, modules[m].items[i])
DeclsWhole ==
  \A m \in DOMAIN modules : \A i \in DOMAIN modules[m].items :
     ~modules[m].items[i].is_submodule => modules[m].items[i].decl # Clobbered

Table == WorkHasItem /\ WorkOnce /\ ItemsLead /\ DeclsWhole
IInv ==
  /\ TypeOK
  /\ \E S : globals \in Seq(S)
  /\ NamedOnce
  /\ Distinct /\ Count <= NoModule => phase # "fault" /\ Table

LEMMA Clobber == Clobbered \notin Decls
BY DEF Clobbered, Decls

\* The items of typed modules.
LEMMA ItemsTyped ==
  ASSUME modules \in Seq(ModuleRecords), NEW m \in DOMAIN modules
  PROVE  /\ modules[m] \in ModuleRecords /\ modules[m].items \in Seq(Items)
         /\ DOMAIN modules[m].items = 1..Len(modules[m].items) /\ Len(modules[m].items) \in Nat
         /\ \A i \in DOMAIN modules[m].items : modules[m].items[i] \in Items
<1>1. modules[m] \in ModuleRecords
  OBVIOUS
<1>2. modules[m].items \in Seq(Items)
  BY <1>1 DEF ModuleRecords
<1> DEFINE items == modules[m].items
<1> HIDE DEF items
<1>3. items \in Seq(Items) => /\ DOMAIN items = 1..Len(items) /\ Len(items) \in Nat
                              /\ \A i \in DOMAIN items : items[i] \in Items
  OBVIOUS
<1> QED BY <1>1, <1>2, <1>3 DEF items

LEMMA WorklistTyped ==
  ASSUME TypeOK
  PROVE  /\ worklist \in Seq(WorkEntries) /\ DOMAIN worklist = 1..Len(worklist)
         /\ Len(worklist) \in Nat
         /\ \A w \in DOMAIN worklist :
              /\ worklist[w].parent \in Nat /\ worklist[w].parent < Len(modules)
              /\ worklist[w].parent + 1 \in DOMAIN modules
<1>1. worklist \in Seq(WorkEntries) /\ modules \in Seq(ModuleRecords)
      /\ \A w \in DOMAIN worklist : worklist[w].parent < Len(modules)
  BY DEF TypeOK, WorkEntries, Count
<1>2. \A w \in DOMAIN worklist : worklist[w] \in WorkEntries
  BY <1>1
<1>3. \A w \in DOMAIN worklist : worklist[w].parent \in Nat
  BY <1>2 DEF WorkEntries
<1>4. DOMAIN modules = 1..Len(modules) /\ Len(modules) \in Nat
  BY <1>1
<1> QED BY <1>1, <1>3, <1>4

LEMMA KeptTable ==
  ASSUME IInv, UNCHANGED <<modules, worklist, globals>>, TypeOK', phase' # "fault"
  PROVE  IInv'
BY DEF IInv, NamedOnce, Table, WorkHasItem, WorkOnce, ItemsLead, DeclsWhole, Distinct, Leads, Awaited,
       Count, get_module

LEMMA InitTable == Init => IInv
<1> SUFFICES ASSUME Init PROVE IInv
  OBVIOUS
<1>1. DOMAIN << >> = {}
  OBVIOUS
<1>2. DOMAIN modules = {} /\ DOMAIN worklist = {} /\ phase # "fault"
  BY <1>1 DEF Init
<1>3. globals \in Seq({})
  BY EmptySeq DEF Init
<1> QED BY <1>2, <1>3, InitTyped
        DEF IInv, NamedOnce, Table, WorkHasItem, WorkOnce, ItemsLead, DeclsWhole

-----------------------------------------------------------------------------
\* The walk appends items to the module it is at.
LEMMA DeclaredItems ==
  ASSUME TypeOK, Walking, NEW new \in Seq(Items), Declare(new)
  PROVE  /\ at + 1 \in DOMAIN modules /\ DOMAIN modules' = DOMAIN modules /\ Count' = Count
         /\ DOMAIN modules = 1..Len(modules) /\ Len(modules) \in Nat /\ at \in Nat
         /\ \A m \in DOMAIN modules :
              /\ modules'[m].name = modules[m].name /\ modules'[m].parent = modules[m].parent
              /\ modules'[m].file = modules[m].file /\ modules'[m].is_file = modules[m].is_file
              /\ m # at + 1 => modules'[m].items = modules[m].items
              /\ \A i \in DOMAIN modules[m].items :
                   i \in DOMAIN modules'[m].items /\ modules'[m].items[i] = modules[m].items[i]
         /\ DOMAIN modules'[at + 1].items = 1..(Len(modules[at + 1].items) + Len(new))
         /\ DOMAIN modules[at + 1].items = 1..Len(modules[at + 1].items)
         /\ Len(modules[at + 1].items) \in Nat
         /\ \A i \in 1..Len(new) : modules'[at + 1].items[Len(modules[at + 1].items) + i] = new[i]
<1>1. modules \in Seq(ModuleRecords) /\ at \in Nat /\ at < Len(modules)
  BY DEF TypeOK, Walking, Count
<1> DEFINE T2 == WithItems(modules, at, new)
<1>2. modules' = T2
  BY DEF Declare, WithItems
<1>3. /\ T2 \in Seq(ModuleRecords)
      /\ Len(T2) = Len(modules)
      /\ \A m \in 1..Len(modules) :
           /\ T2[m].name = modules[m].name /\ T2[m].parent = modules[m].parent
           /\ T2[m].file = modules[m].file /\ T2[m].is_file = modules[m].is_file
           /\ modules[m].items \in Seq(Items) /\ T2[m].items \in Seq(Items)
           /\ m # at + 1 => T2[m].items = modules[m].items
           /\ m = at + 1 => Len(T2[m].items) = Len(modules[m].items) + Len(new)
           /\ \A i \in 1..Len(modules[m].items) : T2[m].items[i] = modules[m].items[i]
      /\ \A i \in 1..Len(new) : T2[at + 1].items[Len(modules[at + 1].items) + i] = new[i]
  BY ONLY <1>1, Declared, new \in Seq(Items)
<1> HIDE DEF T2
<1>4. /\ at + 1 \in DOMAIN modules /\ DOMAIN modules' = DOMAIN modules /\ Count' = Count
      /\ DOMAIN modules = 1..Len(modules) /\ Len(modules) \in Nat
  BY <1>1, <1>2, <1>3 DEF Count
<1>5. ASSUME NEW m \in DOMAIN modules
      PROVE  /\ DOMAIN modules[m].items = 1..Len(modules[m].items) /\ Len(modules[m].items) \in Nat
             /\ DOMAIN T2[m].items = 1..Len(T2[m].items) /\ Len(T2[m].items) \in Nat
             /\ m # at + 1 => Len(T2[m].items) = Len(modules[m].items)
  <2>1. modules[m].items \in Seq(Items) /\ T2[m].items \in Seq(Items)
        /\ (m # at + 1 => T2[m].items = modules[m].items)
    BY <1>3, <1>4
  <2> QED BY <2>1
<1>6. ASSUME NEW m \in DOMAIN modules, NEW i \in DOMAIN modules[m].items
      PROVE  i \in DOMAIN T2[m].items /\ T2[m].items[i] = modules[m].items[i]
  <2>1. i \in 1..Len(modules[m].items)
    BY <1>5
  <2>2. T2[m].items[i] = modules[m].items[i]
    BY <1>3, <1>4, <2>1
  <2>3. Len(T2[m].items) >= Len(modules[m].items)
    <3>1. m = at + 1 => Len(T2[m].items) = Len(modules[m].items) + Len(new)
      BY <1>3, <1>4
    <3>2. Len(new) \in Nat /\ Len(modules[m].items) \in Nat /\ Len(T2[m].items) \in Nat
          /\ (m # at + 1 => Len(T2[m].items) = Len(modules[m].items))
      BY <1>5
    <3> QED BY <3>1, <3>2
  <2> QED BY <1>5, <2>1, <2>2, <2>3
<1> QED BY <1>1, <1>2, <1>3, <1>4, <1>5, <1>6

LEMMA SelfModuleStep ==
  ASSUME IInv, SelfModule, TypeOK'
  PROVE  IInv'
<1> DEFINE new == DeclItems(Met)
<1>1. /\ TypeOK /\ Walking /\ Declare(new) /\ new \in Seq(Items)
      /\ \A i \in 1..Len(new) : ~new[i].is_submodule /\ new[i].decl \in Decls
  <2>1. TypeOK /\ Walking /\ Declare(new) /\ Met \in Nodes
    BY MetTyped DEF IInv, SelfModule
  <2>2. new \in Seq(Items) /\ \A i \in DOMAIN new : ~new[i].is_submodule /\ new[i].decl \in Decls
    BY <2>1, DeclItemsTyped
  <2> HIDE DEF new
  <2>3. DOMAIN new = 1..Len(new)
    BY <2>2
  <2> QED BY <2>1, <2>2, <2>3
<1>2. UNCHANGED <<worklist, globals>> /\ phase' # "fault"
  BY DEF SelfModule, Keep, Walking
<1> HIDE DEF new
<1> DEFINE Old(m, i) == /\ m \in DOMAIN modules /\ i \in DOMAIN modules[m].items
                        /\ modules'[m].items[i] = modules[m].items[i]
<1>3. /\ DOMAIN modules' = DOMAIN modules /\ Count' = Count
      /\ DOMAIN modules = 1..Len(modules) /\ Len(modules) \in Nat
      /\ \A m \in DOMAIN modules :
           /\ modules'[m].name = modules[m].name /\ modules'[m].parent = modules[m].parent
           /\ \A i \in DOMAIN modules[m].items :
                i \in DOMAIN modules'[m].items /\ modules'[m].items[i] = modules[m].items[i]
  BY <1>1, DeclaredItems
\* An item of the next table is one of this one, or a declaration.
<1>4. ASSUME NEW m \in DOMAIN modules', NEW i \in DOMAIN modules'[m].items
      PROVE  \/ Old(m, i)
             \/ ~modules'[m].items[i].is_submodule /\ modules'[m].items[i].decl \in Decls
  <2>1. CASE m # at + 1
    BY <1>1, <1>3, <2>1, DeclaredItems
  <2>2. CASE m = at + 1
    <3>1. /\ i \in 1..(Len(modules[m].items) + Len(new)) /\ Len(modules[m].items) \in Nat
          /\ DOMAIN modules[m].items = 1..Len(modules[m].items)
          /\ \A j \in 1..Len(new) : modules'[m].items[Len(modules[m].items) + j] = new[j]
      BY <1>1, <2>2, DeclaredItems
    <3>2. CASE i \in 1..Len(modules[m].items)
      BY <1>3, <3>1, <3>2
    <3>3. CASE i \notin 1..Len(modules[m].items)
      <4> DEFINE j == i - Len(modules[m].items)
      <4>1. j \in 1..Len(new) /\ i = Len(modules[m].items) + j
        <5>1. Len(new) \in Nat
          BY <1>1
        <5> DEFINE len == Len(modules[m].items)
        <5>2. i \in 1..(len + Len(new)) /\ len \in Nat /\ i \notin 1..len
          BY <3>1, <3>3
        <5> HIDE DEF len
        <5>3. i - len \in 1..Len(new) /\ i = len + (i - len)
          BY <5>1, <5>2
        <5> QED BY <5>3 DEF len
      <4> HIDE DEF j
      <4>2. modules'[m].items[i] = new[j]
        BY <3>1, <4>1
      <4> QED BY <1>1, <4>1, <4>2
    <3> QED BY <3>2, <3>3
  <2> QED BY <2>1, <2>2
<1>5. NamedOnce'
  BY <1>3, <1>4 DEF IInv, NamedOnce
<1>6. ASSUME Distinct', Count' <= NoModule
      PROVE  Table'
  <2>1. Distinct
    BY <1>3, <1>6 DEF Distinct
  <2>2. Table
    BY <1>3, <1>6, <2>1 DEF IInv
  <2>3. WorkHasItem'
    <3>1. \A w \in DOMAIN worklist : worklist[w].parent + 1 \in DOMAIN modules
      BY <1>1, WorklistTyped
    <3> SUFFICES ASSUME NEW w \in DOMAIN worklist
                 PROVE  \E i \in DOMAIN modules'[worklist[w].parent + 1].items :
                          /\ modules'[worklist[w].parent + 1].items[i].is_submodule
                          /\ modules'[worklist[w].parent + 1].items[i].name = worklist[w].node.name
                          /\ modules'[worklist[w].parent + 1].items[i].index = 0
      BY <1>2 DEF WorkHasItem
    <3> DEFINE p == worklist[w].parent + 1
    <3>2. p \in DOMAIN modules
      BY <3>1
    <3>3. PICK i \in DOMAIN modules[p].items :
            /\ modules[p].items[i].is_submodule
            /\ modules[p].items[i].name = worklist[w].node.name
            /\ modules[p].items[i].index = 0
      BY <2>2 DEF Table, WorkHasItem
    <3> HIDE DEF p
    <3>4. i \in DOMAIN modules'[p].items /\ modules'[p].items[i] = modules[p].items[i]
      BY <1>3, <3>2
    <3> QED BY <3>3, <3>4 DEF p
  <2>4. WorkOnce'
    BY <1>2, <2>2 DEF Table, WorkOnce
  <2>5. ItemsLead'
    <3>1. \A m \in DOMAIN modules, item \in Items : Leads(m - 1, item) => Leads(m - 1, item)'
      <4> SUFFICES ASSUME NEW m \in DOMAIN modules, NEW item \in Items, Leads(m - 1, item)
                   PROVE  Leads(m - 1, item)'
        OBVIOUS
      <4>1. CASE item.index # 0 /\ item.index < Count
        <5>1. item.index + 1 \in DOMAIN modules
          BY <1>3, <4>1 DEF Items, Count
        <5> QED BY <1>2, <1>3, <4>1, <5>1 DEF Leads, get_module
      <4>2. CASE ~(item.index # 0 /\ item.index < Count)
        BY <1>2, <4>2 DEF Leads, Awaited
      <4> QED BY <4>1, <4>2
    <3>2. \A m \in DOMAIN modules : \A i \in DOMAIN modules[m].items : modules[m].items[i] \in Items
      BY <1>1, ItemsTyped DEF TypeOK
    <3> QED BY <1>3, <1>4, <2>2, <3>1, <3>2 DEF Table, ItemsLead
  <2>6. DeclsWhole'
    BY <1>3, <1>4, <2>2, Clobber DEF Table, DeclsWhole
  <2> QED BY <2>3, <2>4, <2>5, <2>6 DEF Table
<1> QED BY <1>2, <1>5, <1>6 DEF IInv

LEMMA SubmoduleStep ==
  ASSUME IInv, Submodule, TypeOK'
  PROVE  IInv'
<1> DEFINE sub == SubmoduleItem(Met, IsPublic(Head(todo)))
           work == Work(Head(todo))
           a == at + 1
           len == Len(modules[a].items)
<1>1. /\ TypeOK /\ Walking /\ Met \in Nodes /\ at \in Nat
      /\ Declare(<<sub>>) /\ sub \in Items /\ <<sub>> \in Seq(Items)
      /\ sub.is_submodule /\ sub.name = Met.name /\ sub.index = 0 /\ sub.path = Met.path
  <2>1. TypeOK /\ Walking /\ Met \in Nodes /\ Declare(<<sub>>) /\ at \in Nat
    BY MetTyped DEF IInv, Submodule, TypeOK
  <2>2. sub \in Items /\ sub.is_submodule /\ sub.name = Met.name /\ sub.index = 0 /\ sub.path = Met.path
    <3>1. IsPublic(Head(todo)) \in BOOLEAN
      BY <2>1, MetTyped DEF IsPublic
    <3> QED BY <2>1, <3>1, SubmoduleItemTyped
  <2> HIDE DEF sub
  <2> QED BY <2>1, <2>2
<1>2. /\ worklist' = worklist \o work /\ work \in Seq(WorkEntries) /\ Len(work) \in {0, 1}
      /\ \A i \in DOMAIN work : i = 1 /\ work[i].parent = at /\ work[i].node.name = Met.name
      /\ Met.path = <<>> => Len(work) = 1
  <2>1. /\ Head(todo) \in Entries /\ Head(todo).node = Met
        /\ Head(todo).node.kind \in {"body", "alias", "file"}
    <3>1. todo \in Seq(Entries) /\ todo # <<>>
      BY <1>1 DEF TypeOK, Walking, Entries
    <3>2. Head(todo) \in Entries
      BY <3>1
    <3> QED BY <3>2 DEF Submodule, Met
  <2>2. /\ work \in Seq(WorkEntries) /\ Len(work) <= 1
        /\ \A i \in DOMAIN work : i = 1 /\ work[i].parent = at /\ work[i].node = Met
    BY <1>1, <2>1, WorkTyped
  <2>3. Met.path = <<>> => work # <<>>
    BY <1>1, <2>1, ReducedTyped DEF Work
  <2>4. worklist' = worklist \o work
    BY DEF Submodule
  <2> HIDE DEF work
  <2>5. Len(work) \in {0, 1} /\ (work # <<>> => Len(work) = 1)
    <3>1. Len(work) \in Nat /\ Len(work) <= 1
      BY <2>2
    <3>2. work # <<>> => Len(work) # 0
      BY <2>2, EmptySeq
    <3> DEFINE k == Len(work)
    <3> HIDE DEF k
    <3>3. k \in Nat /\ k <= 1 => k \in {0, 1} /\ (k # 0 => k = 1)
      OBVIOUS
    <3> QED BY <3>1, <3>2, <3>3 DEF k
  <2> QED BY <2>2, <2>3, <2>4, <2>5
<1>3. /\ a \in DOMAIN modules
      /\ \A i \in DOMAIN modules[a].items :
            ~(modules[a].items[i].is_submodule /\ modules[a].items[i].name = Met.name)
  BY <1>1, DeclaredItems DEF Submodule, Redeclared, check_module_exists, get_module
<1>4. phase' # "fault" /\ UNCHANGED globals
  BY DEF Submodule, Keep, Walking
<1> HIDE DEF sub, work
<1>5. /\ DOMAIN modules' = DOMAIN modules /\ Count' = Count
      /\ DOMAIN modules = 1..Len(modules) /\ Len(modules) \in Nat
      /\ DOMAIN modules[a].items = 1..len /\ len \in Nat
      /\ DOMAIN modules'[a].items = 1..(len + 1)
      /\ modules'[a].items[len + 1] = sub
      /\ \A m \in DOMAIN modules :
           /\ modules'[m].name = modules[m].name /\ modules'[m].parent = modules[m].parent
           /\ m # a => modules'[m].items = modules[m].items
           /\ \A i \in DOMAIN modules[m].items :
                i \in DOMAIN modules'[m].items /\ modules'[m].items[i] = modules[m].items[i]
  <2> DEFINE new == <<sub>>
  <2>1. Len(new) = 1 /\ new[1] = sub
    OBVIOUS
  <2>2. TypeOK /\ Walking /\ new \in Seq(Items) /\ Declare(new)
    BY <1>1
  <2> HIDE DEF new
  <2>3. \A i \in 1..Len(new) : modules'[a].items[len + i] = new[i]
    BY <2>2, DeclaredItems
  <2>4. DOMAIN modules'[a].items = 1..(len + Len(new))
    BY <2>2, DeclaredItems
  <2>5. modules'[a].items[len + 1] = sub
    BY <2>1, <2>3
  <2> QED BY <2>1, <2>2, <2>4, <2>5, DeclaredItems
\* An item of the next table is one of this one, or the one that was added.
<1>6. ASSUME NEW m \in DOMAIN modules', NEW i \in DOMAIN modules'[m].items
      PROVE  \/ m \in DOMAIN modules /\ i \in DOMAIN modules[m].items
                /\ modules'[m].items[i] = modules[m].items[i]
             \/ m = a /\ i = len + 1 /\ modules'[m].items[i] = sub
  <2>1. CASE m # a
    BY <1>5, <2>1
  <2>2. CASE m = a
    <3>1. i \in DOMAIN modules[a].items \/ i = len + 1
      BY <1>5, <2>2
    <3> QED BY <1>5, <2>2, <3>1
  <2> QED BY <2>1, <2>2
<1>7. NamedOnce'
  <2> SUFFICES ASSUME NEW m \in DOMAIN modules', NEW i \in DOMAIN modules'[m].items,
                      NEW j \in DOMAIN modules'[m].items,
                      modules'[m].items[i].is_submodule, modules'[m].items[j].is_submodule,
                      modules'[m].items[i].name = modules'[m].items[j].name
               PROVE  i = j
    BY DEF NamedOnce
  <2>1. CASE m = a /\ (i = len + 1 \/ j = len + 1)
    <3>1. CASE i = len + 1 /\ j # len + 1
      <4>1. j \in DOMAIN modules[a].items /\ modules'[a].items[j] = modules[a].items[j]
        BY <1>6, <2>1, <3>1
      <4>2. modules'[a].items[i] = sub
        BY <1>5, <3>1
      <4> QED BY <1>1, <1>3, <2>1, <4>1, <4>2
    <3>2. CASE j = len + 1 /\ i # len + 1
      <4>1. i \in DOMAIN modules[a].items /\ modules'[a].items[i] = modules[a].items[i]
        BY <1>6, <2>1, <3>2
      <4>2. modules'[a].items[j] = sub
        BY <1>5, <3>2
      <4> QED BY <1>1, <1>3, <2>1, <4>1, <4>2
    <3> QED BY <2>1, <3>1, <3>2
  <2>2. CASE ~(m = a /\ (i = len + 1 \/ j = len + 1))
    BY <1>6, <2>2 DEF IInv, NamedOnce
  <2> QED BY <2>1, <2>2
<1>8. ASSUME Distinct', Count' <= NoModule
      PROVE  Table'
  <2>1. Distinct
    BY <1>5, <1>8 DEF Distinct
  <2>2. Table
    BY <1>5, <1>8, <2>1 DEF IInv
  <2>3. /\ DOMAIN worklist = 1..Len(worklist) /\ Len(worklist) \in Nat
        /\ DOMAIN worklist' = 1..(Len(worklist) + Len(work))
        /\ \A w \in DOMAIN worklist : w \in DOMAIN worklist' /\ worklist'[w] = worklist[w]
        /\ \A w \in DOMAIN worklist' :
             \/ w \in DOMAIN worklist
             \/ w = Len(worklist) + 1 /\ worklist'[w].parent = at /\ worklist'[w].node.name = Met.name
        /\ Met.path = <<>> => Len(worklist) + 1 \in DOMAIN worklist'
    <3>1. worklist \in Seq(WorkEntries) /\ DOMAIN worklist = 1..Len(worklist) /\ Len(worklist) \in Nat
      BY <1>1, WorklistTyped
    <3>2. DOMAIN worklist' = 1..(Len(worklist) + Len(work))
          /\ \A w \in 1..(Len(worklist) + Len(work)) :
               worklist'[w] = IF w <= Len(worklist) THEN worklist[w] ELSE work[w - Len(worklist)]
      BY <1>2, <3>1, ConcatProperties
    <3>3. DOMAIN work = 1..Len(work)
      BY <1>2
    <3>4. ASSUME NEW w \in DOMAIN worklist', w \notin DOMAIN worklist
          PROVE  w = Len(worklist) + 1 /\ worklist'[w].parent = at /\ worklist'[w].node.name = Met.name
      <4>1. Len(work) = 1 /\ w = Len(worklist) + 1
        BY <1>2, <3>1, <3>2, <3>4
      <4>2. worklist'[w] = work[1] /\ 1 \in DOMAIN work
        BY <3>1, <3>2, <3>3, <4>1
      <4> QED BY <1>2, <4>1, <4>2
    <3>5. \A w \in DOMAIN worklist : w \in DOMAIN worklist' /\ worklist'[w] = worklist[w]
      BY <1>2, <3>1, <3>2
    <3>6. ASSUME Met.path = <<>> PROVE Len(worklist) + 1 \in DOMAIN worklist'
      <4>1. Len(work) = 1
        BY <1>2, <3>6
      <4> QED BY <3>1, <3>2, <4>1
    <3> QED BY <3>1, <3>2, <3>4, <3>5, <3>6
  <2>4. WorkHasItem'
    <3> SUFFICES ASSUME NEW w \in DOMAIN worklist'
                 PROVE  \E i \in DOMAIN modules'[worklist'[w].parent + 1].items :
                          /\ modules'[worklist'[w].parent + 1].items[i].is_submodule
                          /\ modules'[worklist'[w].parent + 1].items[i].name = worklist'[w].node.name
                          /\ modules'[worklist'[w].parent + 1].items[i].index = 0
      BY DEF WorkHasItem
    <3>1. CASE w \in DOMAIN worklist
      <4> DEFINE p == worklist[w].parent + 1
      <4>1. p \in DOMAIN modules /\ worklist'[w] = worklist[w]
        BY <1>1, <2>3, <3>1, WorklistTyped
      <4>2. PICK i \in DOMAIN modules[p].items :
              /\ modules[p].items[i].is_submodule
              /\ modules[p].items[i].name = worklist[w].node.name
              /\ modules[p].items[i].index = 0
        BY <2>2, <3>1 DEF Table, WorkHasItem
      <4> HIDE DEF p
      <4>3. i \in DOMAIN modules'[p].items /\ modules'[p].items[i] = modules[p].items[i]
        BY <1>5, <4>1
      <4> QED BY <4>1, <4>2, <4>3 DEF p
    <3>2. CASE w \notin DOMAIN worklist
      <4>1. worklist'[w].parent + 1 = a /\ worklist'[w].node.name = Met.name
            /\ len + 1 \in DOMAIN modules'[a].items
        BY <1>5, <2>3, <3>2
      <4>2. modules'[a].items[len + 1] = sub /\ sub.is_submodule /\ sub.name = Met.name /\ sub.index = 0
        BY <1>1, <1>5
      <4> HIDE DEF a, len
      <4> QED BY <4>1, <4>2
    <3> QED BY <3>1, <3>2
  <2>5. WorkOnce'
    <3>1. ASSUME NEW w \in DOMAIN worklist, worklist[w].parent = at, worklist[w].node.name = Met.name
          PROVE  FALSE
      BY <1>3, <2>2, <3>1 DEF Table, WorkHasItem
    <3> QED BY <2>2, <2>3, <3>1 DEF Table, WorkOnce
  <2>6. ItemsLead'
    <3> SUFFICES ASSUME NEW m \in DOMAIN modules', NEW i \in DOMAIN modules'[m].items,
                        modules'[m].items[i].is_submodule, modules'[m].items[i].path = <<>>
                 PROVE  Leads(m - 1, modules[m].items[i])'
      BY DEF ItemsLead
    <3>3. ASSUME NEW k \in DOMAIN modules, NEW item \in Items, Leads(k - 1, item)
          PROVE  Leads(k - 1, item)'
      <4>1. CASE item.index # 0 /\ item.index < Count
        <5>1. item.index + 1 \in DOMAIN modules
          BY <1>5, <4>1 DEF Items, Count
        <5> QED BY <1>5, <3>3, <4>1, <5>1 DEF Leads, get_module
      <4>2. CASE ~(item.index # 0 /\ item.index < Count)
        <5>1. item.index = 0 /\ \E w \in DOMAIN worklist : Awaited(w, k - 1, item)
          BY <3>3, <4>2 DEF Leads
        <5>2. \E w \in DOMAIN worklist' : Awaited(w, k - 1, item)'
          BY <2>3, <5>1 DEF Awaited
        <5> QED BY <5>1, <5>2 DEF Leads
      <4> QED BY <4>1, <4>2
    <3>1. CASE m = a /\ i = len + 1 /\ modules'[m].items[i] = sub
      <4> DEFINE w == Len(worklist) + 1
      <4>1. w \in DOMAIN worklist' /\ worklist'[w].parent = at /\ worklist'[w].node.name = Met.name
            /\ sub.name = Met.name /\ sub.index = 0
        BY <1>1, <2>3, <3>1
      <4>2. m - 1 = at
        BY <1>1, <3>1
      <4> HIDE DEF w, a, len
      <4> QED BY <3>1, <4>1, <4>2 DEF Leads, Awaited
    <3>2. CASE /\ m \in DOMAIN modules /\ i \in DOMAIN modules[m].items
               /\ modules'[m].items[i] = modules[m].items[i]
      <4>1. modules[m].items[i] \in Items /\ Leads(m - 1, modules[m].items[i])
        BY <1>1, <2>2, <3>2, ItemsTyped DEF TypeOK, Table, ItemsLead
      <4> QED BY <3>2, <3>3, <4>1
    <3> QED BY <1>6, <3>1, <3>2
  <2>7. DeclsWhole'
    BY <1>1, <1>5, <1>6, <2>2 DEF Table, DeclsWhole
  <2> QED BY <2>4, <2>5, <2>6, <2>7 DEF Table
<1> QED BY <1>4, <1>7, <1>8 DEF IInv

-----------------------------------------------------------------------------
\* A module was added behind the others, and the item with its name was linked.
LEMMA CreatedItems ==
  ASSUME TypeOK, NEW p \in Nat, p = NoModule \/ p < Len(modules), NEW n \in Names,
         NEW f \in Nat, NEW is_file \in BOOLEAN, NEW is_type \in BOOLEAN, NEW items \in Seq(Items),
         modules' = Append(link(modules, p, n, Count), create_module(n, p, f, is_file, is_type, items))
  PROVE  /\ DOMAIN modules = 1..Len(modules) /\ Len(modules) \in Nat
         /\ DOMAIN modules' = 1..(Len(modules) + 1) /\ Count' = Len(modules) + 1
         /\ modules'[Len(modules) + 1].items = items
         /\ modules'[Len(modules) + 1].name = n /\ modules'[Len(modules) + 1].parent = p
         /\ modules'[Len(modules) + 1].file = f /\ modules'[Len(modules) + 1].is_file = is_file
         /\ Linked(modules', modules, p, n, Len(modules))
<1> DEFINE c == create_module(n, p, f, is_file, is_type, items)
           L == link(modules, p, n, Len(modules))
<1>1. /\ c \in ModuleRecords /\ c.parent = p /\ c.name = n /\ c.items = items
      /\ c.file = f /\ c.is_file = is_file
  BY DEF create_module, ModuleRecords
<1> HIDE DEF c
<1>2. modules \in Seq(ModuleRecords) /\ Count = Len(modules) /\ modules' = Append(L, c)
      /\ DOMAIN modules = 1..Len(modules) /\ Len(modules) \in Nat
  BY DEF TypeOK, Count, c
<1>3. /\ modules' \in Seq(ModuleRecords) /\ Len(modules') = Len(modules) + 1
      /\ modules'[Len(modules) + 1] = c
      /\ \A m \in 1..Len(modules) : modules'[m] = L[m]
  BY <1>1, <1>2, Create
<1>4. Linked(L, modules, p, n, Len(modules))
  BY <1>2, Link
<1> HIDE DEF L
<1>5. DOMAIN modules' = 1..(Len(modules) + 1) /\ Count' = Len(modules) + 1
  BY <1>2, <1>3 DEF Count
<1>6. Linked(modules', modules, p, n, Len(modules))
  BY <1>3, <1>4 DEF Linked
<1> QED BY <1>1, <1>2, <1>3, <1>5, <1>6

\* What is left of NamedOnce and Distinct: names and kinds of items stay.
LEMMA CreatedNames ==
  ASSUME IInv, NEW k \in Nat, k = Len(modules), DOMAIN modules = 1..k, DOMAIN modules' = 1..(k + 1),
         \A m \in DOMAIN modules : SameItems(modules'[m], modules[m]),
         \A i \in DOMAIN modules'[k + 1].items : ~modules'[k + 1].items[i].is_submodule
  PROVE  NamedOnce' /\ (Distinct' => Distinct)
<1>1. NamedOnce'
  <2> SUFFICES ASSUME NEW m \in DOMAIN modules', NEW i \in DOMAIN modules'[m].items,
                      NEW j \in DOMAIN modules'[m].items,
                      modules'[m].items[i].is_submodule, modules'[m].items[j].is_submodule,
                      modules'[m].items[i].name = modules'[m].items[j].name
               PROVE  i = j
    BY DEF NamedOnce
  <2>1. m \in DOMAIN modules
    OBVIOUS
  <2> QED BY <2>1 DEF IInv, NamedOnce, SameItems
<1>2. ASSUME Distinct' PROVE Distinct
  <2>1. \A m \in DOMAIN modules : m \in DOMAIN modules'
    OBVIOUS
  <2> QED BY <1>2, <2>1 DEF Distinct, SameItems
<1> QED BY <1>1, <1>2

\* A root: no item is linked, and no work is done.
LEMMA RootStep ==
  ASSUME IInv, TypeOK', phase' # "fault", UNCHANGED <<worklist, globals>>, NEW n \in Names, NEW f \in Nat,
         modules' = Append(link(modules, NoModule, n, Count),
                           create_module(n, NoModule, f, TRUE, FALSE, <<>>))
  PROVE  IInv'
<1>1. NoModule \in Nat /\ << >> \in Seq(Items) /\ DOMAIN << >> = {}
  BY DEF NoModule
<1>2. /\ DOMAIN modules = 1..Len(modules) /\ Len(modules) \in Nat
      /\ DOMAIN modules' = 1..(Len(modules) + 1) /\ Count' = Len(modules) + 1
      /\ DOMAIN modules'[Len(modules) + 1].items = {}
      /\ \A m \in DOMAIN modules :
           /\ modules'[m].name = modules[m].name /\ modules'[m].parent = modules[m].parent
           /\ SameItems(modules'[m], modules[m])
           /\ \A i \in DOMAIN modules[m].items : modules'[m].items[i] = modules[m].items[i]
  <2>1. /\ DOMAIN modules = 1..Len(modules) /\ Len(modules) \in Nat
        /\ DOMAIN modules' = 1..(Len(modules) + 1) /\ Count' = Len(modules) + 1
        /\ modules'[Len(modules) + 1].items = <<>>
    BY <1>1, CreatedItems DEF IInv
  <2>4. Linked(modules', modules, NoModule, n, Len(modules))
    BY <1>1, CreatedItems DEF IInv
  <2>2. \A m \in DOMAIN modules :
           /\ modules'[m].name = modules[m].name /\ modules'[m].parent = modules[m].parent
           /\ SameItems(modules'[m], modules[m])
           /\ \A i \in DOMAIN modules[m].items :
                modules'[m].items[i] = IF Finds(modules, NoModule, n, m, i)
                                       THEN set_index(modules[m].items[i], Len(modules))
                                       ELSE modules[m].items[i]
    BY <2>1, <2>4 DEF Linked
  <2>3. \A m, i : ~Finds(modules, NoModule, n, m, i)
    BY DEF Finds
  <2> QED BY <1>1, <2>1, <2>2, <2>3
<1>5. ASSUME NEW m \in DOMAIN modules', NEW i \in DOMAIN modules'[m].items
      PROVE  /\ m \in DOMAIN modules /\ i \in DOMAIN modules[m].items
             /\ modules'[m].items[i] = modules[m].items[i]
  <2>1. m # Len(modules) + 1
    BY <1>2
  <2>2. m \in DOMAIN modules
    BY <1>2, <2>1
  <2> QED BY <1>2, <2>2 DEF SameItems
<1>3. NamedOnce' /\ (Distinct' => Distinct)
  BY <1>2, CreatedNames
<1>4. ASSUME Distinct', Count' <= NoModule
      PROVE  Table'
  <2>1. Table
    BY <1>1, <1>2, <1>3, <1>4 DEF IInv, Count
  <2>2. WorkHasItem'
    <3> SUFFICES ASSUME NEW w \in DOMAIN worklist
                 PROVE  \E i \in DOMAIN modules'[worklist[w].parent + 1].items :
                          /\ modules'[worklist[w].parent + 1].items[i].is_submodule
                          /\ modules'[worklist[w].parent + 1].items[i].name = worklist[w].node.name
                          /\ modules'[worklist[w].parent + 1].items[i].index = 0
      BY DEF WorkHasItem
    <3>1. worklist[w].parent + 1 \in DOMAIN modules
      BY WorklistTyped DEF IInv
    <3> DEFINE p == worklist[w].parent + 1
    <3>2. PICK i \in DOMAIN modules[p].items :
            /\ modules[p].items[i].is_submodule
            /\ modules[p].items[i].name = worklist[w].node.name
            /\ modules[p].items[i].index = 0
      BY <2>1 DEF Table, WorkHasItem
    <3>3. i \in DOMAIN modules'[p].items /\ modules'[p].items[i] = modules[p].items[i]
      BY <1>2, <3>1 DEF SameItems
    <3> QED BY <3>2, <3>3
  <2>3. WorkOnce'
    BY <2>1 DEF Table, WorkOnce
  <2>4. ItemsLead'
    <3>1. ASSUME NEW m \in DOMAIN modules, NEW item \in Items, Leads(m - 1, item)
          PROVE  Leads(m - 1, item)'
      <4>1. CASE item.index # 0 /\ item.index < Count
        <5>1. item.index + 1 \in DOMAIN modules /\ item.index < Count'
          BY <1>2, <4>1 DEF Items, Count
        <5> QED BY <1>2, <3>1, <4>1, <5>1 DEF Leads, get_module
      <4>2. CASE ~(item.index # 0 /\ item.index < Count)
        BY <3>1, <4>2 DEF Leads, Awaited
      <4> QED BY <4>1, <4>2
    <3>2. \A m \in DOMAIN modules : \A i \in DOMAIN modules[m].items : modules[m].items[i] \in Items
      BY ItemsTyped DEF IInv, TypeOK
    <3> SUFFICES ASSUME NEW m \in DOMAIN modules', NEW i \in DOMAIN modules'[m].items,
                        modules'[m].items[i].is_submodule, modules'[m].items[i].path = <<>>
                 PROVE  Leads(m - 1, modules[m].items[i])'
      BY DEF ItemsLead
    <3> QED BY <2>1, <3>1, <3>2, <1>5 DEF Table, ItemsLead
  <2>5. DeclsWhole'
    BY <1>5, <2>1 DEF Table, DeclsWhole
  <2> QED BY <2>2, <2>3, <2>4, <2>5 DEF Table
<1> QED BY <1>3, <1>4 DEF IInv


LEMMA OnlyOne ==
  ASSUME NEW S \in SUBSET Nat, NEW k \in Nat, S = {k}
  PROVE  Min(S) = k
BY DEF Min

\* Work is done: the module is created, and the item that waited for it is linked.
LEMMA WorkStep ==
  ASSUME IInv, TypeOK', phase' # "fault", UNCHANGED globals, NEW kind, Working(kind), Pop,
         NEW f \in Nat, NEW is_file \in BOOLEAN, NEW is_type \in BOOLEAN, NEW items \in Seq(Items),
         \A i \in DOMAIN items : ~items[i].is_submodule /\ items[i].decl \in Decls,
         modules' = Append(link(modules, Popped.parent, Popped.node.name, Count),
                           create_module(Popped.node.name, Popped.parent, f, is_file, is_type, items))
  PROVE  IInv'
<1> DEFINE p == Popped.parent
           n == Popped.node.name
           k == Len(modules)
           last == Len(worklist)
<1>1. /\ p \in Nat /\ p < k /\ k \in Nat /\ n \in Names /\ last \in Nat /\ DOMAIN worklist = 1..last
      /\ last \in DOMAIN worklist /\ worklist[last] = Popped
      /\ DOMAIN worklist' = 1..(last - 1)
      /\ \A w \in 1..(last - 1) : worklist'[w] = worklist[w]
  <2>1. /\ Popped \in WorkEntries /\ p < k /\ last \in DOMAIN worklist
        /\ DOMAIN worklist = 1..last /\ last \in Nat
        /\ worklist' \in Seq(WorkEntries) /\ Len(worklist') = last - 1
        /\ \A w \in 1..(last - 1) : worklist'[w] = worklist[w]
    BY PoppedTyped DEF IInv, Pop
  <2>2. p \in Nat /\ Popped.node \in Nodes
    BY <2>1 DEF WorkEntries
  <2>3. k \in Nat
    BY DEF IInv, TypeOK
  <2> QED BY <2>1, <2>2, <2>3, ReducedTyped DEF Popped
<1>2. /\ DOMAIN modules = 1..k /\ DOMAIN modules' = 1..(k + 1) /\ Count' = k + 1 /\ Count = k
      /\ modules'[k + 1].items = items
      /\ modules'[k + 1].name = n /\ modules'[k + 1].parent = p
      /\ Linked(modules', modules, p, n, k)
  <2>1. TypeOK /\ Count = k
    BY DEF IInv, Count
  <2>2. modules' = Append(link(modules, p, n, Count), create_module(n, p, f, is_file, is_type, items))
    OBVIOUS
  <2> HIDE DEF p, n
  <2> QED BY <1>1, <2>1, <2>2, CreatedItems
<1>3. \A m \in DOMAIN modules :
        /\ modules'[m].name = modules[m].name /\ modules'[m].parent = modules[m].parent
        /\ SameItems(modules'[m], modules[m])
        /\ \A i \in DOMAIN modules[m].items :
             modules'[m].items[i] = IF Finds(modules, p, n, m, i)
                                    THEN set_index(modules[m].items[i], k) ELSE modules[m].items[i]
  BY <1>2 DEF Linked
<1> HIDE DEF p, n, k, last
<1>4. NamedOnce' /\ (Distinct' => Distinct)
  BY <1>1, <1>2, <1>3, CreatedNames DEF k
<1>5. ASSUME NEW m \in DOMAIN modules', NEW i \in DOMAIN modules'[m].items
      PROVE  \/ m \in DOMAIN modules /\ i \in DOMAIN modules[m].items
             \/ ~modules'[m].items[i].is_submodule /\ modules'[m].items[i].decl \in Decls
  <2>1. CASE m = k + 1
    BY <1>2, <2>1
  <2>2. CASE m # k + 1
    <3>1. m \in 1..(k + 1) /\ k \in Nat /\ DOMAIN modules = 1..k
      BY <1>1, <1>2
    <3>2. m \in DOMAIN modules
      BY <2>2, <3>1
    <3> QED BY <1>3, <3>2 DEF SameItems
  <2> QED BY <2>1, <2>2
<1>6. ASSUME Distinct', Count' <= NoModule
      PROVE  Table'
  <2>1. Table /\ Distinct
    BY <1>1, <1>2, <1>4, <1>6 DEF IInv, NoModule
  \* The item that waits is the first with the name.
  <2>2. PICK i0 \in DOMAIN modules[p + 1].items :
          /\ modules[p + 1].items[i0].is_submodule
          /\ modules[p + 1].items[i0].name = n
          /\ modules[p + 1].items[i0].index = 0
    BY <1>1, <2>1 DEF Table, WorkHasItem, n, p
  <2>3. p + 1 \in DOMAIN modules /\ p # NoModule
    BY <1>1, <1>2, <1>6 DEF NoModule
  <2>4. \A i \in DOMAIN modules[p + 1].items : modules[p + 1].items[i].name = n => i = i0
    BY <2>1, <2>2, <2>3 DEF IInv, NamedOnce, Distinct
  <2>5. First(modules[p + 1].items, n) = i0
    <3> DEFINE S == { i \in DOMAIN modules[p + 1].items : modules[p + 1].items[i].name = n }
    <3>1. DOMAIN modules[p + 1].items = 1..Len(modules[p + 1].items)
          /\ Len(modules[p + 1].items) \in Nat
      BY <2>3, ItemsTyped DEF IInv, TypeOK
    <3>2. S = {i0} /\ i0 \in Nat /\ S \in SUBSET Nat
      BY <2>2, <2>4, <3>1
    <3>3. Min(S) = i0
      BY <3>2, OnlyOne
    <3> QED BY <3>3 DEF First
  <2>6. \A m \in DOMAIN modules : \A i \in DOMAIN modules[m].items :
          Finds(modules, p, n, m, i) <=> m = p + 1 /\ i = i0
    BY <2>2, <2>3, <2>5 DEF Finds
  <2>7. /\ modules'[p + 1].items[i0].is_submodule
        /\ modules'[p + 1].items[i0].index = k
        /\ modules'[p + 1].items[i0].name = n
    <3>1. modules'[p + 1].items[i0] = set_index(modules[p + 1].items[i0], k)
      BY <1>3, <2>2, <2>3, <2>6
    <3>2. modules[p + 1].items[i0] \in Items
      BY <2>2, <2>3, ItemsTyped DEF IInv, TypeOK
    <3>3. PICK item \in Items : item = modules[p + 1].items[i0]
      BY <3>2
    <3>4. /\ set_index(item, k).is_submodule /\ set_index(item, k).index = k
          /\ set_index(item, k).name = n
      BY <1>1, <2>2, <3>3, SetIndex
    <3> QED BY <3>1, <3>3, <3>4
  <2>8. \A m \in DOMAIN modules : \A i \in DOMAIN modules[m].items :
          ~(m = p + 1 /\ i = i0) => modules'[m].items[i] = modules[m].items[i]
    BY <1>3, <2>6
  <2>9. \A w \in 1..(last - 1) : w \in DOMAIN worklist
    BY <1>1
  <2>10. \A w \in 1..(last - 1) : ~(worklist[w].parent = p /\ worklist[w].node.name = n)
    <3> SUFFICES ASSUME NEW w \in 1..(last - 1), worklist[w].parent = p, worklist[w].node.name = n
                 PROVE  FALSE
      OBVIOUS
    <3>1. w \in DOMAIN worklist /\ w # last
      BY <1>1
    <3>2. w = last
      BY <1>1, <2>1, <3>1 DEF Table, WorkOnce, p, n
    <3> QED BY <3>1, <3>2
  <2>11. WorkHasItem'
    <3> SUFFICES ASSUME NEW w \in DOMAIN worklist'
                 PROVE  \E i \in DOMAIN modules'[worklist'[w].parent + 1].items :
                          /\ modules'[worklist'[w].parent + 1].items[i].is_submodule
                          /\ modules'[worklist'[w].parent + 1].items[i].name = worklist'[w].node.name
                          /\ modules'[worklist'[w].parent + 1].items[i].index = 0
      BY DEF WorkHasItem
    <3> DEFINE q == worklist[w].parent + 1
    <3>5. w \in 1..(last - 1) /\ worklist'[w] = worklist[w]
      BY <1>1
    <3>1. q \in DOMAIN modules
      BY <2>9, <3>5, WorklistTyped DEF IInv
    <3>2. PICK i \in DOMAIN modules[q].items :
            /\ modules[q].items[i].is_submodule
            /\ modules[q].items[i].name = worklist[w].node.name
            /\ modules[q].items[i].index = 0
      BY <2>1, <2>9, <3>5 DEF Table, WorkHasItem
    <3>3. ~(q = p + 1 /\ i = i0)
      <4>1. worklist[w].parent \in Nat
        BY <2>9, <3>5, WorklistTyped DEF IInv
      <4>2. q = p + 1 => worklist[w].parent = p
        BY <1>1, <4>1
      <4> QED BY <2>2, <2>10, <3>5, <3>2, <4>2
    <3>4. i \in DOMAIN modules'[q].items /\ modules'[q].items[i] = modules[q].items[i]
      BY <1>3, <2>8, <3>1, <3>3 DEF SameItems
    <3> QED BY <3>5, <3>2, <3>4
  <2>12. WorkOnce'
    BY <1>1, <2>1, <2>9 DEF Table, WorkOnce
  <2>13. ItemsLead'
    <3> SUFFICES ASSUME NEW m \in DOMAIN modules', NEW i \in DOMAIN modules'[m].items,
                        modules'[m].items[i].is_submodule, modules'[m].items[i].path = <<>>
                 PROVE  Leads(m - 1, modules[m].items[i])'
      BY DEF ItemsLead
    <3>1. m \in DOMAIN modules /\ i \in DOMAIN modules[m].items
      BY <1>5
    <3>2. CASE m = p + 1 /\ i = i0
      <4>1. m - 1 = p /\ k # 0 /\ k < Count'
        BY <1>1, <1>2, <3>2
      <4>2. modules'[m].items[i].index = k /\ modules'[m].items[i].name = n
        BY <2>7, <3>2
      <4>3. modules'[k + 1].name = n /\ modules'[k + 1].parent = m - 1
        BY <1>2, <4>1
      <4> QED BY ONLY <4>1, <4>2, <4>3 DEF Leads, get_module
    <3>3. CASE ~(m = p + 1 /\ i = i0)
      <4>1. modules'[m].items[i] = modules[m].items[i]
        BY <2>8, <3>1, <3>3
      <4>2. PICK item \in Items : item = modules[m].items[i]
        BY <3>1, ItemsTyped DEF IInv, TypeOK
      <4>3. Leads(m - 1, item)
        BY <2>1, <3>1, <4>1, <4>2 DEF Table, ItemsLead
      <4>4. CASE item.index # 0 /\ item.index < Count
        <5>1. item.index + 1 \in DOMAIN modules /\ item.index < Count'
          BY <1>1, <1>2, <4>4 DEF Items
        <5> QED BY <1>3, <4>1, <4>2, <4>3, <4>4, <5>1 DEF Leads, get_module
      <4>5. CASE ~(item.index # 0 /\ item.index < Count)
        <5>1. PICK w \in DOMAIN worklist : item.index = 0 /\ Awaited(w, m - 1, item)
          BY <4>3, <4>5 DEF Leads
        <5>2. w # last
          <6> SUFFICES ASSUME w = last PROVE FALSE
            OBVIOUS
          <6>1. m - 1 = p /\ item.name = n
            BY <1>1, <5>1 DEF Awaited, p, n
          <6>2. m = p + 1
            BY <1>1, <1>2, <3>1, <6>1
          <6> QED BY <2>4, <3>1, <3>3, <4>2, <6>1, <6>2
        <5>3. w \in 1..(last - 1)
          BY <1>1, <5>2
        <5>4. w \in DOMAIN worklist' /\ worklist'[w] = worklist[w]
          BY <1>1, <5>3
        <5> QED BY <4>1, <4>2, <5>1, <5>4 DEF Leads, Awaited
      <4> QED BY <4>4, <4>5
    <3> QED BY <3>2, <3>3
  <2>14. DeclsWhole'
    <3> SUFFICES ASSUME NEW m \in DOMAIN modules', NEW i \in DOMAIN modules'[m].items,
                        ~modules'[m].items[i].is_submodule
                 PROVE  modules'[m].items[i].decl # Clobbered
      BY DEF DeclsWhole
    <3>1. CASE m \in DOMAIN modules /\ i \in DOMAIN modules[m].items
      BY <2>1, <2>7, <2>8, <3>1 DEF Table, DeclsWhole
    <3> QED BY <1>5, <3>1, Clobber
  <2> QED BY <2>11, <2>12, <2>13, <2>14 DEF Table
<1> QED BY <1>4, <1>6 DEF IInv

-----------------------------------------------------------------------------
LEMMA TableStep == IInv /\ [Next]_vars => IInv'
<1> SUFFICES ASSUME IInv, [Next]_vars PROVE IInv'
  OBVIOUS
<1>a. TypeOK /\ TypeOK'
  BY TypeStep DEF IInv
<1>b. ASSUME NEW text, Fail(text) PROVE IInv'
  BY <1>a, <1>b, KeptTable DEF Fail
<1>1. CASE SelfModule
  BY <1>1, <1>a, SelfModuleStep
<1>2. CASE RefuseSelf \/ RefuseFile \/ RefuseRedeclared
  BY <1>2, <1>b DEF RefuseSelf, RefuseFile, RefuseRedeclared, Refused
<1>3. CASE Submodule
  BY <1>3, <1>a, SubmoduleStep
<1>4. CASE CompileMain
  <2>1. CASE Fail("no file")
    BY <1>b, <2>1
  <2>2. CASE /\ \E ast : resolve_top_level(ast, new_file, "main", NoModule)
             /\ phase' = "main" /\ UNCHANGED <<worklist, globals>>
    <3>1. "main" \in Names /\ new_file \in Nat
      BY <1>a, NodesAssumption DEF new_file, TypeOK
    <3> QED BY <1>a, <2>2, <3>1, RootStep DEF resolve_top_level
  <2> QED BY <1>4, <2>1, <2>2 DEF CompileMain
<1>5. CASE CompileStd
  <2>1. "std" \in Names /\ new_file \in Nat
    BY <1>a, NodesAssumption DEF new_file, TypeOK
  <2> QED BY <1>5, <1>a, <2>1, RootStep DEF CompileStd, resolve_top_level
<1>6. CASE StartWork \/ TableComplete
  BY <1>6, <1>a, KeptTable DEF StartWork, TableComplete, table
<1>7. CASE ResolveNode
  <2>1. /\ Working("node") /\ Pop /\ phase' = "work" /\ UNCHANGED globals
        /\ modules' = Append(link(modules, Popped.parent, Popped.node.name, Count),
                             create_module(Popped.node.name, Popped.parent, get_module(Popped.parent).file,
                                           FALSE, Popped.node.is_type, DeclItems(Popped.node)))
    BY <1>7 DEF ResolveNode, Working, resolve_node
  <2>2. /\ Popped.node \in Nodes /\ get_module(Popped.parent).file \in Nat
    <3>1. Popped.node \in Nodes /\ Popped.parent \in Nat /\ Popped.parent < Len(modules)
      BY <1>a, <2>1, PoppedTyped DEF WorkEntries
    <3>2. modules[Popped.parent + 1] \in ModuleRecords
      BY <1>a, <3>1 DEF TypeOK
    <3> QED BY <3>1, <3>2 DEF get_module, ModuleRecords
  <2>3. /\ DeclItems(Popped.node) \in Seq(Items) /\ Popped.node.is_type \in BOOLEAN
        /\ \A i \in DOMAIN DeclItems(Popped.node) :
             ~DeclItems(Popped.node)[i].is_submodule /\ DeclItems(Popped.node)[i].decl \in Decls
    BY <2>2, DeclItemsTyped, ReducedTyped
  <2> QED BY <1>a, <2>1, <2>2, <2>3, WorkStep
<1>8. CASE ResolveFile
  <2>1. CASE Fail("no file")
    BY <1>b, <2>1
  <2>2. CASE \E ast : resolve_top_level(ast, new_file, Popped.node.name, Popped.parent) /\ Pop
                      /\ phase' = phase /\ UNCHANGED globals
    <3>1. Working("file")
      BY <1>8 DEF ResolveFile
    <3>3. phase' # "fault"
      BY <2>2, <3>1 DEF Working
    <3>4. new_file \in Nat
      BY <1>a DEF new_file, IInv, TypeOK
    <3>2. << >> \in Seq(Items) /\ DOMAIN << >> = {}
      OBVIOUS
    <3> QED BY <1>a, <2>2, <3>1, <3>2, <3>3, <3>4, WorkStep DEF resolve_top_level
  <2> QED BY <1>8, <2>1, <2>2 DEF ResolveFile
<1>9. CASE FileUnusable
  BY <1>9, <1>b DEF FileUnusable
<1>10. CASE ListGlobals
  <2>1. UNCHANGED <<modules, worklist>> /\ phase' \in {"globals", "fault"}
    BY <1>10 DEF ListGlobals, table
  <2>4. PICK S : globals \in Seq(S)
    BY DEF IInv
  <2>5. \E S2 : globals' \in Seq(S2)
    <3>1. CASE globals' = globals
      BY <2>4, <3>1
    <3>2. CASE \E x : globals' = Append(globals, x)
      <4>1. PICK x : globals' = Append(globals, x)
        BY <3>2
      <4>2. globals \in Seq(S \cup {x})
        BY <2>4, SeqMonotonic
      <4>3. globals' \in Seq(S \cup {x})
        BY <4>1, <4>2
      <4> QED BY <4>3
    <3> QED BY <1>10, <3>1, <3>2 DEF ListGlobals
  <2>6. NamedOnce' /\ (Distinct' <=> Distinct) /\ Count' = Count /\ (Table <=> Table')
    BY <2>1 DEF IInv, NamedOnce, Distinct, Table, WorkHasItem, WorkOnce, ItemsLead, DeclsWhole, Leads,
                Awaited, Count, get_module
  <2>2. CASE phase' = "globals"
    BY <1>a, <2>2, <2>5, <2>6 DEF IInv
  <2>3. CASE phase' = "fault"
    <3> DEFINE m == Len(globals) + 1
    <3>1. /\ Len(globals) < Count
          /\ \E i \in DOMAIN modules[m].items :
                ~modules[m].items[i].is_submodule /\ modules[m].items[i].decl = Clobbered
      BY <1>10, <2>3 DEF ListGlobals, get_module
    <3>2. ~(Distinct /\ Count <= NoModule)
      <4> SUFFICES ASSUME Distinct, Count <= NoModule PROVE FALSE
        OBVIOUS
      <4>1. DeclsWhole
        BY DEF IInv, Table
      <4>2. m \in DOMAIN modules
        BY <1>a, <2>4, <3>1 DEF TypeOK, Count
      <4> QED BY <3>1, <4>1, <4>2 DEF DeclsWhole
    <3> QED BY <1>a, <2>5, <2>6, <3>2 DEF IInv
  <2> QED BY <2>1, <2>2, <2>3
<1>11. CASE GlobalsListed
  BY <1>11, <1>a, KeptTable DEF GlobalsListed, table
<1>12. CASE UNCHANGED vars
  <2>1. UNCHANGED <<modules, worklist, phase, globals>>
    BY <1>12 DEF vars
  <2>2. NamedOnce' /\ (Distinct' <=> Distinct) /\ Count' = Count
    BY <2>1 DEF IInv, NamedOnce, Distinct, Count
  <2>3. Table <=> Table'
    BY <2>1 DEF Table, WorkHasItem, WorkOnce, ItemsLead, DeclsWhole, Leads, Awaited, Count, get_module
  <2> QED BY <1>a, <2>1, <2>2, <2>3 DEF IInv
<1> QED BY <1>1, <1>2, <1>3, <1>4, <1>5, <1>6, <1>7, <1>8, <1>9, <1>10, <1>11, <1>12
        DEF Next, Walk, Resolve

LEMMA TableImplies == IInv => Represented
<1> SUFFICES ASSUME IInv, Distinct, Count <= NoModule, NEW m \in 0..(Count - 1),
                    NEW i \in DOMAIN get_module(m).items,
                    get_module(m).items[i].is_submodule, get_module(m).items[i].path = <<>>
             PROVE  phase # "fault" /\ Leads(m, get_module(m).items[i])
  BY DEF Represented, IInv
<1>1. Count \in Nat /\ DOMAIN modules = 1..Count
  BY DEF IInv, TypeOK, Count
<1>2. m + 1 \in DOMAIN modules /\ (m + 1) - 1 = m
  BY <1>1
<1> QED BY <1>2 DEF IInv, Table, ItemsLead, get_module

\* Whatever the program, as long as no module declares a declaration and a
\* submodule of one name and the table has no more modules than its indices can
\* tell apart: the item of each submodule leads to the module that was made for it
\* or waits for its work, and no declaration is overwritten.
THEOREM TableRepresentsTree == Spec => []Represented
<1>1. Init => IInv
  BY InitTable
<1>2. IInv /\ [Next]_vars => IInv'
  BY TableStep
<1>3. IInv => Represented
  BY TableImplies
<1> QED BY <1>1, <1>2, <1>3, PTL DEF Spec

-----------------------------------------------------------------------------
(***************************************************************************)
(* What the paths need of the table besides: libraries are roots, and no   *)
(* work is left when the globals are listed.                               *)
(***************************************************************************)
Mods == 0..(Count - 1)

LibrariesRoot ==
  /\ DOMAIN libraries \subseteq Nat
  /\ \A i \in DOMAIN libraries :
       libraries[i].module \in Mods /\ get_module(libraries[i].module).parent = NoModule
NoWork == phase \in {"globals", "resolved"} => worklist = <<>>
PInv == IInv /\ LibrariesRoot /\ NoWork

\* Modules are added behind the others, and stay where they are.
Grown ==
  /\ DOMAIN modules \subseteq DOMAIN modules'
  /\ \A m \in DOMAIN modules : modules'[m].parent = modules[m].parent

LEMMA Grows ==
  ASSUME TypeOK, [Next]_vars
  PROVE  Grown
<1>a. DOMAIN modules = 1..Len(modules) /\ Len(modules) \in Nat
  BY DEF TypeOK
<1>b. ASSUME NEW text, Fail(text) PROVE Grown
  BY <1>b DEF Fail, Grown
<1>c. ASSUME NEW p \in Nat, p = NoModule \/ p < Len(modules), NEW n \in Names, NEW f \in Nat,
             NEW is_file \in BOOLEAN, NEW is_type \in BOOLEAN, NEW items \in Seq(Items),
             modules' = Append(link(modules, p, n, Count), create_module(n, p, f, is_file, is_type, items))
      PROVE  Grown
  <2>1. /\ DOMAIN modules' = 1..(Len(modules) + 1)
        /\ Linked(modules', modules, p, n, Len(modules))
    BY <1>c, CreatedItems
  <2> QED BY <1>a, <2>1 DEF Linked, Grown
<1>d. << >> \in Seq(Items) /\ NoModule \in Nat /\ "main" \in Names /\ "std" \in Names /\ new_file \in Nat
  BY NodesAssumption DEF NoModule, new_file, TypeOK
<1>1. CASE SelfModule \/ Submodule
  <2>1. PICK new \in Seq(Items) : Walking /\ Declare(new)
    <3>1. CASE SelfModule
      <4>1. Met \in Nodes
        BY <3>1, MetTyped DEF SelfModule
      <4>2. DeclItems(Met) \in Seq(Items)
        BY <4>1, DeclItemsTyped
      <4> QED BY <3>1, <4>2 DEF SelfModule
    <3>2. CASE Submodule
      <4>1. Met \in Nodes /\ Head(todo).inline \in BOOLEAN
        BY <3>2, MetTyped DEF Submodule
      <4>2. SubmoduleItem(Met, IsPublic(Head(todo))) \in Items
        BY <4>1, SubmoduleItemTyped DEF IsPublic
      <4>3. <<SubmoduleItem(Met, IsPublic(Head(todo)))>> \in Seq(Items)
        BY <4>2
      <4> QED BY <3>2, <4>3 DEF Submodule
    <3> QED BY <1>1, <3>1, <3>2
  <2> QED BY <2>1, DeclaredItems DEF Grown
<1>2. CASE RefuseSelf \/ RefuseFile \/ RefuseRedeclared
  BY <1>2, <1>b DEF RefuseSelf, RefuseFile, RefuseRedeclared, Refused
<1>3. CASE CompileMain
  <2>1. CASE Fail("no file")
    BY <1>b, <2>1
  <2>2. CASE \E ast : resolve_top_level(ast, new_file, "main", NoModule)
    BY <1>c, <1>d, <2>2 DEF resolve_top_level
  <2> QED BY <1>3, <2>1, <2>2 DEF CompileMain
<1>4. CASE CompileStd
  BY <1>4, <1>c, <1>d DEF CompileStd, resolve_top_level
<1>5. CASE StartWork \/ TableComplete \/ ListGlobals \/ GlobalsListed \/ UNCHANGED vars
  BY <1>5 DEF StartWork, TableComplete, ListGlobals, GlobalsListed, vars, table, Grown
<1>6. CASE ResolveNode
  <2>1. /\ Working("node")
        /\ modules' = Append(link(modules, Popped.parent, Popped.node.name, Count),
                             create_module(Popped.node.name, Popped.parent, get_module(Popped.parent).file,
                                           FALSE, Popped.node.is_type, DeclItems(Popped.node)))
    BY <1>6 DEF ResolveNode, Working, resolve_node
  <2>2. Popped.node \in Nodes /\ Popped.parent \in Nat /\ Popped.parent < Len(modules)
    BY <2>1, PoppedTyped DEF WorkEntries
  <2>3. modules[Popped.parent + 1] \in ModuleRecords
    BY <2>2 DEF TypeOK
  <2>4. get_module(Popped.parent).file \in Nat
    BY <2>3 DEF get_module, ModuleRecords
  <2>5. DeclItems(Popped.node) \in Seq(Items) /\ Popped.node.is_type \in BOOLEAN
        /\ Popped.node.name \in Names
    BY <2>2, DeclItemsTyped, ReducedTyped
  <2> QED BY <1>c, <2>1, <2>2, <2>4, <2>5
<1>7. CASE ResolveFile
  <2>1. CASE Fail("no file")
    BY <1>b, <2>1
  <2>2. CASE \E ast : resolve_top_level(ast, new_file, Popped.node.name, Popped.parent)
    <3>1. Working("file")
      BY <1>7 DEF ResolveFile
    <3>2. Popped.node \in Nodes /\ Popped.parent \in Nat /\ Popped.parent < Len(modules)
      BY <3>1, PoppedTyped DEF WorkEntries
    <3>3. Popped.node.name \in Names
      BY <3>2, ReducedTyped
    <3> QED BY <1>c, <1>d, <2>2, <3>2, <3>3 DEF resolve_top_level
  <2> QED BY <1>7, <2>1, <2>2 DEF ResolveFile
<1>8. CASE FileUnusable
  BY <1>8, <1>b DEF FileUnusable
<1> QED BY <1>1, <1>2, <1>3, <1>4, <1>5, <1>6, <1>7, <1>8 DEF Next, Walk, Resolve

LEMMA LibrariesStep ==
  ASSUME TypeOK, LibrariesRoot, [Next]_vars
  PROVE  LibrariesRoot'
<1>1. Grown
  BY Grows
<1>2. /\ DOMAIN modules = 1..Len(modules) /\ Len(modules) \in Nat
      /\ DOMAIN modules' = 1..Len(modules') /\ Len(modules') \in Nat
  <2>1. modules \in Seq(ModuleRecords) /\ modules' \in Seq(ModuleRecords)
    BY TypeStep DEF TypeOK
  <2> QED BY <2>1
<1>3. ASSUME NEW m \in Mods
      PROVE  m \in Mods' /\ get_module(m)'.parent = get_module(m).parent
  <2>1. m + 1 \in DOMAIN modules /\ m \in Nat
    BY <1>2 DEF Mods, Count
  <2>2. m + 1 \in DOMAIN modules'
    BY <1>1, <2>1 DEF Grown
  <2>3. m \in 0..(Len(modules') - 1)
    BY <1>2, <2>1, <2>2
  <2> QED BY <1>1, <2>1, <2>3 DEF Grown, Mods, Count, get_module
<1>4. CASE UNCHANGED libraries
  BY <1>3, <1>4 DEF LibrariesRoot, get_module
<1>5. CASE CompileStd
  <2>1. libraries' = <<[name |-> "std", module |-> Count]>>
    BY <1>5 DEF CompileStd
  <2>2. "std" \in Names /\ new_file \in Nat /\ << >> \in Seq(Items) /\ NoModule \in Nat
    BY NodesAssumption DEF new_file, TypeOK, NoModule
  <2>3. /\ modules'[Len(modules) + 1].parent = NoModule
        /\ Count' = Len(modules) + 1
    BY <1>5, <2>2, CreatedItems DEF CompileStd, resolve_top_level
  <2> DEFINE n == Len(modules)
  <2>4. n \in Mods' /\ modules'[n + 1].parent = NoModule
    BY <1>2, <2>3 DEF Mods, Count
  <2>5. DOMAIN libraries' = {1} /\ libraries'[1].module = n
    BY <2>1 DEF Count
  <2> HIDE DEF n
  <2> QED BY <2>4, <2>5 DEF LibrariesRoot, get_module
<1>6. UNCHANGED libraries \/ CompileStd
  BY DEF Next, Walk, Resolve, SelfModule, Keep, RefuseSelf, RefuseFile, RefuseRedeclared, Refused, Fail,
         Submodule, CompileMain, StartWork, ResolveNode, ResolveFile, FileUnusable, TableComplete,
         ListGlobals, GlobalsListed, vars
<1> QED BY <1>4, <1>5, <1>6

LEMMA NoWorkStep ==
  ASSUME NoWork, [Next]_vars
  PROVE  NoWork'
<1>1. CASE UNCHANGED <<phase, worklist>>
  BY <1>1 DEF NoWork
<1>2. CASE ~(phase' \in {"globals", "resolved"})
  BY <1>2 DEF NoWork
<1>3. CASE TableComplete
  BY <1>3 DEF TableComplete, table, NoWork
<1>4. CASE ListGlobals \/ GlobalsListed
  BY <1>4 DEF ListGlobals, GlobalsListed, table, NoWork
<1>a. ASSUME NEW text, Fail(text) PROVE NoWork'
  <2>1. phase' = "failed"
    BY <1>a DEF Fail
  <2> QED BY <1>2, <2>1
<1>5. CASE SelfModule \/ Submodule
  BY <1>2, <1>5 DEF SelfModule, Submodule, Walking, Keep
<1>6. CASE RefuseSelf \/ RefuseFile \/ RefuseRedeclared
  BY <1>6, <1>a DEF RefuseSelf, RefuseFile, RefuseRedeclared, Refused
<1>7. CASE CompileMain
  BY <1>2, <1>7, <1>a DEF CompileMain
<1>8. CASE CompileStd \/ StartWork \/ ResolveNode
  BY <1>2, <1>8 DEF CompileStd, StartWork, ResolveNode, Working
<1>9. CASE ResolveFile
  BY <1>2, <1>9, <1>a DEF ResolveFile, Working
<1>10. CASE FileUnusable
  BY <1>10, <1>a DEF FileUnusable
<1>11. CASE UNCHANGED vars
  BY <1>1, <1>11 DEF vars
<1> QED BY <1>3, <1>4, <1>5, <1>6, <1>7, <1>8, <1>9, <1>10, <1>11 DEF Next, Walk, Resolve

LEMMA PInvInit == Init => PInv
<1> SUFFICES ASSUME Init PROVE PInv
  OBVIOUS
<1>1. DOMAIN << >> = {}
  OBVIOUS
<1>2. DOMAIN libraries = {} /\ phase \notin {"globals", "resolved"}
  BY <1>1 DEF Init
<1> QED BY <1>2, InitTable DEF PInv, LibrariesRoot, NoWork

LEMMA PInvStep == PInv /\ [Next]_vars => PInv'
BY TableStep, LibrariesStep, NoWorkStep DEF PInv, IInv

-----------------------------------------------------------------------------
(***************************************************************************)
(* What is above a module: itself, closed under parents, and no more than  *)
(* that.                                                                   *)
(***************************************************************************)
ParentOf(m) == get_module(m).parent
Upward(C) == \A x \in C : ParentOf(x) # NoModule => ParentOf(x) \in C

LEMMA Parents ==
  ASSUME TypeOK, Count <= NoModule
  PROVE  /\ Count \in Nat /\ NoModule \in Nat /\ NoModule \notin Mods /\ Mods \subseteq Nat
         /\ \A m \in Mods : /\ m + 1 \in DOMAIN modules /\ (m + 1) - 1 = m
                            /\ ParentOf(m) \in Nat
                            /\ ParentOf(m) = NoModule \/ (ParentOf(m) \in Mods /\ ParentOf(m) < m)
<1>1. /\ modules \in Seq(ModuleRecords) /\ Count \in Nat /\ NoModule \in Nat
      /\ \A i \in DOMAIN modules : modules[i].parent = NoModule \/ modules[i].parent + 1 < i
      /\ DOMAIN modules = 1..Count
  BY DEF TypeOK, Count, NoModule
<1>2. NoModule \notin Mods /\ Mods \subseteq Nat
  BY <1>1 DEF Mods
<1>3. ASSUME NEW m \in Mods
      PROVE  /\ m + 1 \in DOMAIN modules /\ (m + 1) - 1 = m
             /\ ParentOf(m) \in Nat
             /\ ParentOf(m) = NoModule \/ (ParentOf(m) \in Mods /\ ParentOf(m) < m)
  <2> DEFINE p == modules[m + 1].parent
  <2>1. m + 1 \in DOMAIN modules /\ m \in Nat /\ m < Count /\ (m + 1) - 1 = m
    BY <1>1 DEF Mods
  <2>2. modules[m + 1] \in ModuleRecords
    BY <1>1, <2>1
  <2>3. p \in Nat
    BY <2>2 DEF ModuleRecords
  <2>4. p = NoModule \/ p + 1 < m + 1
    BY <1>1, <2>1
  <2>5. ParentOf(m) = p
    BY DEF ParentOf, get_module
  <2> HIDE DEF p
  <2>6. p + 1 < m + 1 => p \in 0..(Count - 1) /\ p < m
    BY <1>1, <2>1, <2>3
  <2> QED BY <2>1, <2>3, <2>4, <2>5, <2>6 DEF Mods
<1> QED BY <1>1, <1>2, <1>3

\* Going up step by step.
LEMMA Ancestors ==
  ASSUME TypeOK, Count <= NoModule, NEW m \in Mods
  PROVE  /\ m \in Nat
         /\ ancestors(m)[0] = m
         /\ \A n \in 1..m : ancestors(m)[n] = IF ancestors(m)[n - 1] = NoModule THEN NoModule
                                              ELSE ParentOf(ancestors(m)[n - 1])
<1> DEFINE A == Mods \cup {NoModule}
           up(x) == IF x = NoModule THEN NoModule ELSE ParentOf(x)
           step == [n \in 1..m |-> [x \in A |-> up(x)]]
           Is(f) == f = [n \in 0..m |-> IF n = 0 THEN m
                                        ELSE IF f[n - 1] = NoModule THEN NoModule
                                             ELSE get_module(f[n - 1]).parent]
<1>1. m \in Nat /\ m \in A
  BY Parents
<1>2. \A x \in A : up(x) \in A
  BY Parents
<1>3. step \in [1..m -> [A -> A]]
  BY <1>2
<1>4. \A n \in 1..m, x \in A : step[n][x] = up(x)
  OBVIOUS
<1> HIDE DEF step
<1>5. PICK f \in [0..m -> A] : f[0] = m /\ \A n \in 1..m : f[n] = step[n][f[n - 1]]
  <2> DEFINE c == m
  <2>1. c \in A /\ m \in Nat
    BY <1>1
  <2> HIDE DEF A, c
  <2>2. \E f \in [0..m -> A] : f[0] = c /\ \A n \in 1..m : f[n] = step[n][f[n - 1]]
    BY ONLY <1>3, <2>1, Iterated
  <2> QED BY <2>2 DEF c
<1>6. \A n \in 1..m : n - 1 \in 0..m
  BY <1>1
<1>7. \A n \in 1..m : f[n] = up(f[n - 1])
  BY <1>4, <1>5, <1>6
<1>8. \A n \in 0..m : f[n] = IF n = 0 THEN m ELSE up(f[n - 1])
  <2>1. \A n \in 0..m : n = 0 \/ n \in 1..m
    BY <1>1
  <2> HIDE DEF up, A
  <2> QED BY <1>5, <1>7, <2>1
<1>9. \E g : Is(g)
  <2>1. f = [n \in 0..m |-> f[n]]
    BY <1>5
  <2>2. [n \in 0..m |-> f[n]] = [n \in 0..m |-> IF n = 0 THEN m ELSE up(f[n - 1])]
    BY <1>8
  <2>3. Is(f)
    BY <2>1, <2>2 DEF ParentOf
  <2> QED BY <2>3
<1>10. Is(ancestors(m))
  BY <1>9, Zenon DEF ancestors
<1> DEFINE a == ancestors(m)
<1> HIDE DEF a
<1>11. a[0] = m /\ \A n \in 1..m : a[n] = IF a[n - 1] = NoModule THEN NoModule ELSE ParentOf(a[n - 1])
  <2>1. Is(a)
    BY <1>10 DEF a
  <2>2. 0 \in 0..m /\ \A n \in 1..m : n \in 0..m /\ n # 0
    BY <1>1
  <2> QED BY <2>1, <2>2 DEF ParentOf
<1> QED BY <1>1, <1>11 DEF a

\* An ancestor is as many modules lower as it is steps away, or there is none.
LEMMA Lower ==
  ASSUME TypeOK, Count <= NoModule, NEW m \in Mods
  PROVE  \A n \in 0..m : \/ ancestors(m)[n] = NoModule
                         \/ ancestors(m)[n] \in Mods /\ ancestors(m)[n] + n <= m
<1> DEFINE a == ancestors(m)
           T == { n \in 0..m : a[n] = NoModule \/ (a[n] \in Mods /\ a[n] + n <= m) }
<1>1. /\ m \in Nat /\ a[0] = m
      /\ \A n \in 1..m : a[n] = IF a[n - 1] = NoModule THEN NoModule ELSE ParentOf(a[n - 1])
  BY Ancestors
<1> HIDE DEF a
<1>2. 0 \in T
  BY <1>1
<1>3. ASSUME NEW n \in 1..m, n - 1 \in T
      PROVE  n \in T
  <2>1. n \in 0..m
    BY <1>1
  <2>2. CASE a[n - 1] = NoModule
    BY <1>1, <2>1, <2>2
  <2>3. CASE a[n - 1] # NoModule
    <3> DEFINE x == a[n - 1]
               p == ParentOf(x)
    <3>1. x \in Mods /\ x + (n - 1) <= m /\ a[n] = p
      BY <1>1, <1>3, <2>3
    <3>2. x \in Nat /\ p \in Nat /\ (p = NoModule \/ (p \in Mods /\ p < x))
      BY <3>1, Parents
    <3> HIDE DEF x, p
    <3>3. p < x => p + n <= m
      BY <1>1, <3>1, <3>2
    <3> QED BY <2>1, <3>1, <3>2, <3>3
  <2> QED BY <2>2, <2>3
<1>4. 0..m \subseteq T
  <2> HIDE DEF T
  <2> QED BY <1>1, <1>2, <1>3, UpTo
<1> QED BY <1>4 DEF a

LEMMA AboveIs ==
  ASSUME TypeOK, Count <= NoModule, NEW m \in Mods
  PROVE  m \in Above(m) /\ Above(m) \subseteq Mods /\ Upward(Above(m))
<1> DEFINE a == ancestors(m)
<1>1. /\ m \in Nat /\ a[0] = m
      /\ \A n \in 1..m : a[n] = IF a[n - 1] = NoModule THEN NoModule ELSE ParentOf(a[n - 1])
      /\ \A n \in 0..m : a[n] = NoModule \/ (a[n] \in Mods /\ a[n] + n <= m)
  BY Ancestors, Lower
<1>2. Above(m) = { a[n] : n \in 0..m } \ {NoModule}
  BY DEF Above
<1> HIDE DEF a
<1>3. m \in Above(m)
  BY <1>1, <1>2, Parents
<1>4. Above(m) \subseteq Mods
  BY <1>1, <1>2
<1>5. ASSUME NEW x \in Above(m), ParentOf(x) # NoModule
      PROVE  ParentOf(x) \in Above(m)
  <2>1. PICK n \in 0..m : x = a[n] /\ x # NoModule
    BY <1>2
  <2>2. x \in Mods /\ x + n <= m
    BY <1>1, <2>1
  <2>3. x \in Nat /\ ParentOf(x) \in Nat /\ ParentOf(x) < x
    BY <1>5, <2>2, Parents
  <2>4. n + 1 \in 1..m /\ n + 1 \in 0..m /\ (n + 1) - 1 = n
    <3> DEFINE p == ParentOf(x)
    <3>1. p \in Nat /\ p < x
      BY <2>3
    <3> HIDE DEF p
    <3> QED BY <1>1, <2>1, <2>2, <2>3, <3>1
  <2>5. a[n + 1] = ParentOf(x)
    BY <1>1, <2>1, <2>4
  <2> QED BY <1>2, <1>5, <2>4, <2>5
<1> QED BY <1>3, <1>4, <1>5 DEF Upward

LEMMA AboveLeast ==
  ASSUME TypeOK, Count <= NoModule, NEW m \in Mods, NEW C, m \in C, Upward(C)
  PROVE  Above(m) \subseteq C
<1> DEFINE a == ancestors(m)
           T == { n \in 0..m : a[n] = NoModule \/ a[n] \in C }
<1>1. /\ m \in Nat /\ a[0] = m
      /\ \A n \in 1..m : a[n] = IF a[n - 1] = NoModule THEN NoModule ELSE ParentOf(a[n - 1])
  BY Ancestors
<1>2. Above(m) = { a[n] : n \in 0..m } \ {NoModule}
  BY DEF Above
<1> HIDE DEF a
<1>3. 0 \in T
  BY <1>1
<1>4. ASSUME NEW n \in 1..m, n - 1 \in T
      PROVE  n \in T
  <2>1. n \in 0..m
    BY <1>1
  <2> QED BY <1>1, <1>4, <2>1 DEF Upward
<1>5. 0..m \subseteq T
  <2> HIDE DEF T
  <2> QED BY <1>1, <1>3, <1>4, UpTo
<1> QED BY <1>2, <1>5

-----------------------------------------------------------------------------
(***************************************************************************)
(* Modules that a path may lead to: each private module on the way down to *)
(* one of them is declared in a module of V, where V holds all that is     *)
(* around the origin of the path and around the aliases.                   *)
(***************************************************************************)
Allowed(V, x) == x \in Mods /\ \A y \in Above(x) : IsPrivate(y) => ParentOf(y) \in V
View(V) == V \subseteq Mods /\ Upward(V) /\ Aliasing \subseteq V
Ready == PInv /\ phase = "resolved" /\ Distinct /\ Count <= NoModule

LEMMA ReadyTyped ==
  ASSUME Ready
  PROVE  TypeOK /\ Count <= NoModule
BY DEF Ready, PInv, IInv

LEMMA ViewAllows ==
  ASSUME Ready, NEW V, View(V), NEW x \in V
  PROVE  Allowed(V, x)
<1>1. x \in Mods /\ Upward(V)
  BY DEF View
<1>2. Above(x) \subseteq V
  BY <1>1, ReadyTyped, AboveLeast
<1> QED BY <1>1, <1>2 DEF Allowed, Upward, IsPrivate, ParentOf

LEMMA ParentAllowed ==
  ASSUME Ready, NEW V, NEW x, Allowed(V, x), ParentOf(x) # NoModule
  PROVE  Allowed(V, ParentOf(x))
<1>1. x \in Mods
  BY DEF Allowed
<1>2. ParentOf(x) \in Mods
  BY <1>1, ReadyTyped, Parents
<1>3. x \in Above(x) /\ Upward(Above(x))
  BY <1>1, ReadyTyped, AboveIs
<1>4. ParentOf(x) \in Above(x)
  BY <1>3 DEF Upward
<1>5. Above(ParentOf(x)) \subseteq Above(x)
  BY <1>2, <1>3, <1>4, ReadyTyped, AboveLeast
<1> QED BY <1>2, <1>5 DEF Allowed

LEMMA ChildAllowed ==
  ASSUME Ready, NEW V, NEW x, Allowed(V, x), NEW c \in Mods, ParentOf(c) = x, IsPrivate(c) => x \in V
  PROVE  Allowed(V, c)
<1> DEFINE C == {c} \cup Above(x)
<1>1. x \in Mods
  BY DEF Allowed
<1>2. x \in Above(x) /\ Upward(Above(x))
  BY <1>1, ReadyTyped, AboveIs
<1>3. c \in C /\ Upward(C)
  BY <1>2 DEF Upward
<1>4. Above(c) \subseteq C
  <2> HIDE DEF C
  <2> QED BY <1>3, ReadyTyped, AboveLeast
<1> QED BY <1>4 DEF Allowed

LEMMA RootAllowed ==
  ASSUME Ready, NEW V, NEW c \in Mods, ParentOf(c) = NoModule
  PROVE  Allowed(V, c)
<1> DEFINE C == {c}
<1>1. c \in C /\ Upward(C)
  BY DEF Upward
<1>2. Above(c) \subseteq C
  <2> HIDE DEF C
  <2> QED BY <1>1, ReadyTyped, AboveLeast
<1>3. ~IsPrivate(c)
  BY DEF IsPrivate, ParentOf
<1> QED BY <1>2, <1>3 DEF Allowed

LEMMA LooksIntoView ==
  ASSUME Ready, NEW m \in Mods
  PROVE  View(LooksInto(m)) /\ m \in LooksInto(m)
<1> DEFINE O == {m} \cup Aliasing
<1>1. O \subseteq Mods
  BY DEF Aliasing, Mods
<1>2. LooksInto(m) = UNION { Above(o) : o \in O } /\ Aliasing \subseteq O /\ m \in O
  BY DEF LooksInto
<1> HIDE DEF O
<1>3. \A o \in O : o \in Above(o) /\ Above(o) \subseteq Mods /\ Upward(Above(o))
  BY <1>1, ReadyTyped, AboveIs
<1> QED BY <1>2, <1>3 DEF View, Upward

\* When the globals are listed, every submodule that is no alias leads to a module.
LEMMA Led ==
  ASSUME Ready, NEW x \in Mods, NEW i \in DOMAIN get_module(x).items,
         get_module(x).items[i].is_submodule, get_module(x).items[i].path = <<>>
  PROVE  /\ get_module(x).items[i].index \in Mods
         /\ ParentOf(get_module(x).items[i].index) = x
         /\ get_module(get_module(x).items[i].index).name = get_module(x).items[i].name
<1> DEFINE item == get_module(x).items[i]
<1>1. x + 1 \in DOMAIN modules /\ (x + 1) - 1 = x /\ Count \in Nat
  BY ReadyTyped, Parents
<1>2. modules[x + 1].items[i] \in Items
  BY <1>1, ReadyTyped, ItemsTyped DEF TypeOK, get_module
<1>3. item.index \in Nat
  BY <1>2 DEF get_module, Items
<1>4. Leads(x, item)
  <2>1. ItemsLead
    BY DEF Ready, PInv, IInv, Table
  <2> QED BY <1>1, <2>1 DEF ItemsLead, get_module
<1>5. DOMAIN worklist = {}
  <2>1. worklist = << >>
    BY DEF Ready, PInv, NoWork
  <2>2. DOMAIN << >> = {}
    OBVIOUS
  <2> QED BY <2>1, <2>2
<1> HIDE DEF item
<1>6. item.index < Count /\ get_module(item.index).parent = x /\ get_module(item.index).name = item.name
  BY <1>4, <1>5 DEF Leads
<1>7. item.index \in Mods
  BY <1>1, <1>3, <1>6 DEF Mods
<1> QED BY <1>6, <1>7 DEF item, ParentOf

\* No name is given to two of the submodules of a module.
LEMMA SubmoduleOnce ==
  ASSUME Ready, NEW x \in Mods, NEW i \in DOMAIN get_module(x).items, NEW j \in DOMAIN get_module(x).items,
         get_module(x).items[i].is_submodule, get_module(x).items[j].is_submodule,
         get_module(x).items[i].name = get_module(x).items[j].name
  PROVE  i = j
<1>1. x + 1 \in DOMAIN modules
  BY ReadyTyped, Parents
<1>2. NamedOnce
  BY DEF Ready, PInv, IInv
<1> QED BY <1>1, <1>2 DEF NamedOnce, get_module

LEMMA Least ==
  ASSUME NEW S, S \subseteq Nat, S # {}
  PROVE  Min(S) \in S
<1>1. \E x \in S : \A y \in S : x <= y
  <2>1. PICK x \in S : \A y \in S : ~(y < x)
    BY NatWellOrdered
  <2> QED BY <2>1
<1> QED BY <1>1 DEF Min

LEMMA SubmoduleMin ==
  ASSUME Ready, NEW x \in Mods, NEW ident, Submodules(x, ident) # {}
  PROVE  Min(Submodules(x, ident)) \in Submodules(x, ident)
<1>1. x + 1 \in DOMAIN modules
  BY ReadyTyped, Parents
<1>2. DOMAIN get_module(x).items \subseteq Nat
  BY <1>1, ReadyTyped, ItemsTyped DEF TypeOK, get_module
<1>3. Submodules(x, ident) \subseteq Nat
  BY <1>2 DEF Submodules
<1> QED BY <1>3, Least

-----------------------------------------------------------------------------
\* Answers, and what the loop knows between two names.
AnswerOK(V, a) ==
  a.error = "ok" => a = Found(a.module) /\ (a.module = NoModule \/ Allowed(V, a.module))
AliasesOK(V, aliased) ==
  \A o \in V, path \in Seq(Names) : path # <<>> => AnswerOK(V, aliased[o][path])
HereOK(V, h) ==
  /\ h = [answer |-> h.answer, in_root |-> h.in_root]
  /\ AnswerOK(V, h.answer)
  /\ h.answer.error = "ok" => /\ Allowed(V, h.answer.module)
                              /\ h.in_root => h.answer.module \in V

LEMMA Founds ==
  ASSUME NEW V, NEW x, x = NoModule \/ Allowed(V, x)
  PROVE  /\ AnswerOK(V, Found(x))
         /\ Found(x).error = "ok" /\ Found(x).module = x
BY DEF AnswerOK, Found

LEMMA Errors ==
  ASSUME NEW V, NEW e, e # "ok"
  PROVE  AnswerOK(V, Error(e)) /\ Error(e).error # "ok"
BY DEF AnswerOK, Error

\* Where a name leads to.
LEMMA FoundModule ==
  ASSUME Ready, NEW V, View(V), NEW aliased, AliasesOK(V, aliased),
         NEW origin, NEW x, Allowed(V, x), NEW ident, NEW in_root, in_root => x \in V
  PROVE  AnswerOK(V, found_module(origin, x, ident, in_root, aliased))
<1> DEFINE S == Submodules(x, ident)
           i == Min(S)
           item == get_module(x).items[i]
           result == find_submodule_in(x, ident, in_root)
           a == found_module(origin, x, ident, in_root, aliased)
<1>1. x \in Mods
  BY DEF Allowed
<1>2. CASE result = "ok"
  <2>1. S # {} /\ (in_root \/ item.is_public)
    BY <1>2 DEF find_submodule_in
  <2>2. i \in DOMAIN get_module(x).items /\ item.is_submodule /\ item.name = ident
    <3>1. i \in S
      BY <1>1, <2>1, SubmoduleMin
    <3> QED BY <3>1 DEF Submodules
  <2>3. a = item_module(origin, x, ident, aliased)
    BY <1>2 DEF found_module
  <2>4. CASE item.path # <<>>
    <3>1. a = aliased[x][item.path]
      BY <2>3, <2>4 DEF item_module, AliasOrigin
    <3>2. x \in V
      <4>1. x \in Aliasing
        BY <1>1, <2>2, <2>4 DEF Aliasing, Mods
      <4> QED BY <4>1 DEF View
    <3>3. item.path \in Seq(Names)
      <4>1. x + 1 \in DOMAIN modules
        BY <1>1, ReadyTyped, Parents
      <4>2. modules[x + 1].items[i] \in Items
        BY <2>2, <4>1, ReadyTyped, ItemsTyped DEF TypeOK, get_module
      <4> QED BY <4>2 DEF Items, get_module
    <3> QED BY <2>4, <3>1, <3>2, <3>3 DEF AliasesOK
  <2>5. CASE item.path = <<>>
    <3> DEFINE c == item.index
    <3>1. a = Found(c)
      BY <2>3, <2>5 DEF item_module
    <3>2. c \in Mods /\ ParentOf(c) = x /\ get_module(c).name = ident
      BY <1>1, <2>2, <2>5, Led
    <3>3. ASSUME IsPrivate(c) PROVE x \in V
      <4>1. PICK j \in DOMAIN get_module(x).items :
              /\ get_module(x).items[j].is_submodule
              /\ get_module(x).items[j].index = c
              /\ ~get_module(x).items[j].is_public
        BY <3>2, <3>3 DEF IsPrivate, ParentOf
      <4>2. CASE get_module(x).items[j].path # <<>>
        <5>1. x \in Aliasing
          BY <1>1, <4>2 DEF Aliasing, Mods
        <5> QED BY <5>1 DEF View
      <4>3. CASE get_module(x).items[j].path = <<>>
        <5>1. get_module(x).items[j].name = ident
          BY <1>1, <3>2, <4>1, <4>3, Led
        <5>2. j = i
          BY <1>1, <2>2, <4>1, <5>1, SubmoduleOnce
        <5> QED BY <2>1, <4>1, <5>2
      <4> QED BY <4>2, <4>3
    <3> HIDE DEF c, a
    <3>4. Allowed(V, c)
      BY <3>2, <3>3, ChildAllowed
    <3> QED BY <3>1, <3>4, Founds DEF a
  <2> QED BY <2>4, <2>5
<1>3. CASE result # "ok" /\ find_library(ident) # {}
  <2> DEFINE k == Min(find_library(ident))
             r == libraries[k].module
  <2>1. a = Found(r)
    BY <1>3 DEF found_module
  <2>2. LibrariesRoot
    BY DEF Ready, PInv
  <2>3. find_library(ident) \subseteq DOMAIN libraries /\ DOMAIN libraries \subseteq Nat
    BY <2>2 DEF find_library, LibrariesRoot
  <2>4. k \in DOMAIN libraries
    BY <1>3, <2>3, Least
  <2>5. r \in Mods /\ ParentOf(r) = NoModule
    BY <2>2, <2>4 DEF LibrariesRoot, ParentOf
  <2> HIDE DEF r, a
  <2>6. Allowed(V, r)
    BY <2>5, RootAllowed
  <2> QED BY <2>1, <2>6, Founds DEF a
<1>4. CASE result # "ok" /\ find_library(ident) = {}
  <2>1. a = Error(result)
    BY <1>4 DEF found_module
  <2> HIDE DEF result, a
  <2> QED BY <1>4, <2>1, Errors DEF a
<1> QED BY <1>2, <1>3, <1>4

LEMMA Heres ==
  ASSUME NEW V, NEW a, NEW b, AnswerOK(V, a),
         a.error = "ok" => Allowed(V, a.module) /\ (b => a.module \in V)
  PROVE  HereOK(V, [answer |-> a, in_root |-> b])
BY DEF HereOK

\* One name further.
LEMMA NextModule ==
  ASSUME Ready, NEW V, View(V), NEW aliased, AliasesOK(V, aliased),
         NEW origin, NEW h, HereOK(V, h), NEW ident
  PROVE  HereOK(V, next_module(origin, h, ident, aliased))
<1> DEFINE x == h.answer.module
           parent == get_module(x).parent
           inner == found_module(origin, x, ident, h.in_root, aliased)
           g == next_module(origin, h, ident, aliased)
<1>1. CASE h.answer.error # "ok"
  <2>1. g = h
    BY <1>1 DEF next_module
  <2> QED BY <2>1
<1>2. CASE h.answer.error = "ok" /\ ident = "super" /\ parent = NoModule
  <2>1. g = [h EXCEPT !.answer = Error("root_super")]
    BY <1>2 DEF next_module, outside
  <2>2. g = [answer |-> Error("root_super"), in_root |-> h.in_root]
    BY <2>1 DEF HereOK
  <2>3. AnswerOK(V, Error("root_super")) /\ Error("root_super").error # "ok"
    BY Errors
  <2>4. HereOK(V, [answer |-> Error("root_super"), in_root |-> h.in_root])
    BY <2>3, Heres
  <2> QED BY <2>2, <2>4
<1>3. CASE h.answer.error = "ok" /\ ident = "super" /\ parent # NoModule
  <2>1. g = [h EXCEPT !.answer = Found(parent)]
    BY <1>3 DEF next_module, outside
  <2>2. g = [answer |-> Found(parent), in_root |-> h.in_root]
    BY <2>1 DEF HereOK
  <2>3. parent = ParentOf(x)
    BY DEF ParentOf
  <2>4. Allowed(V, x) /\ (h.in_root => x \in V)
    BY <1>3 DEF HereOK
  <2> HIDE DEF g, parent, x
  <2>5. Allowed(V, parent)
    BY <1>3, <2>3, <2>4, ParentAllowed
  <2>6. h.in_root => parent \in V
    BY <1>3, <2>3, <2>4 DEF View, Upward
  <2>7. AnswerOK(V, Found(parent)) /\ Found(parent).module = parent
    BY <2>5, Founds
  <2>8. HereOK(V, [answer |-> Found(parent), in_root |-> h.in_root])
    BY <2>5, <2>6, <2>7, Heres
  <2> QED BY <2>2, <2>8 DEF g
<1>4. CASE h.answer.error = "ok" /\ ident # "super"
  <2> DEFINE e == IF inner = Found(NoModule) THEN Error("panic") ELSE inner
  <2>1. g = [answer |-> e, in_root |-> FALSE]
    BY <1>4 DEF next_module, entered, in_root_after
  <2>2. Allowed(V, x) /\ (h.in_root => x \in V)
    BY <1>4 DEF HereOK
  <2>3. AnswerOK(V, inner)
    <3> HIDE DEF x
    <3> QED BY <2>2, FoundModule
  <2> HIDE DEF inner, g
  <2>4. AnswerOK(V, e) /\ (e.error = "ok" => Allowed(V, e.module))
    <3>1. CASE inner = Found(NoModule)
      BY <3>1, Errors
    <3>2. CASE inner # Found(NoModule)
      BY <2>3, <3>2 DEF AnswerOK
    <3> QED BY <3>1, <3>2
  <2> HIDE DEF e
  <2>5. HereOK(V, [answer |-> e, in_root |-> FALSE])
    BY <2>4, Heres
  <2> QED BY <2>1, <2>5 DEF g
<1> QED BY <1>1, <1>2, <1>3, <1>4

\* The loop, up to any of the names.
LEMMA ReachedIs ==
  ASSUME NEW origin, NEW path \in Seq(Names), path # <<>>, NEW aliased
  PROVE  LET r == reached(origin, path, aliased)
         IN /\ Len(path) - 1 \in Nat
            /\ r[0] = [answer |-> Found(origin), in_root |-> TRUE]
            /\ \A k \in 1..(Len(path) - 1) : r[k] = next_module(origin, r[k - 1], path[k], aliased)
<1> DEFINE n == Len(path) - 1
           first == [answer |-> Found(origin), in_root |-> TRUE]
           Up(f, m) == f = [k \in 0..m |-> IF k = 0 THEN first
                                           ELSE next_module(origin, f[k - 1], path[k], aliased)]
           T == { m \in 0..n : \E f : Up(f, m) }
           Is(f) == f = [k \in 0..(Len(path) - 1) |->
                           IF k = 0 THEN [answer |-> Found(origin), in_root |-> TRUE]
                           ELSE next_module(origin, f[k - 1], path[k], aliased)]
           r == reached(origin, path, aliased)
<1>1. n \in Nat
  <2>1. Len(path) \in Nat /\ Len(path) # 0
    BY EmptySeq, LenProperties
  <2> QED BY <2>1
<1>2. 0 \in T
  <2> DEFINE f == [k \in 0..0 |-> first]
  <2>1. f = [k \in 0..0 |-> IF k = 0 THEN first ELSE next_module(origin, f[k - 1], path[k], aliased)]
    OBVIOUS
  <2>2. Up(f, 0)
    BY <2>1
  <2>3. 0 \in 0..n
    BY <1>1
  <2> QED BY <2>2, <2>3
<1>3. ASSUME NEW m \in 1..n, m - 1 \in T
      PROVE  m \in T
  <2>1. PICK f : Up(f, m - 1)
    BY <1>3
  <2> DEFINE g == [k \in 0..m |-> IF k = m THEN next_module(origin, f[m - 1], path[m], aliased) ELSE f[k]]
  <2>2. \A k \in 0..(m - 1) : f[k] = IF k = 0 THEN first ELSE next_module(origin, f[k - 1], path[k], aliased)
    BY <2>1
  <2>3. ASSUME NEW k \in 0..m
        PROVE  g[k] = IF k = 0 THEN first ELSE next_module(origin, g[k - 1], path[k], aliased)
    <3>1. CASE k = m
      <4>1. k # 0 /\ m - 1 \in 0..m /\ m - 1 # m
        BY <3>1
      <4> QED BY <3>1, <4>1
    <3>2. CASE k # m
      <4>1. k \in 0..(m - 1) /\ (k # 0 => k - 1 \in 0..m /\ k - 1 # m)
        BY <3>2
      <4> QED BY <2>2, <3>2, <4>1
    <3> QED BY <3>1, <3>2
  <2>4. g = [k \in 0..m |-> g[k]]
    OBVIOUS
  <2> HIDE DEF g
  <2>5. Up(g, m)
    BY <2>3, <2>4
  <2>6. m \in 0..n
    BY <1>1
  <2> QED BY <2>5, <2>6
<1>4. n \in T
  <2>1. n \in 0..n
    BY <1>1
  <2> HIDE DEF T, n
  <2> QED BY <1>1, <1>2, <1>3, <2>1, UpTo
<1>5. \E f : Is(f)
  BY <1>4
<1>6. Is(r)
  BY <1>5, Zenon DEF reached
<1> HIDE DEF r
<1>7. r[0] = first /\ \A k \in 1..n : r[k] = next_module(origin, r[k - 1], path[k], aliased)
  <2>1. 0 \in 0..(Len(path) - 1) /\ \A k \in 1..n : k \in 0..(Len(path) - 1) /\ k # 0
    BY <1>1
  <2> QED BY <1>6, <2>1
<1> QED BY <1>1, <1>7 DEF r

LEMMA Reached ==
  ASSUME Ready, NEW V, View(V), NEW aliased, AliasesOK(V, aliased),
         NEW origin \in V, NEW path \in Seq(Names), path # <<>>
  PROVE  HereOK(V, reached(origin, path, aliased)[Len(path) - 1])
<1> DEFINE n == Len(path) - 1
           first == [answer |-> Found(origin), in_root |-> TRUE]
           r == reached(origin, path, aliased)
           U == { k \in 0..n : HereOK(V, r[k]) }
<1>1. n \in Nat
  BY ReachedIs
<1>7. r[0] = first /\ \A k \in 1..n : r[k] = next_module(origin, r[k - 1], path[k], aliased)
  BY ReachedIs
<1> HIDE DEF r
<1>8. 0 \in U
  <2>1. Allowed(V, origin)
    BY ViewAllows
  <2>2. AnswerOK(V, Found(origin)) /\ Found(origin).module = origin
    BY <2>1, Founds
  <2>3. HereOK(V, first)
    BY <2>1, <2>2, Heres
  <2> QED BY <1>1, <1>7, <2>3
<1>9. ASSUME NEW k \in 1..n, k - 1 \in U
      PROVE  k \in U
  <2> DEFINE h == r[k - 1]
             ident == path[k]
  <2>1. HereOK(V, h) /\ r[k] = next_module(origin, h, ident, aliased) /\ k \in 0..n
    BY <1>1, <1>7, <1>9
  <2> HIDE DEF h, ident
  <2>2. HereOK(V, next_module(origin, h, ident, aliased))
    BY <2>1, NextModule
  <2> QED BY <2>1, <2>2
<1>10. 0..n \subseteq U
  <2> HIDE DEF U, n
  <2> QED BY <1>1, <1>8, <1>9, UpTo
<1>11. n \in 0..n
  BY <1>1
<1> QED BY <1>10, <1>11 DEF r

LEMMA Walked ==
  ASSUME Ready, NEW V, View(V), NEW aliased, AliasesOK(V, aliased),
         NEW origin \in V, NEW path \in Seq(Names), path # <<>>, NEW is_module \in BOOLEAN
  PROVE  LET a == walk_path(origin, path, is_module, aliased)
         IN AnswerOK(V, a) /\ (~is_module /\ a.error = "ok" => Allowed(V, a.module))
<1> DEFINE h == reached(origin, path, aliased)[Len(path) - 1]
           x == h.answer.module
           ident == path[Len(path)]
           a == walk_path(origin, path, is_module, aliased)
<1>1. HereOK(V, h)
  BY Reached
<1>2. AnswerOK(V, h.answer)
      /\ (h.answer.error = "ok" => Allowed(V, x) /\ (h.in_root => x \in V))
  BY <1>1 DEF HereOK
<1>3. CASE h.answer.error # "ok" \/ ~is_module
  <2>1. a = h.answer
    BY <1>3 DEF walk_path, last_module
  <2> QED BY <1>2, <1>3, <2>1
<1>4. CASE h.answer.error = "ok" /\ is_module /\ ident = "super"
  <2>1. a = Found(ParentOf(x))
    BY <1>4 DEF walk_path, last_module, ParentOf
  <2>2. Allowed(V, x)
    BY <1>2, <1>4
  <2> HIDE DEF x, a
  <2>3. ParentOf(x) = NoModule \/ Allowed(V, ParentOf(x))
    BY <2>2, ParentAllowed
  <2>4. AnswerOK(V, Found(ParentOf(x)))
    BY <2>3, Founds
  <2> QED BY <1>4, <2>1, <2>4 DEF a
<1>5. CASE h.answer.error = "ok" /\ is_module /\ ident # "super"
  <2>1. a = found_module(origin, x, ident, h.in_root, aliased)
    BY <1>5 DEF walk_path, last_module
  <2>2. Allowed(V, x) /\ (h.in_root => x \in V)
    BY <1>2, <1>5
  <2> HIDE DEF x, a, h, ident
  <2>3. AnswerOK(V, found_module(origin, x, ident, h.in_root, aliased))
    BY <2>2, FoundModule
  <2> QED BY <1>5, <2>1, <2>3 DEF a
<1> QED BY <1>3, <1>4, <1>5

-----------------------------------------------------------------------------
(***************************************************************************)
(* The paths of aliases, from the last depth down: resolve_alias is        *)
(* defined, and its answers are what they have to be.                      *)
(***************************************************************************)
Limit == PATH_RESOLUTION_RECURSION_LIMIT
Called(depth, aliased) ==
  [origin \in Nat |-> [path \in Seq(Names) |-> resolve_path(origin, path, TRUE, depth, aliased)]]

LEMMA Resolves ==
  \A d \in 0..Limit : resolve_alias[d] = Called(d, resolve_alias[d + 1])
<1> DEFINE n == Limit
           Deepest == [origin \in Nat |-> [path \in Seq(Names) |-> Error("recursion_limit")]]
           Down(f, m) == f = [d \in (n - m)..n |-> IF d = n THEN Deepest ELSE Called(d, f[d + 1])]
           T == { m \in 0..n : \E f : Down(f, m) }
           Is(f) == f = [depth \in 0..PATH_RESOLUTION_RECURSION_LIMIT |->
                           [origin \in Nat |-> [path \in Seq(Names) |->
                              resolve_path(origin, path, TRUE, depth, f[depth + 1])]]]
<1>1. n \in Nat
  BY LimitAssumption DEF Limit
<1>2. \A x : Called(n, x) = Deepest
  <2>1. TooDeep(n)
    BY <1>1 DEF TooDeep, Limit
  <2> QED BY <2>1 DEF Called, resolve_path
<1> HIDE DEF Deepest
<1>3. 0 \in T
  <2> DEFINE f == [d \in n..n |-> Deepest]
  <2>1. n - 0 = n /\ 0 \in 0..n
    BY <1>1
  <2>2. f = [d \in n..n |-> IF d = n THEN Deepest ELSE Called(d, f[d + 1])]
    BY <1>1
  <2>3. Down(f, 0)
    BY <2>1, <2>2
  <2> QED BY <2>1, <2>3
<1>4. ASSUME NEW m \in 1..n, m - 1 \in T
      PROVE  m \in T
  <2>1. PICK f : Down(f, m - 1)
    BY <1>4
  <2> DEFINE b == n - m
             first == Called(b, f[b + 1])
             g == [d \in b..n |-> IF d = b THEN first ELSE f[d]]
  <2>2. b \in 0..(n - 1) /\ n - (m - 1) = b + 1 /\ m \in 0..n
    BY <1>1
  <2>3. \A d \in (b + 1)..n : f[d] = IF d = n THEN Deepest ELSE Called(d, f[d + 1])
    BY <2>1, <2>2
  <2> HIDE DEF b
  <2>4. \A d \in b..n : g[d] = IF d = b THEN first ELSE f[d]
    OBVIOUS
  <2>5. g = [d \in b..n |-> g[d]]
    OBVIOUS
  <2> HIDE DEF g
  <2>6. ASSUME NEW d \in b..n
        PROVE  g[d] = IF d = n THEN Deepest ELSE Called(d, g[d + 1])
    <3>1. CASE d = b
      <4>1. d # n /\ b + 1 \in b..n /\ b + 1 # b
        BY <1>1, <2>2, <3>1
      <4>2. g[b + 1] = f[b + 1]
        BY <2>4, <4>1
      <4>3. g[b] = first
        BY <2>4, <3>1
      <4> QED BY <3>1, <4>1, <4>2, <4>3
    <3>2. CASE d # b
      <4>1. n \in Nat /\ b \in Nat /\ d \in b..n
        BY <1>1, <2>2
      <4> HIDE DEF n
      <4>2. d \in (b + 1)..n /\ (d # n => d + 1 \in b..n /\ d + 1 # b)
        BY <3>2, <4>1
      <4>3. d # n => g[d + 1] = f[d + 1]
        BY <2>4, <4>2
      <4>4. g[d] = f[d]
        BY <2>4, <3>2
      <4> QED BY <2>3, <4>2, <4>3, <4>4
    <3> QED BY <3>1, <3>2
  <2>7. [d \in b..n |-> g[d]] = [d \in b..n |-> IF d = n THEN Deepest ELSE Called(d, g[d + 1])]
    BY <2>6
  <2>8. Down(g, m)
    BY <2>5, <2>7 DEF b
  <2> QED BY <2>2, <2>8
<1>5. n \in T
  <2>1. n \in 0..n
    BY <1>1
  <2> HIDE DEF T, n
  <2> QED BY <1>1, <1>3, <1>4, <2>1, UpTo
<1>6. \E f : Is(f)
  <2>1. PICK f : Down(f, n)
    BY <1>5
  <2>2. n - n = 0
    BY <1>1
  <2>3. f = [d \in 0..n |-> IF d = n THEN Deepest ELSE Called(d, f[d + 1])]
    BY <2>1, <2>2
  <2>4. \A d \in 0..n : (IF d = n THEN Deepest ELSE Called(d, f[d + 1])) = Called(d, f[d + 1])
    BY <1>2
  <2>5. f = [d \in 0..n |-> Called(d, f[d + 1])]
    BY <2>3, <2>4
  <2>6. Is(f)
    BY <2>5 DEF Called, Limit
  <2> QED BY <2>6
<1>7. Is(resolve_alias)
  BY <1>6, Zenon DEF resolve_alias
<1> QED BY <1>7 DEF Called, Limit

LEMMA AliasesAnswer ==
  ASSUME Ready, NEW V, View(V)
  PROVE  AliasesOK(V, resolve_alias[1])
<1> DEFINE n == Limit
           T == { m \in 0..n : AliasesOK(V, resolve_alias[n - m]) }
<1>1. n \in Nat /\ 1 \in 0..n
  BY LimitAssumption DEF Limit
<1>2. V \subseteq Nat
  BY ReadyTyped, Parents DEF View
<1>3. ASSUME NEW d \in 0..n, NEW o \in V, NEW path \in Seq(Names)
      PROVE  resolve_alias[d][o][path] = resolve_path(o, path, TRUE, d, resolve_alias[d + 1])
  <2> DEFINE x == resolve_alias[d + 1]
             g == [p \in Seq(Names) |-> resolve_path(o, p, TRUE, d, x)]
  <2>1. o \in Nat /\ resolve_alias[d] = Called(d, x)
    BY <1>2, Resolves
  <2> HIDE DEF x
  <2>2. Called(d, x)[o] = g
    BY <2>1 DEF Called
  <2>3. g[path] = resolve_path(o, path, TRUE, d, x)
    OBVIOUS
  <2> QED BY <2>1, <2>2, <2>3 DEF x
<1>4. ASSUME NEW d \in 0..n, d = n \/ AliasesOK(V, resolve_alias[d + 1])
      PROVE  AliasesOK(V, resolve_alias[d])
  <2> SUFFICES ASSUME NEW o \in V, NEW path \in Seq(Names), path # <<>>
               PROVE  AnswerOK(V, resolve_path(o, path, TRUE, d, resolve_alias[d + 1]))
    BY <1>3 DEF AliasesOK
  <2> DEFINE aliased == resolve_alias[d + 1]
  <2>1. CASE TooDeep(d)
    BY <2>1, Errors DEF resolve_path
  <2>2. CASE ~TooDeep(d)
    <3>1. d # n
      BY <1>1, <2>2 DEF TooDeep, Limit
    <3>2. AliasesOK(V, aliased)
      BY <1>4, <3>1
    <3>3. resolve_path(o, path, TRUE, d, aliased) = walk_path(o, path, TRUE, aliased)
      BY <2>2 DEF resolve_path
    <3> HIDE DEF aliased
    <3>4. AnswerOK(V, walk_path(o, path, TRUE, aliased))
      BY <3>2, Walked
    <3> QED BY <3>3, <3>4 DEF aliased
  <2> QED BY <2>1, <2>2
<1>5. 0 \in T
  <2>1. n - 0 = n /\ n \in 0..n /\ 0 \in 0..n
    BY <1>1
  <2> QED BY <1>4, <2>1
<1>6. ASSUME NEW m \in 1..n, m - 1 \in T
      PROVE  m \in T
  <2>1. n - m \in 0..n /\ n - m + 1 = n - (m - 1) /\ m \in 0..n
    BY <1>1
  <2> QED BY <1>4, <1>6, <2>1
<1>7. n - 1 \in T
  <2>1. n - 1 \in 0..n
    BY <1>1
  <2> HIDE DEF T, n
  <2>2. 0..n \subseteq T
    BY <1>1, <1>5, <1>6, UpTo
  <2> QED BY <2>1, <2>2
<1>8. n - (n - 1) = 1
  BY <1>1
<1> QED BY <1>7, <1>8

LEMMA PrivacyImplied == PInv => PrivacyKept
<1> SUFFICES ASSUME Ready, NEW m \in 0..(Count - 1), NEW path \in Queries,
                    resolve_global_path(m, path).error = "ok"
             PROVE  LET a == resolve_global_path(m, path)
                    IN /\ a.module \in 0..(Count - 1)
                       /\ \A module \in Above(a.module) :
                            IsPrivate(module) => get_module(module).parent \in LooksInto(m)
  BY DEF PrivacyKept, Ready
<1> DEFINE V == LooksInto(m)
           a == resolve_global_path(m, path)
           r == get_module_index_for(m, path)
<1>1. path \in Seq(Names) /\ path # <<>>
  BY QueriesAssumption
<1>2. View(V) /\ m \in V
  BY LooksIntoView DEF Mods
<1>3. AliasesOK(V, resolve_alias[1])
  <2> HIDE DEF V
  <2> QED BY <1>2, AliasesAnswer
<1>4. a = IF r.error # "ok" THEN r
          ELSE find_global_in(r.module, path[Len(path)], search_private(m, r.module))
  BY DEF resolve_global_path, global_at
<1>5. r.error = "ok" /\ a = Found(r.module)
  <2>1. r.error = "ok"
    BY <1>4
  <2>2. \A x, ident, b : find_global_in(x, ident, b).error = "ok" => find_global_in(x, ident, b) = Found(x)
    BY DEF find_global_in, Error
  <2> QED BY <1>4, <2>1, <2>2
<1>6. r = IF TooDeep(0) THEN Error("recursion_limit") ELSE walk_path(m, path, FALSE, resolve_alias[1])
  BY DEF get_module_index_for, resolve_path
<1> HIDE DEF V, a, r
<1>7. r = walk_path(m, path, FALSE, resolve_alias[1])
  <2>1. Error("recursion_limit").error # "ok"
    BY Errors
  <2> QED BY <1>5, <1>6, <2>1
<1>8. Allowed(V, r.module)
  BY <1>1, <1>2, <1>3, <1>5, <1>7, Walked
<1>9. a.module = r.module
  BY <1>5 DEF Found
<1>10. r.module \in 0..(Count - 1)
       /\ \A y \in Above(r.module) : IsPrivate(y) => get_module(y).parent \in V
  BY <1>8 DEF Allowed, Mods, ParentOf
<1> QED BY <1>9, <1>10 DEF V, a

\* Whatever the program and the paths, under the same two conditions: a path leads to a
\* module of the table, and to a private one only from inside the module that declares
\* it, or by way of an alias that is declared there.
THEOREM PrivateStaysPrivate == RSpec => []PrivacyKept
<1>1. RInit => PInv
  BY PInvInit DEF RInit
<1>2. PInv /\ [RNext]_rvars => PInv'
  <2> SUFFICES ASSUME PInv, [RNext]_rvars PROVE PInv'
    OBVIOUS
  <2>1. [Next]_vars
    BY DEF RNext, rvars, Refer, Dequeue
  <2> QED BY <2>1, PInvStep
<1>3. PInv => PrivacyKept
  BY PrivacyImplied
<1> QED BY <1>1, <1>2, <1>3, PTL DEF RSpec

=============================================================================
