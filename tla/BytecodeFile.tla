---------------------------- MODULE BytecodeFile ----------------------------
(***************************************************************************)
(* bytecode/binary.c, and its callers in compiler.c: a chunk is saved in a *)
(* file and loaded from it.                                                *)
(*                                                                         *)
(* A file is a sequence of cells; a cell is what one field or one element  *)
(* of a list takes in the file.  (A file may end inside a cell: the code   *)
(* compares numbers of bytes, so that is as if the cell were not there.)   *)
(* A chunk is [code, constants, closures, types, strings].  A type is its  *)
(* name, a sequence of characters.                                         *)
(***************************************************************************)
EXTENDS Bytecode, Integers, SequencesExt

HEADER == "header"

\* chunk_write_builtin_types: their names are not characters of a file.
BuiltinTypes == << <<"()">>, <<"int">>, <<"bool">>, <<"char">>, <<"Cons">>, <<"function">>,
                   <<"File">>, <<"Slice">>, <<"type">> >>
BUILTIN_TYPE_COUNT == Len(BuiltinTypes)

-----------------------------------------------------------------------------
(***************************************************************************)
(* Saving.                                                                 *)
(***************************************************************************)
Counted(list) == <<Len(list)>> \o list
\* A type is saved without the pointer to its name; the names follow.
TypeInfo(name) == [name_len |-> Len(name)]
\* The characters of the first k names, one name behind the other.
name_cells(names) ==
  LET upto[k \in 0..Len(names)] == IF k = 0 THEN <<>> ELSE upto[k - 1] \o names[k]
  IN upto
\* Mutant: the names of the types are forgotten.
Types_NoNames(types) ==
  LET created == SubSeq(types, BUILTIN_TYPE_COUNT + 1, Len(types))
  IN <<Len(types)>> \o [i \in DOMAIN created |-> TypeInfo(created[i])]
Types(types) ==
  LET created == SubSeq(types, BUILTIN_TYPE_COUNT + 1, Len(types))
  IN <<Len(types)>> \o [i \in DOMAIN created |-> TypeInfo(created[i])]
       \o name_cells(created)[Len(created)]
Cells(chunk) ==
  <<HEADER>> \o Counted(chunk.code) \o Counted(chunk.constants) \o Counted(chunk.closures)
    \o Types(chunk.types) \o Counted(chunk.strings)

\* The first cells are accepted by fwrite, then it fails.  Writing no strings counts
\* as a failure: fwrite returns the number of elements, and one element of no bytes
\* is none.
write_chunk_to(chunk, accepted) ==
  [file |-> SubSeq(Cells(chunk), 1, accepted),
   ok |-> accepted >= Len(Cells(chunk)) /\ chunk.strings # <<>>]

-----------------------------------------------------------------------------
(***************************************************************************)
(* Loading.  A part that was read is [ok, position, data].                 *)
(***************************************************************************)
Unreadable == [ok |-> FALSE, position |-> 0, data |-> <<>>]
read_cells(file, position, len) ==
  IF position + len > Len(file) THEN Unreadable
  ELSE [ok |-> TRUE, position |-> position + len, data |-> SubSeq(file, position + 1, position + len)]

\* A length, and as many cells behind it less those that are not in the file.
read_list(file, prev, not_saved) ==
  IF ~prev.ok \/ prev.position + 1 > Len(file) THEN Unreadable
  ELSE read_cells(file, prev.position + 1, file[prev.position + 1] - not_saved)

read_name(file, prev, info) ==
  LET name == read_cells(file, prev.position, info.name_len)
  IN IF ~prev.ok \/ ~name.ok THEN Unreadable
     ELSE [ok |-> TRUE, position |-> name.position, data |-> Append(prev.data, name.data)]
\* What was read of the first k names.
names_read(file, infos) ==
  LET upto[k \in 0..Len(infos.data)] ==
        IF k = 0 THEN [infos EXCEPT !.data = <<>>] ELSE read_name(file, upto[k - 1], infos.data[k])
  IN upto
read_names(file, infos) == names_read(file, infos)[Len(infos.data)]

\* Those that every chunk has are passed over.
read_constants(list) ==
  BuiltinConstants \o SubSeq(list.data, Len(BuiltinConstants) + 1, Len(list.data))

WRITE_CHUNK_ERR == [result |-> "WRITE_CHUNK_ERR"]
chunk_of(code, constants, closures, types, strings) ==
  IF ~strings.ok THEN WRITE_CHUNK_ERR
  ELSE [code |-> code.data, constants |-> read_constants(constants), closures |-> closures.data,
        types |-> BuiltinTypes \o types.data, strings |-> strings.data]
from_types(file, code, constants, closures, types) ==
  chunk_of(code, constants, closures, types, read_list(file, types, 0))
from_closures(file, code, constants, closures) ==
  from_types(file, code, constants, closures,
             read_names(file, read_list(file, closures, BUILTIN_TYPE_COUNT)))
from_constants(file, code, constants) == from_closures(file, code, constants, read_list(file, constants, 0))
from_code(file, code) == from_constants(file, code, read_list(file, code, 0))
\* The comparison of the header does not look at the length of the file; a file that
\* is shorter fails at the length of the code.
chunk_from(file) ==
  IF file # <<>> /\ file[1] # HEADER THEN WRITE_CHUNK_ERR
  ELSE from_code(file, read_list(file, read_cells(file, 0, 1), 0))

-----------------------------------------------------------------------------
\* What a chunk is: its lists are lists, and begin with what every chunk has.
IsList(s) == s \in Seq({ s[i] : i \in DOMAIN s })
BeginsWith(s, first) == s = first \o SubSeq(s, Len(first) + 1, Len(s))
WellFormed(chunk) ==
  /\ chunk = [code |-> chunk.code, constants |-> chunk.constants, closures |-> chunk.closures,
              types |-> chunk.types, strings |-> chunk.strings]
  /\ IsList(chunk.code) /\ IsList(chunk.constants) /\ IsList(chunk.closures) /\ IsList(chunk.strings)
  /\ IsList(chunk.types) /\ \A i \in DOMAIN chunk.types : IsList(chunk.types[i])
  /\ BeginsWith(chunk.constants, BuiltinConstants) /\ BeginsWith(chunk.types, BuiltinTypes)

\* A chunk in a file.  What reaches the disk of what fwrite accepted may be less, for
\* nobody looks at the result of closing it.  A file that is not whole is refused, a
\* whole one gives back the chunk, and a chunk reported as saved was written entirely.
Survives(chunk) ==
  LET file == Cells(chunk)
  IN /\ \A written \in 0..Len(file) :
          chunk_from(SubSeq(file, 1, written)) = IF written = Len(file) THEN chunk ELSE WRITE_CHUNK_ERR
     /\ \A accepted \in 0..Len(file) :
          write_chunk_to(chunk, accepted).ok => chunk_from(write_chunk_to(chunk, accepted).file) = chunk
=============================================================================
