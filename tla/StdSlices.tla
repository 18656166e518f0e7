----------------------------- MODULE StdSlices -----------------------------
(***************************************************************************)
(* The functions of the module slice of std that are written in the        *)
(* language itself (standard_library.c), over the functions of Slices.     *)
(* A predicate is given as the set of elements it holds of.  Evaluation is *)
(* by need: a part that is not needed is not computed, here as there.      *)
(***************************************************************************)
EXTENDS SlicesAsLists, SequencesExt

CONSTANT Predicates   \* the predicates that the properties are about

Int_(i) == Box("INT", i)
in_bound(i, s) == i >= 0 /\ i < slice_len(s).val

\* What unpack calls itself with: s without its first so many elements.
rests(s) ==
  LET rest[n \in 0..slice_len(s).val] == IF n = 0 THEN s ELSE slice_drop(Int_(1), rest[n - 1])
  IN rest

\* A list of the language: conses, ended by unit.
Nil == <<>>
unpacked(s) ==
  LET list[n \in 0..slice_len(s).val] ==
        IF slice_len(rests(s)[n]).val = 0 THEN Nil
        ELSE <<slice_index(Int_(0), rests(s)[n])>> \o list[n + 1]
  IN list
unpack(s) == unpacked(s)[0]

\* foldr cons empty, from so many elements on.
folded(list, fresh) ==
  LET foldr[n \in 0..Len(list)] ==
        IF n = Len(list) THEN slice_empty ELSE slice_cons(list[n + 1], foldr[n + 1], fresh)
  IN foldr
from_list(list, fresh) == folded(list, fresh)[0]

counts_while(p, s) ==
  LET count[i \in 0..slice_len(s).val] ==
        IF in_bound(i, s) /\ slice_index(Int_(i), s) \in p THEN count[i + 1] ELSE i
  IN count
f_while(p, s) == Int_(counts_while(p, s)[0])
drop_while(p, s) == slice_drop(f_while(p, s), s)
take_while(p, s) == slice_take(f_while(p, s), s)

\* The length of what remains when the elements at the end that are in p are left out.
\* Mutant: one more is left out.
counts_back_One(p, s) ==
  LET count[i \in 0..slice_len(s).val] ==
        IF in_bound(i, s) /\ slice_index(Int_(slice_len(s).val - 1 - i), s) \in p THEN count[i + 1]
        ELSE slice_len(s).val - 1 - i
  IN count
counts_back(p, s) ==
  LET count[i \in 0..slice_len(s).val] ==
        IF in_bound(i, s) /\ slice_index(Int_(slice_len(s).val - 1 - i), s) \in p THEN count[i + 1]
        ELSE slice_len(s).val - i
  IN count
drop_while_back(p, s) == slice_take(Int_(counts_back(p, s)[0]), s)

-----------------------------------------------------------------------------
\* The prefixes and suffixes of a sequence whose elements are all in p.
Whole(s, p) == \A i \in DOMAIN s : s[i] \in p
PrefixLength(s, p) == CHOOSE n \in 0..Len(s) : Whole(SubSeq(s, 1, n), p) /\ (n < Len(s) => s[n + 1] \notin p)
SuffixLength(s, p) == PrefixLength(Reverse(s), p)
Boxes(val) == [i \in DOMAIN Elements(val) |-> Box(Elements(val)[i].type, Elements(val)[i].val)]

\* The functions of std that walk over a slice by index leave out the elements they are
\* named for, from any slice of any array.  What is to be taken of a slice must not be
\* empty, since take gives all of it for 0 elements.
WhileFunctions ==
  \A i \in {Len(stack)} \ {0} : IsList(stack[i]) =>
    LET val == stack[i]
        s == Boxes(val)
    IN /\ unpack(val) = s
       /\ \A p \in Predicates :
            LET n == PrefixLength(s, p)
                m == Len(s) - SuffixLength(s, p)
            IN /\ Boxes(drop_while(p, val)) = SubSeq(s, n + 1, Len(s))
               /\ Boxes(take_while(p, val)) = IF n = 0 THEN s ELSE SubSeq(s, 1, n)
               /\ Boxes(drop_while_back(p, val)) = IF m = 0 THEN s ELSE SubSeq(s, 1, m)

\* Making a slice of the list of its elements gives back its elements, when they are of
\* one byte.
ListOfSlice ==
  \A i \in {Len(stack)} \ {0} : IsList(stack[i]) =>
    LET s == unpack(stack[i])
    IN (\A j \in DOMAIN s : s[j].val_type # "INT") =>
         Boxes(from_list(s, [k \in 1..(IntSize - 1) |-> 0])) = s
=============================================================================
