--------------------------- MODULE SlicesAsLists ---------------------------
(***************************************************************************)
(* The values of Slices as the sequences of elements of SliceSpec.         *)
(***************************************************************************)
EXTENDS Slices

\* The length of an array that is made is an i32; longer ones have negative lengths.
ASSUME LengthsAssumption == MaxLen < Word \div 2

\* What a value stands for.
Elements(val) ==
  LET slice == get_slice_info(val)
  IN [i \in 1..slice.len |-> [type |-> slice.array.val_type, val |-> element(slice.array, slice.start + i - 1)]]
Meaning(val) ==
  IF val.type = "BOX" THEN [kind |-> "box", of |-> [type |-> val.val_type, val |-> val.val]]
  ELSE [kind |-> "list", of |-> Elements(val)]

Abstract ==
  INSTANCE SliceSpec WITH
    Pool <- { Meaning(val) : val \in Constants },
    Ints <- I32,
    Width <- [type \in ArrayTypes |-> val_type_size(type)],
    Room <- Word,
    values <- [i \in DOMAIN stack |-> Meaning(stack[i])],
    state <- status

\* The functions over bytes, starts and lengths do what the functions of sequences do
\* in SliceSpec: a slice of a slice of an array is the part it should be, and values that
\* stand for the same elements give the same results (slice_functions.c).  They do so for
\* every list whose bytes a u32 can count, and are undefined for exactly the others.
ImplementsLists == Abstract!SSpec
=============================================================================
