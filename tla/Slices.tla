------------------------------- MODULE Slices -------------------------------
(***************************************************************************)
(* slice_functions.c: arrays, slices of arrays, and the functions std has  *)
(* for them, which take their arguments from the stack of the machine.     *)
(*                                                                         *)
(* An array is its bytes, [type, val_type, len, bytes]; a slice is a part  *)
(* of an array, [type, array, start, len].  Nothing writes to an array     *)
(* once it is made, so that a value holds its array itself.  Integers have *)
(* IntSize bytes, and so have lengths, starts and sizes in bytes, which    *)
(* are unsigned: the size of a new array wraps.  What a call does that     *)
(* reads or writes outside the memory of its arrays is undefined.          *)
(***************************************************************************)
EXTENDS Integers, Sequences

CONSTANTS
  IntSize,     \* sizeof(i32), 4
  ByteBase,    \* the values of a byte, 256
  Constants,   \* the values in the constant pool of the program
  MaxLen,      \* bound: the longest array that is made
  MaxStack     \* bound: the values on the stack

Word == ByteBase^IntSize

ASSUME SizesAssumption ==
  /\ IntSize \in Nat \ {0} /\ ByteBase \in Nat \ {0, 1}
  /\ Word \in Nat /\ IntSize < Word /\ MaxLen \in Nat /\ MaxStack \in Nat

Bytes == 0..(ByteBase - 1)
ValueTypes == {"UNIT", "INT", "CHAR", "BOOL"}
ArrayTypes == {"INT", "CHAR", "BOOL"}

\* Conversions between i32 and u32.
u32(i) == i % Word
i32(n) == IF n < Word \div 2 THEN n ELSE n - Word
I32 == { i32(n) : n \in 0..(Word - 1) }

val_type_size(type) == IF type = "INT" THEN IntSize ELSE 1

Box(val_type, val) == [type |-> "BOX", val_type |-> val_type, val |-> val]
Array(val_type, len, bytes) == [type |-> "ARRAY", val_type |-> val_type, len |-> len, bytes |-> bytes]
Slice(array, start, len) == [type |-> "SLICE", array |-> array, start |-> start, len |-> len]
Fault(kind) == [type |-> kind]    \* a runtime error, a panic, or what is undefined
Error == Fault("error")
Undefined == Fault("undefined")
IsFault(val) == val.type \in {"error", "panic", "undefined"}

-----------------------------------------------------------------------------
\* The bytes of a value, and the value of an element.
int_bytes == [i \in I32 |-> [k \in 1..IntSize |-> (u32(i) \div ByteBase^(k - 1)) % ByteBase]]
bytes_of(val_type, val) == IF val_type = "INT" THEN int_bytes[val] ELSE <<val>>
\* Any bytes are those of one integer.
ASSUME BytesAssumption ==
  /\ \A k \in 0..IntSize : ByteBase^k \in Nat \ {0}
  /\ \A bytes \in [1..IntSize -> Bytes] : \E i \in I32 : int_bytes[i] = bytes
  /\ \A i, j \in I32 : int_bytes[i] = int_bytes[j] => i = j

\* Mutant: an integer that is read back is not negative.
integer_Unsigned(bytes) == CHOOSE n \in 0..(Word - 1) : int_bytes[i32(n)] = bytes
integer(bytes) == CHOOSE i \in I32 : int_bytes[i] = bytes
element(array, i) ==
  IF array.val_type = "INT" THEN integer([k \in 1..IntSize |-> array.bytes[i * IntSize + k]])
  ELSE array.bytes[i + 1]

IsList(val) == val.type \in {"ARRAY", "SLICE"}
get_slice_info(val) == IF val.type = "ARRAY" THEN Slice(val, 0, val.len) ELSE val

\* The size of n elements in bytes: a u32, of the memory of a new array (object.c) and
\* of what is copied to it.
byte_count(n, size) == u32(n * size)
\* n bytes from a place on are bytes of the array.
Holds(array, at, n) == \A i \in 1..n : at + i \in DOMAIN array.bytes
\* What is copied of a slice to a new array.
Copyable(slice, size) == Holds(slice.array, byte_count(slice.start, size), byte_count(slice.len, size))
Copied(slice, size) ==
  [i \in 1..byte_count(slice.len, size) |-> slice.array.bytes[byte_count(slice.start, size) + i]]

\* The bytes of a slice, as they are compared: their sizes do not wrap.
slice_bytes(slice) ==
  LET size == val_type_size(slice.array.val_type)
  IN [i \in 1..(slice.len * size) |-> slice.array.bytes[slice.start * size + i]]

IsIndex(val) == val.type = "BOX" /\ val.val_type = "INT"

slice_empty == Array("INT", 0, <<>>)

\* Mutant: what is dropped is not taken from the length.
slice_drop_Length(index, val) ==
  LET slice == get_slice_info(val)
      n == u32(index.val)
  IN CASE ~IsIndex(index) -> Error
       [] IsIndex(index) /\ index.val = 0 -> val
       [] OTHER ->
            IF ~IsList(val) THEN Error
            ELSE Slice(slice.array, (slice.start + n) % Word, IF slice.len <= n THEN 0 ELSE slice.len)
slice_drop(index, val) ==
  LET slice == get_slice_info(val)
      n == u32(index.val)
  IN CASE ~IsIndex(index) -> Error
       [] IsIndex(index) /\ index.val = 0 -> val
       [] OTHER ->
            IF ~IsList(val) THEN Error
            ELSE Slice(slice.array, (slice.start + n) % Word, IF slice.len <= n THEN 0 ELSE slice.len - n)

\* Mutant: take starts at the array.
slice_take_Array(index, val) ==
  LET slice == get_slice_info(val)
      n == u32(index.val)
  IN CASE ~IsIndex(index) -> Error
       [] IsIndex(index) /\ index.val = 0 -> val
       [] OTHER ->
            IF ~IsList(val) THEN Error ELSE Slice(slice.array, 0, IF slice.len <= n THEN slice.len ELSE n)
slice_take(index, val) ==
  LET slice == get_slice_info(val)
      n == u32(index.val)
  IN CASE ~IsIndex(index) -> Error
       [] IsIndex(index) /\ index.val = 0 -> val
       [] OTHER ->
            IF ~IsList(val) THEN Error
            ELSE Slice(slice.array, slice.start, IF slice.len <= n THEN slice.len ELSE n)

slice_index(index, val) ==
  LET slice == get_slice_info(val)
      n == u32(index.val)
      read_index == (slice.start + n) % Word
      size == val_type_size(slice.array.val_type)
  IN IF \/ ~IsIndex(index) \/ ~IsList(val)
        \/ val.type = "SLICE" /\ slice.len <= n
        \/ read_index >= slice.array.len
     THEN Error
     ELSE IF Holds(slice.array, read_index * size, size)
     THEN Box(slice.array.val_type, element(slice.array, read_index))
     ELSE Undefined

slice_len(val) == IF IsList(val) THEN Box("INT", i32(val.len)) ELSE Error

slice_join(l_val, r_val) ==
  LET l == get_slice_info(l_val)
      r == get_slice_info(r_val)
      size == val_type_size(l.array.val_type)
      len == u32(l.len + r.len)
  IN CASE ~IsList(l_val) \/ ~IsList(r_val) -> Error
       [] IsList(l_val) /\ IsList(r_val) /\ l.len = 0 -> r_val
       [] IsList(l_val) /\ IsList(r_val) /\ l.len # 0 /\ r.len = 0 -> l_val
       [] OTHER ->
            IF l.array.val_type # r.array.val_type THEN Error
            ELSE IF /\ Copyable(l, size) /\ Copyable(r, size)
                    /\ byte_count(l.len, size) + byte_count(r.len, size) <= byte_count(len, size)
            THEN Array(l.array.val_type, len, Copied(l, size) \o Copied(r, size))
            ELSE Undefined

\* What cons and push check; the value and the slice are fit for the array when it
\* is not a fault.
Fitting(push, slice_val) ==
  LET slice == get_slice_info(slice_val)
  IN CASE push.type # "BOX" \/ ~IsList(slice_val) -> Error
       [] push.type = "BOX" /\ IsList(slice_val) /\ slice.len > 0 /\ slice.array.val_type # push.val_type -> Error
       [] OTHER -> IF push.val_type = "UNIT" THEN Fault("panic") ELSE slice

\* The elements of the slice are copied behind the first byte of the new array,
\* whatever the size of the value in front: fresh is what was in the new memory.
\* Mutant: they are copied to the start of it.
slice_cons_Over(push, slice_val, fresh) ==
  LET slice == Fitting(push, slice_val)
      size == val_type_size(push.val_type)
      len == u32(slice.len + 1)
      room == byte_count(len, size)
      copied == byte_count(slice.len, size)
  IN IF IsFault(slice) THEN slice
     ELSE IF size <= room /\ copied <= room /\ Copyable(slice, size)
     THEN Array(push.val_type, len,
            [i \in 1..room |->
               IF i <= copied THEN Copied(slice, size)[i] ELSE bytes_of(push.val_type, push.val)[1]])
     ELSE Undefined
slice_cons(push, slice_val, fresh) ==
  LET slice == Fitting(push, slice_val)
      size == val_type_size(push.val_type)
      first == bytes_of(push.val_type, push.val)
      len == u32(slice.len + 1)
      room == byte_count(len, size)
      copied == byte_count(slice.len, size)
  IN IF IsFault(slice) THEN slice
     ELSE IF size <= room /\ copied + 1 <= room /\ Copyable(slice, size)
     THEN Array(push.val_type, len,
            [i \in 1..room |->
               CASE 1 < i /\ i <= copied + 1 -> Copied(slice, size)[i - 1]
                 [] ~(1 < i /\ i <= copied + 1) /\ i <= size -> first[i]
                 [] OTHER -> fresh[room - i + 1]])
     ELSE Undefined

\* The value is written behind the elements, at a place that does not wrap.
slice_push(slice_val, push) ==
  LET slice == Fitting(push, slice_val)
      size == val_type_size(push.val_type)
      len == u32(slice.len + 1)
  IN IF IsFault(slice) THEN slice
     ELSE IF slice.len * size + size <= byte_count(len, size) /\ Copyable(slice, size)
     THEN Array(push.val_type, len, Copied(slice, size) \o bytes_of(push.val_type, push.val))
     ELSE Undefined

slice_equal(l, r) ==
  LET a == get_slice_info(l)
      b == get_slice_info(r)
  IN /\ a.array.val_type = b.array.val_type /\ a.len = b.len
     /\ a.len > 0 => slice_bytes(a) = slice_bytes(b)
\* The elements that are compared.
Comparable(l, r) ==
  LET a == get_slice_info(l)
      b == get_slice_info(r)
      size == val_type_size(a.array.val_type)
  IN a.array.val_type = b.array.val_type /\ a.len = b.len =>
       Holds(a.array, a.start * size, a.len * size) /\ Holds(b.array, b.start * size, b.len * size)
\* OP_EQUAL for arguments that are not both boxes.
equal(l, r) ==
  IF ~IsList(l) \/ ~IsList(r) THEN Error
  ELSE IF Comparable(l, r) THEN Box("BOOL", IF slice_equal(l, r) THEN 1 ELSE 0)
  ELSE Undefined

-----------------------------------------------------------------------------
VARIABLES
  stack,     \* the values on the stack of the machine; the last is its top
  status     \* "running", "error", "panic" or "undefined"

vars == <<stack, status>>

Init == stack = <<>> /\ status = "running"

Top(n) == stack[Len(stack) + 1 - n]
Popped(n) == SubSeq(stack, 1, Len(stack) - n)
\* A function takes n arguments from the stack and pushes its result, or the machine
\* stops.  Some stop before they took all of them, but then the stack is not used again.
\* A call that is undefined is not known to return: the stack keeps its arguments.
Returns(n, result) ==
  /\ status = "running" /\ Len(stack) >= n
  /\ stack' = CASE result.type = "undefined" -> stack
                [] IsFault(result) /\ result.type # "undefined" -> Popped(n)
                [] OTHER -> Append(Popped(n), result)
  /\ status' = IF IsFault(result) THEN result.type ELSE "running"
Fits(len) == len <= MaxLen
Short(val, more) == IsList(val) => Fits(val.len + more)

PushConst(val) == Len(stack) < MaxStack /\ Returns(0, val)
SliceEmpty == Len(stack) < MaxStack /\ Returns(0, slice_empty)
SliceDrop == Len(stack) >= 2 /\ Returns(2, slice_drop(Top(1), Top(2)))
SliceTake == Len(stack) >= 2 /\ Returns(2, slice_take(Top(1), Top(2)))
ReadSliceIndex == Len(stack) >= 2 /\ Returns(2, slice_index(Top(1), Top(2)))
SliceLen == Len(stack) >= 1 /\ Returns(1, slice_len(Top(1)))
SliceJoin ==
  /\ Len(stack) >= 2
  /\ IsList(Top(1)) /\ IsList(Top(2)) => Fits(Top(1).len + Top(2).len)
  /\ Returns(2, slice_join(Top(1), Top(2)))
SliceCons ==
  /\ Len(stack) >= 2 /\ Short(Top(2), 1)
  /\ \E fresh \in [1..(IntSize - 1) -> Bytes] : Returns(2, slice_cons(Top(1), Top(2), fresh))
SlicePush == Len(stack) >= 2 /\ Short(Top(1), 1) /\ Returns(2, slice_push(Top(1), Top(2)))
SliceEqual ==
  /\ Len(stack) >= 2 /\ ~(Top(1).type = "BOX" /\ Top(2).type = "BOX")
  /\ Returns(2, equal(Top(1), Top(2)))

Next ==
  \/ \E val \in Constants : PushConst(val)
  \/ SliceEmpty \/ SliceDrop \/ SliceTake \/ ReadSliceIndex \/ SliceLen
  \/ SliceJoin \/ SliceCons \/ SlicePush \/ SliceEqual

Spec == Init /\ [][Next]_vars

-----------------------------------------------------------------------------
IsBox(val) == val = Box(val.val_type, val.val) /\ val.val_type \in ValueTypes
IsArray(val) ==
  /\ val = Array(val.val_type, val.len, val.bytes) /\ val.val_type \in ArrayTypes
  /\ val.len \in 0..MaxLen /\ val.len * val_type_size(val.val_type) < Word
  /\ DOMAIN val.bytes = 1..(val.len * val_type_size(val.val_type))
\* A slice that has elements lies within its array; one that has none may start
\* anywhere.
IsSlice(val) ==
  /\ val = Slice(val.array, val.start, val.len) /\ IsArray(val.array)
  /\ val.start \in 0..(Word - 1) /\ val.len \in Nat
  /\ val.len > 0 => val.start + val.len <= val.array.len
IsValue(val) ==
  \/ val.type = "BOX" /\ IsBox(val)
  \/ val.type = "ARRAY" /\ IsArray(val)
  \/ val.type = "SLICE" /\ IsSlice(val)

\* A list and a list, or a list and a value: together their elements have too many bytes
\* for a u32 to count.
Count(val) == IF IsList(val) THEN val.len ELSE 1
ElementType(val) == IF IsList(val) THEN get_slice_info(val).array.val_type ELSE val.val_type
TooLarge(a, b) == (Count(a) + Count(b)) * val_type_size(ElementType(a)) >= Word

\* Every value on the stack is a box, an array with all the bytes of its elements, or
\* a slice within its array; and no function reads or writes outside the memory of an
\* array, unless the array it makes would have more bytes than the size of an array can
\* say (object.c: the size of the new memory wraps, and is checked nowhere).
InArray ==
  /\ status \in {"running", "error", "panic", "undefined"}
  /\ \A i \in DOMAIN stack : IsValue(stack[i])
  /\ status = "undefined" => Len(stack) >= 2 /\ TooLarge(Top(1), Top(2))

\* The bytes of arrays are bytes, and a box holds an i32 or a byte.
IsTyped(val) ==
  CASE val.type = "BOX" ->
         val.val \in IF val.val_type = "INT" THEN I32 ELSE Bytes
    [] val.type = "ARRAY" -> \A i \in DOMAIN val.bytes : val.bytes[i] \in Bytes
    [] val.type = "SLICE" -> \A i \in DOMAIN val.array.bytes : val.array.bytes[i] \in Bytes
\* The values of the constant pool are such values too.
ASSUME ConstantsAssumption == \A val \in Constants : IsValue(val) /\ IsTyped(val)

TypeOK == \A i \in DOMAIN stack : IsTyped(stack[i])
=============================================================================
