---------------------------- MODULE SlicesProofs ----------------------------
(***************************************************************************)
(* What is true of every sequence of calls of slice_functions.c, whatever  *)
(* the width of an integer, the constants of the program and the values on *)
(* the stack: a function reaches outside an array when the one it makes    *)
(* has more bytes than its size can say, and never else (InArray of Slices *)
(* is an invariant), and what they do with bytes, starts and lengths is    *)
(* what the functions of sequences do with the elements (Slices implements *)
(* SliceSpec).                                                             *)
(***************************************************************************)
EXTENDS Slices, SlicesAsLists, StdSlices, SequenceTheorems, DataLemmas, TLAPS

Good(val) == IsValue(val) /\ IsTyped(val)
\* What a function may return, when all that it does is defined.
IsResult(val) == val.type \in {"error", "panic"} \/ Good(val)
\* A call with these arguments that is not defined.
IsBroken(val, l, r) == val = Undefined /\ TooLarge(l, r)
\* A sequence of good values, such as the stack is.
AllGood(s) == \E S : s \in Seq(S) /\ \A val \in S : Good(val)
IInv ==
  /\ AllGood(stack) /\ status \in {"running", "error", "panic", "undefined"}
  /\ status = "undefined" => Len(stack) >= 2 /\ TooLarge(Top(1), Top(2))

-----------------------------------------------------------------------------
(* Arithmetic of sizes and of machine words.                               *)
LEMMA SizeTyped ==
  ASSUME NEW type
  PROVE  val_type_size(type) \in Nat \ {0}
BY SizesAssumption DEF val_type_size

\* There are numbers, and the bytes of a value are fewer.
LEMMA BoundsTyped == Word \in Nat \ {0} /\ MaxLen \in Nat /\ \A type : val_type_size(type) < Word
<1>1. Word \in Nat \ {0} /\ MaxLen \in Nat /\ 1 < Word /\ IntSize < Word
  <2> DEFINE w == Word
  <2>1. w \in Nat /\ MaxLen \in Nat /\ IntSize < w /\ IntSize \in Nat \ {0}
    BY SizesAssumption
  <2> HIDE DEF w
  <2>2. w \in Nat \ {0} /\ 1 < w
    BY <2>1
  <2> QED BY <2>1, <2>2 DEF w
<1> QED BY <1>1 DEF val_type_size

\* A number wraps to one of the machine.
LEMMA Wraps ==
  ASSUME NEW i \in Int
  PROVE  i % Word \in 0..(Word - 1) /\ (i \in 0..(Word - 1) => i % Word = i)
<1>1. Word \in Nat \ {0}
  BY BoundsTyped
<1> HIDE DEF Word
<1> QED BY <1>1

\* What is left of a number.
LEMMA Remainder ==
  ASSUME NEW n \in Nat, NEW w \in Nat \ {0}, n - w \in 0..(w - 1)
  PROVE  n % w = n - w
OBVIOUS

\* Products grow with their factors.
LEMMA TimesMonotone ==
  ASSUME NEW a \in Nat, NEW b \in Nat, NEW n \in Nat, a <= b
  PROVE  a * n \in Nat /\ b * n \in Nat /\ a * n <= b * n
OBVIOUS

\* A product is no smaller than a factor.
LEMMA Grows ==
  ASSUME NEW n \in Nat, NEW size \in Nat \ {0}
  PROVE  n <= n * size
<1>1. 1 * n <= size * n /\ 1 * n = n /\ size * n = n * size
  BY TimesMonotone
<1> QED BY <1>1

\* Sizes of two lists add up.
LEMMA TimesPlus ==
  ASSUME NEW a \in Nat, NEW b \in Nat, NEW n \in Nat
  PROVE  (a + b) * n = a * n + b * n /\ a * n \in Nat /\ b * n \in Nat
OBVIOUS

(* A function on the numbers from 1 is a sequence of its values.           *)
LEMMA FunctionIsSeq ==
  ASSUME NEW n \in Nat, NEW f, f = [i \in 1..n |-> f[i]]
  PROVE  f \in Seq({ f[i] : i \in 1..n }) /\ Len(f) = n
<1>1. f \in [1..n -> { f[i] : i \in 1..n }]
  OBVIOUS
<1>2. f \in Seq({ f[i] : i \in 1..n })
  BY <1>1, SeqDef
<1>3. DOMAIN f = 1..n
  OBVIOUS
<1>4. Len(f) \in Nat /\ DOMAIN f = 1..Len(f)
  BY <1>2, LenProperties
<1> QED BY <1>2, <1>3, <1>4

-----------------------------------------------------------------------------
(* get_slice_info: the slice that is a whole array is one of its slices.   *)
LEMMA InfoIsSlice ==
  ASSUME NEW val, IsValue(val), IsList(val)
  PROVE  IsSlice(get_slice_info(val)) /\ get_slice_info(val).len = val.len
<1>1. CASE val.type = "ARRAY"
  <2>1. get_slice_info(val) = Slice(val, 0, val.len) /\ IsArray(val)
    BY <1>1 DEF get_slice_info, IsValue
  <2>2. val.len \in Nat /\ val.len <= val.len
    BY <2>1, BoundsTyped DEF IsArray
  <2>3. 0 \in 0..(Word - 1)
    BY BoundsTyped
  <2> DEFINE whole == Slice(val, 0, val.len)
  <2>4. whole.array = val /\ whole.start = 0 /\ whole.len = val.len
    BY DEF Slice
  <2> HIDE DEF whole
  <2>5. 0 + val.len <= val.len
    BY <2>2
  <2>6. IsSlice(whole)
    BY <2>1, <2>2, <2>3, <2>4, <2>5 DEF IsSlice, whole
  <2> QED BY <2>1, <2>4, <2>6 DEF whole
<1>2. CASE val.type = "SLICE"
  BY <1>2 DEF get_slice_info, IsValue
<1> QED BY <1>1, <1>2 DEF IsList

(* The bytes of a slice with elements are in its array.                    *)
LEMMA BytesInside ==
  ASSUME NEW slice, IsSlice(slice),
         NEW i \in 1..(slice.len * val_type_size(slice.array.val_type))
  PROVE  slice.start * val_type_size(slice.array.val_type) + i \in DOMAIN slice.array.bytes
<1> DEFINE size == val_type_size(slice.array.val_type)
<1>1. /\ size \in Nat \ {0} /\ slice.len \in Nat /\ slice.start \in Nat /\ slice.array.len \in Nat
      /\ DOMAIN slice.array.bytes = 1..(slice.array.len * size)
      /\ slice.len > 0 => slice.start + slice.len <= slice.array.len
  BY SizeTyped, BoundsTyped DEF IsSlice, IsArray
<1> HIDE DEF size
<1>2. i \in 1..(slice.len * size)
  BY DEF size
<1>3. slice.len > 0
  BY <1>1, <1>2
<1>4. /\ (slice.start + slice.len) * size = slice.start * size + slice.len * size
      /\ slice.start * size \in Nat /\ slice.len * size \in Nat
  BY <1>1, TimesPlus
<1>5. (slice.start + slice.len) * size <= slice.array.len * size /\ slice.array.len * size \in Nat
  BY <1>1, <1>3, TimesMonotone
<1>6. slice.start * size + i \in 1..(slice.array.len * size)
  BY <1>2, <1>4, <1>5
<1> QED BY <1>1, <1>6 DEF size

\* The bytes of a slice are as many as its elements need.
LEMMA BytesTyped ==
  ASSUME NEW slice, IsSlice(slice)
  PROVE  /\ slice.len * val_type_size(slice.array.val_type) \in Nat
         /\ slice_bytes(slice) = [i \in 1..(slice.len * val_type_size(slice.array.val_type)) |-> slice_bytes(slice)[i]]
<1>1. slice.len \in Nat /\ val_type_size(slice.array.val_type) \in Nat
  BY SizeTyped DEF IsSlice
<1>2. slice.len * val_type_size(slice.array.val_type) \in Nat
  BY <1>1, TimesPlus
<1> QED BY <1>2 DEF slice_bytes

-----------------------------------------------------------------------------
(* What the functions make: slices, arrays, boxes and faults.              *)
LEMMA NewSlice ==
  ASSUME NEW array, IsArray(array), \A i \in DOMAIN array.bytes : array.bytes[i] \in Bytes,
         NEW start \in 0..(Word - 1), NEW len \in Nat, len > 0 => start + len <= array.len
  PROVE  Good(Slice(array, start, len))
<1> DEFINE slice == Slice(array, start, len)
<1>1. /\ slice.type = "SLICE" /\ slice.array = array /\ slice.start = start /\ slice.len = len
      /\ slice = Slice(slice.array, slice.start, slice.len)
  BY DEF Slice
<1> HIDE DEF slice
<1>2. IsSlice(slice)
  BY <1>1 DEF IsSlice
<1>3. IsTyped(slice)
  BY <1>1 DEF IsTyped
<1> QED BY <1>1, <1>2, <1>3 DEF Good, IsValue, slice

\* An array of as many bytes as its length needs is good.
LEMMA NewArray ==
  ASSUME NEW type \in ArrayTypes, NEW len \in 0..MaxLen, len * val_type_size(type) < Word,
         NEW bytes, DOMAIN bytes = 1..(len * val_type_size(type)),
         \A i \in 1..(len * val_type_size(type)) : bytes[i] \in Bytes
  PROVE  Good(Array(type, len, bytes))
<1> DEFINE array == Array(type, len, bytes)
<1>1. /\ array.type = "ARRAY" /\ array.val_type = type /\ array.len = len /\ array.bytes = bytes
      /\ array = Array(array.val_type, array.len, array.bytes)
  BY DEF Array
<1> HIDE DEF array
<1>2. IsArray(array)
  BY <1>1 DEF IsArray
<1>3. IsTyped(array)
  BY <1>1 DEF IsTyped
<1> QED BY <1>1, <1>2, <1>3 DEF Good, IsValue, array

\* A box of a value of its type is good.
LEMMA NewBox ==
  ASSUME NEW type \in ValueTypes, NEW val, val \in IF type = "INT" THEN I32 ELSE Bytes
  PROVE  Good(Box(type, val))
<1> DEFINE box == Box(type, val)
<1>1. box.type = "BOX" /\ box.val_type = type /\ box.val = val /\ box = Box(box.val_type, box.val)
  BY DEF Box
<1> HIDE DEF box
<1>2. IsBox(box) /\ IsTyped(box)
  BY <1>1 DEF IsBox, IsTyped
<1> QED BY <1>1, <1>2 DEF Good, IsValue, box

\* What is not a value ends the execution.
LEMMA Faults ==
  /\ IsResult(Error) /\ IsFault(Error) /\ IsResult(Fault("panic")) /\ IsFault(Fault("panic"))
  /\ IsFault(Undefined) /\ Undefined.type = "undefined"
BY DEF IsResult, IsFault, Error, Undefined, Fault

(* A value is a list or a box, and none of them a fault.                   *)
LEMMA GoodKinds ==
  ASSUME NEW val, Good(val)
  PROVE  /\ ~IsFault(val)
         /\ val.type = "BOX" =>
              val.val_type \in ValueTypes /\ val.val \in IF val.val_type = "INT" THEN I32 ELSE Bytes
         /\ val.type # "BOX" <=> IsList(val)
<1>1. val.type \in {"BOX", "ARRAY", "SLICE"}
  BY DEF Good, IsValue
<1>2. ASSUME val.type = "BOX"
      PROVE  val.val_type \in ValueTypes /\ val.val \in IF val.val_type = "INT" THEN I32 ELSE Bytes
  BY <1>2 DEF Good, IsValue, IsBox, IsTyped
<1> QED BY <1>1, <1>2 DEF IsFault, IsList

(* The slice of a list, whose array is an array of bytes.                  *)
LEMMA InfoIsGood ==
  ASSUME NEW val, Good(val), IsList(val)
  PROVE  LET slice == get_slice_info(val)
         IN /\ IsSlice(slice) /\ slice.len = val.len /\ slice.type = "SLICE"
            /\ IsArray(slice.array) /\ slice.start \in 0..(Word - 1) /\ slice.len \in Nat
            /\ slice.array.len \in 0..MaxLen /\ slice.array.val_type \in ArrayTypes
            /\ slice.len > 0 => slice.start + slice.len <= slice.array.len
            /\ slice.array.len < Word /\ slice.len < Word
            /\ \A i \in DOMAIN slice.array.bytes : slice.array.bytes[i] \in Bytes
<1> DEFINE slice == get_slice_info(val)
<1>1. IsSlice(slice) /\ slice.len = val.len
  BY InfoIsSlice DEF Good
<1>2. slice.type = "SLICE"
  BY DEF get_slice_info, IsList, Slice
<1>3. \A i \in DOMAIN slice.array.bytes : slice.array.bytes[i] \in Bytes
  <2>1. CASE val.type = "ARRAY"
    <3>1. slice.array = val
      BY <2>1 DEF get_slice_info, Slice
    <3> QED BY <2>1, <3>1 DEF Good, IsTyped
  <2>2. CASE val.type = "SLICE"
    <3>1. slice = val
      BY <2>2 DEF get_slice_info
    <3> QED BY <2>2, <3>1 DEF Good, IsTyped
  <2> QED BY <2>1, <2>2 DEF IsList
<1> HIDE DEF slice
<1>4. /\ IsArray(slice.array) /\ slice.start \in 0..(Word - 1) /\ slice.len \in Nat
      /\ slice.len > 0 => slice.start + slice.len <= slice.array.len
  BY <1>1 DEF IsSlice
<1>5. slice.array.len \in 0..MaxLen /\ slice.array.val_type \in ArrayTypes
  BY <1>4 DEF IsArray
<1>6. slice.array.len < Word /\ slice.len < Word
  <2> DEFINE w == Word
  <2>1. slice.array.len * val_type_size(slice.array.val_type) < w /\ slice.array.len \in Nat
    BY <1>4, <1>5, BoundsTyped DEF IsArray
  <2>2. slice.array.len <= slice.array.len * val_type_size(slice.array.val_type)
    BY <2>1, SizeTyped, Grows
  <2>3. w \in Nat \ {0} /\ slice.start \in Nat
    BY <1>4, BoundsTyped
  <2> DEFINE count == slice.array.len * val_type_size(slice.array.val_type)
  <2>4. count \in Nat
    BY <2>1, SizeTyped, TimesPlus
  <2> HIDE DEF w, count
  <2>5. slice.array.len < w
    BY <2>1, <2>2, <2>3, <2>4 DEF count
  <2>6. slice.len < w
    BY <1>4, <2>1, <2>3, <2>5
  <2> QED BY <2>5, <2>6 DEF w
<1> QED BY <1>1, <1>2, <1>3, <1>4, <1>5, <1>6 DEF slice

(* An index as an unsigned word.                                           *)
LEMMA IntegersTyped == \A i \in I32 : i \in Int
<1> SUFFICES ASSUME NEW n \in 0..(Word - 1)
             PROVE  i32(n) \in Int
  BY DEF I32
<1>1. Word \in Nat \ {0}
  BY BoundsTyped
<1> HIDE DEF Word
<1> QED BY <1>1 DEF i32

\* An index is compared as an unsigned number.
LEMMA IndexTyped ==
  ASSUME NEW index, Good(index), IsIndex(index)
  PROVE  u32(index.val) \in 0..(Word - 1)
<1>1. index.val \in Int
  BY GoodKinds, IntegersTyped DEF IsIndex
<1> QED BY <1>1, Wraps DEF u32

-----------------------------------------------------------------------------
(* Each function returns a good value or a fault.                          *)
LEMMA DropResult ==
  ASSUME NEW index, Good(index), NEW val, Good(val)
  PROVE  IsResult(slice_drop(index, val))
<1> DEFINE slice == get_slice_info(val)
           n == u32(index.val)
           start == (slice.start + n) % Word
           len == IF slice.len <= n THEN 0 ELSE slice.len - n
<1>1. CASE ~IsIndex(index)
  BY <1>1, Faults DEF slice_drop
<1>2. CASE IsIndex(index) /\ index.val = 0
  <2>1. slice_drop(index, val) = val
    BY <1>2 DEF slice_drop
  <2> QED BY <2>1 DEF IsResult
<1>3. CASE IsIndex(index) /\ index.val # 0 /\ ~IsList(val)
  BY <1>3, Faults DEF slice_drop
<1>4. CASE IsIndex(index) /\ index.val # 0 /\ IsList(val)
  <2>1. slice_drop(index, val) = Slice(slice.array, start, len)
    BY <1>4 DEF slice_drop
  <2>2. /\ n \in 0..(Word - 1) /\ slice.start \in 0..(Word - 1) /\ slice.len \in Nat
        /\ IsArray(slice.array) /\ slice.array.len \in 0..MaxLen /\ slice.array.len < Word
        /\ slice.len > 0 => slice.start + slice.len <= slice.array.len
        /\ \A i \in DOMAIN slice.array.bytes : slice.array.bytes[i] \in Bytes
    BY <1>4, IndexTyped, InfoIsGood
  <2> HIDE DEF slice, n
  <2>3. Word \in Nat \ {0} /\ MaxLen \in Nat
    BY BoundsTyped
  <2>4. slice.start + n \in Int
    BY <2>2, <2>3
  <2>5. start \in 0..(Word - 1) /\ (slice.start + n \in 0..(Word - 1) => start = slice.start + n)
    BY <2>4, Wraps
  <2>6. len \in Nat
    BY <2>2, <2>3
  <2>7. len > 0 => start + len <= slice.array.len
    <3> SUFFICES ASSUME len > 0
                 PROVE  start + len <= slice.array.len
      OBVIOUS
    <3>1. len = slice.len - n /\ n < slice.len
      BY <2>2, <2>3
    <3>2. slice.start + n \in 0..(Word - 1)
      BY <2>2, <2>3, <3>1
    <3> HIDE DEF start, len
    <3> QED BY <2>2, <2>3, <2>5, <3>1, <3>2
  <2> HIDE DEF start, len
  <2> QED BY <2>1, <2>2, <2>5, <2>6, <2>7, NewSlice DEF IsResult
<1> QED BY <1>1, <1>2, <1>3, <1>4

\* slice_take stays within the array.
LEMMA TakeResult ==
  ASSUME NEW index, Good(index), NEW val, Good(val)
  PROVE  IsResult(slice_take(index, val))
<1> DEFINE slice == get_slice_info(val)
           n == u32(index.val)
           len == IF slice.len <= n THEN slice.len ELSE n
<1>1. CASE ~IsIndex(index)
  BY <1>1, Faults DEF slice_take
<1>2. CASE IsIndex(index) /\ index.val = 0
  <2>1. slice_take(index, val) = val
    BY <1>2 DEF slice_take
  <2> QED BY <2>1 DEF IsResult
<1>3. CASE IsIndex(index) /\ index.val # 0 /\ ~IsList(val)
  BY <1>3, Faults DEF slice_take
<1>4. CASE IsIndex(index) /\ index.val # 0 /\ IsList(val)
  <2>1. slice_take(index, val) = Slice(slice.array, slice.start, len)
    BY <1>4 DEF slice_take
  <2>2. /\ n \in 0..(Word - 1) /\ slice.start \in 0..(Word - 1) /\ slice.len \in Nat
        /\ IsArray(slice.array) /\ slice.array.len \in 0..MaxLen
        /\ slice.len > 0 => slice.start + slice.len <= slice.array.len
        /\ \A i \in DOMAIN slice.array.bytes : slice.array.bytes[i] \in Bytes
    BY <1>4, IndexTyped, InfoIsGood
  <2> HIDE DEF slice, n
  <2>3. Word \in Nat \ {0} /\ MaxLen \in Nat
    BY BoundsTyped
  <2>4. len \in Nat /\ (len > 0 => slice.start + len <= slice.array.len)
    BY <2>2, <2>3
  <2> HIDE DEF len
  <2> QED BY <2>1, <2>2, <2>4, NewSlice DEF IsResult
<1> QED BY <1>1, <1>2, <1>3, <1>4

(* The bytes of an element lie in the array, and are those of a value.     *)
LEMMA ElementTyped ==
  ASSUME NEW array, IsArray(array), \A i \in DOMAIN array.bytes : array.bytes[i] \in Bytes,
         NEW i \in Nat, i < array.len
  PROVE  /\ \A k \in 1..val_type_size(array.val_type) :
              i * val_type_size(array.val_type) + k \in DOMAIN array.bytes
         /\ element(array, i) \in IF array.val_type = "INT" THEN I32 ELSE Bytes
<1> DEFINE size == val_type_size(array.val_type)
<1>1. size \in Nat \ {0} /\ array.len \in Nat /\ DOMAIN array.bytes = 1..(array.len * size)
  BY SizeTyped, BoundsTyped DEF IsArray
<1> HIDE DEF size
<1>2. (i + 1) * size = i * size + 1 * size /\ i * size \in Nat /\ 1 * size = size
  BY <1>1, TimesPlus
<1>3. (i + 1) * size <= array.len * size /\ array.len * size \in Nat
  <2>1. i + 1 \in Nat /\ i + 1 <= array.len
    BY <1>1
  <2> QED BY <1>1, <2>1, TimesMonotone
<1>4. \A k \in 1..size : i * size + k \in DOMAIN array.bytes
  <2> SUFFICES ASSUME NEW k \in 1..size
               PROVE  i * size + k \in 1..(array.len * size)
    BY <1>1
  <2> DEFINE before == i * size
             all == array.len * size
  <2>1. before \in Nat /\ all \in Nat /\ before + size <= all
    BY <1>2, <1>3
  <2> HIDE DEF before, all
  <2>2. before + k \in 1..all
    BY <1>1, <2>1
  <2> QED BY <2>2 DEF before, all
<1>5. CASE array.val_type = "INT"
  <2>1. size = IntSize
    BY <1>5 DEF size, val_type_size
  <2> DEFINE bytes == [k \in 1..IntSize |-> array.bytes[i * IntSize + k]]
  <2>2. bytes \in [1..IntSize -> Bytes]
    BY <1>4, <2>1
  <2> HIDE DEF bytes
  <2>3. \E n \in I32 : int_bytes[n] = bytes
    BY <2>2, BytesAssumption
  <2>4. integer(bytes) \in I32
    BY <2>3 DEF integer
  <2>5. element(array, i) = integer(bytes)
    BY <1>5 DEF element, bytes
  <2> QED BY <1>4, <1>5, <2>4, <2>5 DEF size
<1>6. CASE array.val_type # "INT"
  <2>1. size = 1
    BY <1>6 DEF size, val_type_size
  <2>2. i + 1 \in DOMAIN array.bytes
    BY <1>2, <1>4, <2>1
  <2>3. element(array, i) = array.bytes[i + 1]
    BY <1>6 DEF element
  <2> QED BY <1>4, <1>6, <2>2, <2>3 DEF size
<1> QED BY <1>5, <1>6

\* slice_index stays within the array.
LEMMA IndexResult ==
  ASSUME NEW index, Good(index), NEW val, Good(val)
  PROVE  IsResult(slice_index(index, val))
<1> DEFINE slice == get_slice_info(val)
           n == u32(index.val)
           read_index == (slice.start + n) % Word
<1>1. CASE \/ ~IsIndex(index) \/ ~IsList(val)
           \/ val.type = "SLICE" /\ slice.len <= n
           \/ read_index >= slice.array.len
  BY <1>1, Faults DEF slice_index
<1>2. CASE IsIndex(index) /\ IsList(val) /\ ~(read_index >= slice.array.len)
             /\ ~(val.type = "SLICE" /\ slice.len <= n)
  <2>2. /\ n \in 0..(Word - 1) /\ slice.start \in 0..(Word - 1)
        /\ IsArray(slice.array) /\ slice.array.len \in 0..MaxLen /\ slice.array.val_type \in ArrayTypes
        /\ \A i \in DOMAIN slice.array.bytes : slice.array.bytes[i] \in Bytes
    BY <1>2, IndexTyped, InfoIsGood
  <2>3. Word \in Nat \ {0} /\ MaxLen \in Nat
    BY BoundsTyped
  <2>4. slice.start + n \in Int
    BY <2>2, <2>3
  <2>5. read_index \in 0..(Word - 1)
    BY <2>4, Wraps
  <2>6. read_index \in Nat /\ read_index < slice.array.len
    BY <1>2, <2>2, <2>3, <2>5
  <2>7. slice.array.val_type \in ValueTypes
    BY <2>2 DEF ArrayTypes, ValueTypes
  <2>1. slice_index(index, val) = Box(slice.array.val_type, element(slice.array, read_index))
    <3>1. Holds(slice.array, read_index * val_type_size(slice.array.val_type), val_type_size(slice.array.val_type))
      <4> HIDE DEF slice, read_index
      <4> QED BY <2>2, <2>6, ElementTyped DEF Holds
    <3> QED BY <1>2, <3>1 DEF slice_index
  <2> HIDE DEF slice, read_index
  <2>8. element(slice.array, read_index) \in IF slice.array.val_type = "INT" THEN I32 ELSE Bytes
    BY <2>2, <2>6, ElementTyped
  <2> QED BY <2>1, <2>7, <2>8, NewBox DEF IsResult
<1> QED BY <1>1, <1>2

\* slice_len makes a good value.
LEMMA LenResult ==
  ASSUME NEW val, Good(val)
  PROVE  IsResult(slice_len(val))
<1>1. CASE ~IsList(val)
  BY <1>1, Faults DEF slice_len
<1>2. CASE IsList(val)
  <2>1. val.len \in Nat /\ val.len < Word
    BY <1>2, InfoIsGood
  <2>2. val.len \in 0..(Word - 1)
    BY <2>1, BoundsTyped
  <2>3. i32(val.len) \in I32
    BY <2>2 DEF I32
  <2>4. Good(Box("INT", i32(val.len)))
    BY <2>3, NewBox DEF ValueTypes
  <2> QED BY <1>2, <2>4 DEF slice_len, IsResult
<1> QED BY <1>1, <1>2

(* The bytes that are copied of a slice.                                   *)
LEMMA CopiedTyped ==
  ASSUME NEW slice, IsSlice(slice), \A i \in DOMAIN slice.array.bytes : slice.array.bytes[i] \in Bytes,
         NEW size, size = val_type_size(slice.array.val_type)
  PROVE  /\ slice.len * size \in Nat
         /\ slice_bytes(slice) \in Seq(Bytes) /\ Len(slice_bytes(slice)) = slice.len * size
<1> DEFINE copied == slice_bytes(slice)
<1>1. slice.len * size \in Nat
  BY BytesTyped
<1>2. \A i \in 1..(slice.len * size) : slice.array.bytes[slice.start * size + i] \in Bytes
  BY BytesInside
<1>3. copied = [i \in 1..(slice.len * size) |-> slice.array.bytes[slice.start * size + i]]
  BY DEF slice_bytes
<1> HIDE DEF copied
<1>4. copied \in [1..(slice.len * size) -> Bytes]
  BY <1>2, <1>3
<1>5. copied \in Seq(Bytes)
  BY <1>1, <1>4, SeqDef
<1>6. Len(copied) = slice.len * size
  BY <1>1, <1>4, <1>5, LenProperties
<1> QED BY <1>1, <1>5, <1>6 DEF copied

\* A value has as many bytes as its type.
LEMMA ValueBytesTyped ==
  ASSUME NEW type \in ValueTypes, NEW val, val \in IF type = "INT" THEN I32 ELSE Bytes
  PROVE  /\ bytes_of(type, val) \in Seq(Bytes)
         /\ Len(bytes_of(type, val)) = val_type_size(type)
<1>1. CASE type = "INT"
  <2>1. bytes_of(type, val) = [k \in 1..IntSize |-> (u32(val) \div ByteBase^(k - 1)) % ByteBase]
    BY <1>1 DEF bytes_of, int_bytes
  <2>2. ASSUME NEW k \in 1..IntSize
        PROVE  (u32(val) \div ByteBase^(k - 1)) % ByteBase \in Bytes
    <3>1. u32(val) \in Nat
      <4>1. val \in Int
        BY <1>1, IntegersTyped
      <4>2. u32(val) \in 0..(Word - 1)
        BY <4>1, Wraps DEF u32
      <4> QED BY <4>2, BoundsTyped
    <3>2. k - 1 \in 0..IntSize /\ ByteBase \in Nat \ {0}
      BY SizesAssumption
    <3> DEFINE power == ByteBase^(k - 1)
    <3>3. power \in Nat \ {0}
      BY <3>2, BytesAssumption
    <3> HIDE DEF power
    <3>4. u32(val) \div power \in Int
      BY <3>1, <3>3
    <3>5. (u32(val) \div power) % ByteBase \in 0..(ByteBase - 1)
      BY <3>2, <3>4
    <3> QED BY <3>5 DEF Bytes, power
  <2>3. IntSize \in Nat
    BY SizesAssumption
  <2>4. bytes_of(type, val) \in [1..IntSize -> Bytes]
    BY <2>1, <2>2
  <2>5. bytes_of(type, val) \in Seq(Bytes)
    BY <2>3, <2>4, SeqDef
  <2>6. Len(bytes_of(type, val)) = IntSize
    BY <2>3, <2>4, <2>5, LenProperties
  <2> QED BY <1>1, <2>5, <2>6 DEF val_type_size
<1>2. CASE type # "INT"
  <2>1. bytes_of(type, val) = <<val>> /\ val \in Bytes
    BY <1>2 DEF bytes_of
  <2> QED BY <1>2, <2>1 DEF val_type_size
<1> QED BY <1>1, <1>2

-----------------------------------------------------------------------------
(* Sizes in bytes, which wrap.                                             *)
LEMMA ByteCount ==
  ASSUME NEW n \in Nat, NEW size \in Nat, n * size < Word
  PROVE  byte_count(n, size) = n * size
<1> DEFINE w == Word
           bytes == n * size
<1>1. w \in Nat \ {0} /\ bytes \in Nat /\ bytes < w
  BY BoundsTyped, TimesPlus
<1> HIDE DEF w, bytes
<1>2. bytes \in 0..(w - 1) /\ bytes \in Int
  BY <1>1
<1> QED BY <1>2, Wraps DEF w, bytes, byte_count, u32

(* The size of an array of the elements of two others: it is that of the   *)
(* bytes of both, or smaller than either of them.                          *)
LEMMA ByteCountOfBoth ==
  ASSUME NEW a \in Nat, NEW b \in Nat, NEW size \in Nat \ {0}, a * size < Word, b * size < Word
  PROVE  /\ (a + b) * size = a * size + b * size /\ a * size \in Nat /\ b * size \in Nat
         /\ (a + b) * size < Word => u32(a + b) = a + b /\ byte_count(u32(a + b), size) = a * size + b * size
         /\ (a + b) * size >= Word => /\ byte_count(u32(a + b), size) < a * size
                                     /\ byte_count(u32(a + b), size) < b * size
                                     /\ byte_count(u32(a + b), size) \in Nat
<1> DEFINE w == Word
           n == a + b
           x == a * size
           y == b * size
           all == n * size
<1>1. w \in Nat \ {0} /\ n \in Nat
  BY BoundsTyped
<1>2. all = x + y /\ x \in Nat /\ y \in Nat /\ all \in Nat
  BY TimesPlus
<1>3. a <= x /\ b <= y /\ n <= all
  BY <1>1, Grows
<1>4. x < w /\ y < w
  OBVIOUS
<1>5. n < w \/ size = 1
  <2> SUFFICES ASSUME size # 1
               PROVE  n < w
    OBVIOUS
  <2>1. a * 2 <= x /\ b * 2 <= y
    <3>1. 2 * a <= size * a /\ 2 * b <= size * b
      <4>1. 2 \in Nat /\ 2 <= size
        OBVIOUS
      <4> QED BY <4>1, TimesMonotone
    <3>2. 2 * a = a * 2 /\ 2 * b = b * 2 /\ size * a = a * size /\ size * b = b * size
      OBVIOUS
    <3> QED BY <3>1, <3>2
  <2> HIDE DEF w, x, y, all
  <2> QED BY <1>1, <1>2, <1>4, <2>1
<1>6. size = 1 => x = a /\ y = b /\ all = n
  OBVIOUS
<1>7. n < w => u32(n) = n
  <2> HIDE DEF n, w
  <2>1. n < w => n \in 0..(w - 1)
    BY <1>1
  <2> QED BY <1>1, <2>1, Wraps DEF u32, w
<1>8. n >= w => u32(n) = n - w /\ n - w < w /\ n - w \in Nat
  <2> HIDE DEF x, y, all
  <2> SUFFICES ASSUME n >= w
               PROVE  n % w = n - w /\ n - w < w /\ n - w \in Nat
    BY DEF u32
  <2>1. a < w /\ b < w /\ a \in Nat /\ b \in Nat
    <3> HIDE DEF w, n
    <3> QED BY <1>1, <1>2, <1>3, <1>4
  <2> HIDE DEF w
  <2>2. n - w \in 0..(w - 1)
    BY <1>1, <2>1
  <2> HIDE DEF n
  <2>3. n % w = n - w
    BY ONLY <1>1, <2>2, Remainder
  <2> QED BY <1>1, <2>2, <2>3
<1>9. CASE all < w
  <2>1. n < w
    <3> HIDE DEF n, all, w
    <3> QED BY <1>1, <1>2, <1>3, <1>9
  <2>2. byte_count(n, size) = all
    BY <1>1, <1>9, ByteCount
  <2>3. u32(n) = n /\ byte_count(u32(n), size) = x + y
    BY <1>2, <1>7, <2>1, <2>2
  <2>4. ~(all >= w)
    <3> HIDE DEF w, all
    <3> QED BY <1>1, <1>2, <1>9
  <2> QED BY <1>2, <2>3, <2>4
<1>10. CASE all >= w
  <2>1. all - w \in Nat /\ all - w < x /\ all - w < y /\ all - w < w /\ all - w \in 0..(w - 1)
    <3> HIDE DEF w, x, y, all
    <3> QED BY <1>1, <1>2, <1>4, <1>10
  <2>2. byte_count(u32(n), size) = all - w
    <3>1. CASE n < w
      <4>1. byte_count(u32(n), size) = all % w
        BY <1>7, <3>1 DEF byte_count, u32
      <4> HIDE DEF all, w
      <4>2. all % w = all - w
        BY ONLY <1>1, <1>2, <2>1, Remainder
      <4> QED BY <4>1, <4>2
    <3>2. CASE n >= w
      <4>1. size = 1 /\ u32(n) = n - w /\ n - w < w /\ n - w \in Nat
        <5> HIDE DEF n, w
        <5> QED BY <1>1, <1>5, <1>8, <3>2
      <4> DEFINE rest == n - w
      <4>2. rest \in Nat /\ rest < w
        BY <4>1
      <4>3. rest * 1 = rest
        <5> HIDE DEF rest
        <5> QED BY <4>2
      <4> HIDE DEF rest
      <4>4. byte_count(rest, 1) = rest
        BY <4>2, <4>3, ByteCount
      <4> QED BY <1>6, <4>1, <4>4 DEF rest
    <3> HIDE DEF n, w
    <3> QED BY <1>1, <3>1, <3>2
  <2> HIDE DEF w, x, y, all
  <2>3. byte_count(u32(n), size) < x /\ byte_count(u32(n), size) < y /\ byte_count(u32(n), size) \in Nat /\ ~(all < w)
    BY <1>1, <1>2, <1>10, <2>1, <2>2
  <2> QED BY <1>2, <2>3 DEF w, x, y, all
<1>11. all < w \/ all >= w
  <2> HIDE DEF w, all
  <2> QED BY <1>1, <1>2
<1> QED BY <1>9, <1>10, <1>11

(* All of the bytes of a slice are copied.                                 *)
LEMMA Copies ==
  ASSUME NEW slice, IsSlice(slice), NEW size \in Nat \ {0}, size < Word,
         slice.len > 0 => size = val_type_size(slice.array.val_type)
  PROVE  /\ slice.len * size < Word /\ byte_count(slice.len, size) = slice.len * size
         /\ Copyable(slice, size)
         /\ slice.len > 0 => Copied(slice, size) = slice_bytes(slice)
         /\ slice.len = 0 => Copied(slice, size) = << >>
<1> DEFINE w == Word
<1>1. /\ slice.len \in Nat /\ slice.start \in Nat /\ slice.array.len \in Nat /\ w \in Nat \ {0}
      /\ slice.array.len * val_type_size(slice.array.val_type) < w
      /\ slice.len > 0 => slice.start + slice.len <= slice.array.len
  BY BoundsTyped DEF IsSlice, IsArray
<1>2. CASE slice.len = 0
  <2>1. 0 * size = 0 /\ 0 < w
    BY <1>1
  <2>2. byte_count(slice.len, size) = 0
    BY <1>2, <2>1, ByteCount
  <2>3. Copyable(slice, size)
    BY <2>2 DEF Copyable, Holds
  <2> DEFINE copied == Copied(slice, size)
  <2>4. copied = [i \in 1..0 |-> copied[i]]
    BY <2>2 DEF Copied
  <2> HIDE DEF copied
  <2>5. copied \in Seq({ copied[i] : i \in 1..0 }) /\ Len(copied) = 0
    BY <2>4, FunctionIsSeq
  <2>6. copied = << >>
    BY <2>5, EmptySeq
  <2> QED BY <1>2, <2>1, <2>2, <2>3, <2>6 DEF copied
<1>3. CASE slice.len > 0
  <2>1. size = val_type_size(slice.array.val_type)
    BY <1>3
  <2> DEFINE all == slice.array.len * size
             before == slice.start * size
             part == slice.len * size
  <2>2. before + part <= all /\ before \in Nat /\ part \in Nat /\ all \in Nat
    <3>1. (slice.start + slice.len) * size = before + part /\ before \in Nat /\ part \in Nat
      BY <1>1, TimesPlus
    <3>2. (slice.start + slice.len) * size <= all /\ all \in Nat
      BY <1>1, <1>3, TimesMonotone
    <3> QED BY <3>1, <3>2
  <2>3. before < w /\ part < w
    <3>1. all < w
      BY <1>1, <2>1
    <3> HIDE DEF all, before, part, w
    <3> QED BY <1>1, <2>2, <3>1
  <2>4. byte_count(slice.start, size) = before /\ byte_count(slice.len, size) = part
    BY <1>1, <2>3, ByteCount
  <2>5. Copyable(slice, size)
    BY <2>1, <2>4, BytesInside DEF Copyable, Holds
  <2>6. Copied(slice, size) = slice_bytes(slice)
    BY <2>1, <2>4 DEF Copied, slice_bytes
  <2> QED BY <1>3, <2>3, <2>4, <2>5, <2>6
<1> HIDE DEF w
<1> QED BY <1>1, <1>2, <1>3

(* Fitting: the value can be an element of the array of the slice.         *)
LEMMA FittingResult ==
  ASSUME NEW push, Good(push), NEW val, Good(val)
  PROVE  LET slice == Fitting(push, val)
         IN \/ IsFault(slice) /\ IsResult(slice)
            \/ /\ ~IsFault(slice) /\ slice = get_slice_info(val) /\ IsList(val)
               /\ push.val_type \in ArrayTypes
               /\ push.val \in IF push.val_type = "INT" THEN I32 ELSE Bytes
               /\ slice.len > 0 => slice.array.val_type = push.val_type
<1> DEFINE slice == get_slice_info(val)
<1>1. CASE push.type # "BOX" \/ ~IsList(val)
  BY <1>1, Faults DEF Fitting
<1>2. CASE push.type = "BOX" /\ IsList(val) /\ slice.len > 0 /\ slice.array.val_type # push.val_type
  BY <1>2, Faults DEF Fitting
<1>3. CASE /\ push.type = "BOX" /\ IsList(val) /\ ~(slice.len > 0 /\ slice.array.val_type # push.val_type)
           /\ push.val_type = "UNIT"
  BY <1>3, Faults DEF Fitting
<1>4. CASE /\ push.type = "BOX" /\ IsList(val) /\ ~(slice.len > 0 /\ slice.array.val_type # push.val_type)
           /\ push.val_type # "UNIT"
  <2>1. Fitting(push, val) = slice
    BY <1>4 DEF Fitting
  <2>2. push.val_type \in ArrayTypes /\ push.val \in IF push.val_type = "INT" THEN I32 ELSE Bytes
    BY <1>4, GoodKinds DEF ValueTypes, ArrayTypes
  <2>3. ~IsFault(slice)
    BY <1>4, InfoIsGood DEF IsFault
  <2> QED BY <1>4, <2>1, <2>2, <2>3
<1> QED BY <1>1, <1>2, <1>3, <1>4

(* The bytes of a slice that are copied beside a value of the same size.   *)
LEMMA BesideTyped ==
  ASSUME NEW val, Good(val), IsList(val), NEW type,
         get_slice_info(val).len > 0 => get_slice_info(val).array.val_type = type
  PROVE  LET slice == get_slice_info(val)
             size == val_type_size(type)
         IN /\ size \in Nat \ {0} /\ slice.len \in Nat /\ slice.len * size \in Nat
            /\ (slice.len + 1) * size = slice.len * size + size
            /\ slice.len > 0 => slice_bytes(slice) \in Seq(Bytes) /\ Len(slice_bytes(slice)) = slice.len * size
<1> DEFINE slice == get_slice_info(val)
           size == val_type_size(type)
<1>1. /\ IsSlice(slice) /\ slice.len \in Nat
      /\ \A i \in DOMAIN slice.array.bytes : slice.array.bytes[i] \in Bytes
  BY InfoIsGood
<1>2. slice.len > 0 => size = val_type_size(slice.array.val_type)
  OBVIOUS
<1> HIDE DEF slice
<1>3. size \in Nat \ {0}
  BY SizeTyped
<1> HIDE DEF size
<1>4. (slice.len + 1) * size = slice.len * size + 1 * size /\ slice.len * size \in Nat /\ 1 * size = size
  BY <1>1, <1>3, TimesPlus
<1>5. slice.len > 0 => slice_bytes(slice) \in Seq(Bytes) /\ Len(slice_bytes(slice)) = slice.len * size
  BY <1>1, <1>2, CopiedTyped
<1> QED BY <1>1, <1>3, <1>4, <1>5 DEF slice, size

-----------------------------------------------------------------------------
(* What the functions make of their bytes: an array of all of them, unless *)
(* its size wraps.                                                         *)
LEMMA JoinMakes ==
  ASSUME NEW l_val, Good(l_val), IsList(l_val), NEW r_val, Good(r_val), IsList(r_val),
         get_slice_info(l_val).len # 0, get_slice_info(r_val).len # 0,
         get_slice_info(l_val).array.val_type = get_slice_info(r_val).array.val_type
  PROVE  LET l == get_slice_info(l_val)
             r == get_slice_info(r_val)
             size == val_type_size(l.array.val_type)
         IN /\ TooLarge(l_val, r_val) <=> (l.len + r.len) * size >= Word
            /\ (l.len + r.len) * size < Word <=> ~TooLarge(l_val, r_val)
            /\ TooLarge(l_val, r_val) => slice_join(l_val, r_val) = Undefined
            /\ ~TooLarge(l_val, r_val) =>
                 slice_join(l_val, r_val)
                   = Array(l.array.val_type, l.len + r.len, slice_bytes(l) \o slice_bytes(r))
<1> DEFINE l == get_slice_info(l_val)
           r == get_slice_info(r_val)
           type == l.array.val_type
           size == val_type_size(type)
           room == byte_count(u32(l.len + r.len), size)
           all == (l.len + r.len) * size
           w == Word
           array == Array(type, u32(l.len + r.len), Copied(l, size) \o Copied(r, size))
<1>1. /\ IsSlice(l) /\ l.len = l_val.len /\ l.len \in Nat
      /\ IsSlice(r) /\ r.len = r_val.len /\ r.len \in Nat
      /\ size \in Nat \ {0} /\ size < Word /\ size = val_type_size(r.array.val_type)
  BY InfoIsGood, SizeTyped, BoundsTyped
<1>2. TooLarge(l_val, r_val) <=> all >= w
  BY <1>1 DEF TooLarge, Count, ElementType
<1>3. slice_join(l_val, r_val)
        = IF /\ Copyable(l, size) /\ Copyable(r, size)
             /\ byte_count(l.len, size) + byte_count(r.len, size) <= room
          THEN array ELSE Undefined
  BY DEF slice_join
<1> HIDE DEF l, r
<1>4. /\ l.len * size < Word /\ byte_count(l.len, size) = l.len * size
      /\ Copyable(l, size) /\ (l.len > 0 => Copied(l, size) = slice_bytes(l))
  BY <1>1, Copies
<1>5. /\ r.len * size < Word /\ byte_count(r.len, size) = r.len * size
      /\ Copyable(r, size) /\ (r.len > 0 => Copied(r, size) = slice_bytes(r))
  BY <1>1, Copies
<1>6. l.len > 0 /\ r.len > 0
  BY <1>1 DEF l, r
<1> DEFINE x == l.len * size
           y == r.len * size
<1>7. /\ all = x + y /\ x \in Nat /\ y \in Nat
      /\ all < w => u32(l.len + r.len) = l.len + r.len /\ room = x + y
      /\ all >= w => room < x /\ room < y /\ room \in Nat
  BY <1>1, <1>4, <1>5, ByteCountOfBoth
<1> HIDE DEF size, room, all, w, array
<1>8. slice_join(l_val, r_val) = IF x + y <= room THEN array ELSE Undefined
  BY <1>3, <1>4, <1>5
<1>13. w \in Nat
  BY BoundsTyped DEF w
<1> HIDE DEF x, y
<1>9. all < w <=> ~(all >= w)
  BY <1>7, <1>13
<1>10. all >= w => slice_join(l_val, r_val) = Undefined
  BY <1>7, <1>8
<1>11. all < w => slice_join(l_val, r_val) = array
  BY <1>7, <1>8
<1>12. all < w => array = Array(type, l.len + r.len, slice_bytes(l) \o slice_bytes(r))
  BY <1>4, <1>5, <1>6, <1>7 DEF array
<1> QED BY <1>2, <1>9, <1>10, <1>11, <1>12 DEF l, r, size, all, w

\* The slice that something is added to, and the sizes of the new array.
LEMMA Adding ==
  ASSUME NEW push, Good(push), NEW val, Good(val), ~IsFault(Fitting(push, val))
  PROVE  LET slice == Fitting(push, val)
             size == val_type_size(push.val_type)
             room == byte_count(u32(slice.len + 1), size)
         IN /\ slice = get_slice_info(val) /\ IsSlice(slice) /\ slice.len \in Nat
            /\ size \in Nat \ {0} /\ slice.len * size \in Nat
            /\ (slice.len + 1) * size = slice.len * size + size
            /\ Copyable(slice, size) /\ byte_count(slice.len, size) = slice.len * size
            /\ slice.len > 0 => Copied(slice, size) = slice_bytes(slice)
            /\ slice.len = 0 => Copied(slice, size) = << >> /\ slice.len * size = 0
            /\ TooLarge(push, val) <=> (slice.len + 1) * size >= Word
            /\ TooLarge(val, push) <=> (slice.len + 1) * size >= Word
            /\ TooLarge(push, val) => room < size /\ room \in Nat
            /\ ~TooLarge(push, val) => /\ u32(slice.len + 1) = slice.len + 1
                                      /\ room = (slice.len + 1) * size /\ (slice.len + 1) * size < Word
<1> DEFINE slice == Fitting(push, val)
           size == val_type_size(push.val_type)
           room == byte_count(u32(slice.len + 1), size)
           old == slice.len * size
           all == (slice.len + 1) * size
           w == Word
<1>1. /\ slice = get_slice_info(val) /\ IsList(val)
      /\ slice.len > 0 => slice.array.val_type = push.val_type
  BY FittingResult
<1>2. /\ IsSlice(slice) /\ slice.len = val.len /\ slice.len \in Nat
      /\ size \in Nat \ {0} /\ size < Word
      /\ slice.len > 0 => size = val_type_size(slice.array.val_type)
  BY <1>1, InfoIsGood, SizeTyped, BoundsTyped
<1>3. push.type = "BOX" /\ ~IsList(push)
  <2>1. push.type = "BOX"
    BY DEF Fitting, IsFault, Error, Fault
  <2> QED BY <2>1 DEF IsList
<1>4. TooLarge(push, val) <=> (1 + slice.len) * size >= w
  BY <1>1, <1>2, <1>3 DEF TooLarge, Count, ElementType
<1>5. TooLarge(val, push) <=> (slice.len + 1) * val_type_size(slice.array.val_type) >= w
  BY <1>1, <1>2, <1>3 DEF TooLarge, Count, ElementType
<1> HIDE DEF slice
<1>6. /\ old < Word /\ byte_count(slice.len, size) = old /\ Copyable(slice, size)
      /\ slice.len > 0 => Copied(slice, size) = slice_bytes(slice)
      /\ slice.len = 0 => Copied(slice, size) = << >>
  BY <1>2, Copies
<1>7. 1 * size = size /\ (slice.len + 1) * size = (1 + slice.len) * size
  BY <1>2
<1>8. /\ all = old + 1 * size /\ old \in Nat
      /\ all < w => u32(slice.len + 1) = slice.len + 1 /\ room = old + 1 * size
      /\ all >= w => room < 1 * size /\ room \in Nat
  <2> DEFINE n == slice.len
  <2>1. n \in Nat /\ 1 \in Nat /\ size \in Nat \ {0} /\ n * size < Word /\ 1 * size < Word
    BY <1>2, <1>6, <1>7
  <2> HIDE DEF n, size
  <2>2. /\ (n + 1) * size = n * size + 1 * size /\ n * size \in Nat
        /\ (n + 1) * size < Word => u32(n + 1) = n + 1 /\ byte_count(u32(n + 1), size) = n * size + 1 * size
        /\ (n + 1) * size >= Word => byte_count(u32(n + 1), size) < 1 * size
                                    /\ byte_count(u32(n + 1), size) \in Nat
    BY ONLY <2>1, ByteCountOfBoth
  <2> QED BY <2>2 DEF n
<1>9. all >= w <=> TooLarge(push, val)
  BY <1>4, <1>7
<1>10. slice.len = 0 => old = 0 /\ 0 * size = 0
  BY <1>2
<1>11. TooLarge(val, push) <=> all >= w
  <2>1. CASE slice.len > 0
    BY <1>2, <1>5, <2>1
  <2>2. CASE slice.len = 0
    <3>1. (slice.len + 1) * val_type_size(slice.array.val_type) < w /\ all < w
      <4>1. val_type_size(slice.array.val_type) < w /\ size < w
        BY BoundsTyped
      <4>2. /\ (0 + 1) * val_type_size(slice.array.val_type) = val_type_size(slice.array.val_type)
            /\ (0 + 1) * size = size
        BY <1>2, SizeTyped
      <4> QED BY <2>2, <4>1, <4>2
    <3> DEFINE other == (slice.len + 1) * val_type_size(slice.array.val_type)
    <3>2. other \in Nat /\ all \in Nat /\ w \in Nat
      BY <1>2, SizeTyped, TimesPlus, BoundsTyped
    <3> HIDE DEF other, all, w
    <3>3. ~(other >= w) /\ ~(all >= w)
      BY <3>1, <3>2 DEF other
    <3> QED BY <1>5, <3>3 DEF other
  <2> QED BY <1>2, <2>1, <2>2
<1>12. all < w <=> ~(all >= w)
  <2>1. all \in Nat /\ w \in Nat
    BY <1>2, TimesPlus, BoundsTyped
  <2> HIDE DEF all, w
  <2> QED BY <2>1
<1> HIDE DEF size, room, old, all, w
<1>13. /\ all = old + size
       /\ TooLarge(push, val) => room < size /\ room \in Nat
       /\ ~TooLarge(push, val) => u32(slice.len + 1) = slice.len + 1 /\ room = all /\ all < w
  BY <1>7, <1>8, <1>9, <1>12
<1> QED BY <1>1, <1>2, <1>6, <1>8, <1>9, <1>10, <1>11, <1>13 DEF slice, size, room, old, all, w

\* slice_cons makes an array of its value and all the bytes of the slice,
LEMMA ConsMakes ==
  ASSUME NEW push, Good(push), NEW val, Good(val), NEW fresh, ~IsFault(Fitting(push, val))
  PROVE  LET slice == Fitting(push, val)
             type == push.val_type
             size == val_type_size(type)
             old == slice.len * size
             all == (slice.len + 1) * size
         IN /\ TooLarge(push, val) => slice_cons(push, val, fresh) = Undefined
            /\ ~TooLarge(push, val) =>
                 slice_cons(push, val, fresh)
                   = Array(type, slice.len + 1,
                       [i \in 1..all |->
                          CASE 1 < i /\ i <= old + 1 -> slice_bytes(slice)[i - 1]
                            [] ~(1 < i /\ i <= old + 1) /\ i <= size -> bytes_of(type, push.val)[i]
                            [] OTHER -> fresh[all - i + 1]])
<1> DEFINE slice == Fitting(push, val)
           type == push.val_type
           size == val_type_size(type)
           old == slice.len * size
           all == (slice.len + 1) * size
           first == bytes_of(type, push.val)
           room == byte_count(u32(slice.len + 1), size)
           copied == byte_count(slice.len, size)
           made == [i \in 1..room |->
                      CASE 1 < i /\ i <= copied + 1 -> Copied(slice, size)[i - 1]
                        [] ~(1 < i /\ i <= copied + 1) /\ i <= size -> first[i]
                        [] OTHER -> fresh[room - i + 1]]
           bytes == [i \in 1..all |->
                      CASE 1 < i /\ i <= old + 1 -> slice_bytes(slice)[i - 1]
                        [] ~(1 < i /\ i <= old + 1) /\ i <= size -> first[i]
                        [] OTHER -> fresh[all - i + 1]]
<1>1. slice_cons(push, val, fresh)
        = IF size <= room /\ copied + 1 <= room /\ Copyable(slice, size)
          THEN Array(type, u32(slice.len + 1), made) ELSE Undefined
  BY DEF slice_cons
<1>2. /\ slice.len \in Nat /\ size \in Nat \ {0} /\ old \in Nat /\ all = old + size
      /\ Copyable(slice, size) /\ copied = old
      /\ slice.len > 0 => Copied(slice, size) = slice_bytes(slice)
      /\ slice.len = 0 => old = 0
      /\ TooLarge(push, val) => room < size /\ room \in Nat
      /\ ~TooLarge(push, val) => u32(slice.len + 1) = slice.len + 1 /\ room = all
  BY Adding
<1> HIDE DEF slice, size, old, all, first, room, copied
<1>3. TooLarge(push, val) => slice_cons(push, val, fresh) = Undefined
  <2>1. TooLarge(push, val) => ~(size <= room)
    BY <1>2
  <2> HIDE DEF made
  <2> QED BY <1>1, <2>1
<1>4. ASSUME ~TooLarge(push, val)
      PROVE  slice_cons(push, val, fresh) = Array(type, slice.len + 1, bytes)
  <2>1. size <= room /\ copied + 1 <= room /\ room = all /\ copied = old
    BY <1>2, <1>4
  <2>2. ASSUME NEW i \in 1..all, 1 < i, i <= old + 1
        PROVE  Copied(slice, size)[i - 1] = slice_bytes(slice)[i - 1]
    <3>1. slice.len > 0
      BY <1>2, <2>2
    <3> QED BY <1>2, <3>1
  <2>3. made = bytes
    BY <2>1, <2>2
  <2> HIDE DEF made, bytes
  <2> QED BY <1>1, <1>2, <1>4, <2>1, <2>3
<1> QED BY <1>3, <1>4 DEF slice, size, old, all, first

\* and so does slice_push.
LEMMA PushMakes ==
  ASSUME NEW val, Good(val), NEW push, Good(push), ~IsFault(Fitting(push, val))
  PROVE  LET slice == Fitting(push, val)
             type == push.val_type
             old == IF slice.len = 0 THEN << >> ELSE slice_bytes(slice)
         IN /\ TooLarge(val, push) => slice_push(val, push) = Undefined
            /\ ~TooLarge(val, push) =>
                 slice_push(val, push) = Array(type, slice.len + 1, old \o bytes_of(type, push.val))
<1> DEFINE slice == Fitting(push, val)
           type == push.val_type
           size == val_type_size(type)
           old == IF slice.len = 0 THEN << >> ELSE slice_bytes(slice)
           before == slice.len * size
           room == byte_count(u32(slice.len + 1), size)
<1>1. slice_push(val, push)
        = IF before + size <= room /\ Copyable(slice, size)
          THEN Array(type, u32(slice.len + 1), Copied(slice, size) \o bytes_of(type, push.val)) ELSE Undefined
  BY DEF slice_push
<1>2. /\ slice.len \in Nat /\ size \in Nat \ {0} /\ before \in Nat
      /\ Copyable(slice, size)
      /\ slice.len > 0 => Copied(slice, size) = slice_bytes(slice)
      /\ slice.len = 0 => Copied(slice, size) = << >>
      /\ TooLarge(push, val) <=> TooLarge(val, push)
      /\ TooLarge(push, val) => room < size /\ room \in Nat
      /\ ~TooLarge(push, val) => u32(slice.len + 1) = slice.len + 1 /\ room = before + size
  BY Adding
<1> HIDE DEF slice, size, before, room
<1>3. Copied(slice, size) = old
  BY <1>2
<1> HIDE DEF old
<1>4. TooLarge(val, push) => ~(before + size <= room)
  BY <1>2
<1>5. ~TooLarge(val, push) => before + size <= room
  BY <1>2
<1>6. TooLarge(val, push) => slice_push(val, push) = Undefined
  BY <1>1, <1>4
<1>7. ~TooLarge(val, push) => slice_push(val, push) = Array(type, slice.len + 1, old \o bytes_of(type, push.val))
  BY <1>1, <1>2, <1>3, <1>5
<1> QED BY <1>6, <1>7 DEF slice, size, old

\* A comparison reads only bytes of the two lists.
LEMMA EqualReads ==
  ASSUME NEW l, Good(l), IsList(l), NEW r, Good(r), IsList(r)
  PROVE  Comparable(l, r)
<1> DEFINE a == get_slice_info(l)
           b == get_slice_info(r)
           size == val_type_size(a.array.val_type)
<1>1. IsSlice(a) /\ IsSlice(b)
  BY InfoIsGood
<1> HIDE DEF a, b
<1>2. Holds(a.array, a.start * size, a.len * size)
  BY <1>1, BytesInside DEF Holds
<1>3. a.array.val_type = b.array.val_type => Holds(b.array, b.start * size, b.len * size)
  BY <1>1, BytesInside DEF Holds
<1> QED BY <1>2, <1>3 DEF a, b, Comparable

-----------------------------------------------------------------------------
\* slice_join makes an array that has its bytes.
LEMMA JoinResult ==
  ASSUME NEW l_val, Good(l_val), NEW r_val, Good(r_val),
         IsList(l_val) /\ IsList(r_val) => l_val.len + r_val.len <= MaxLen
  PROVE  LET result == slice_join(l_val, r_val)
         IN IsResult(result) \/ IsBroken(result, l_val, r_val)
<1> DEFINE l == get_slice_info(l_val)
           r == get_slice_info(r_val)
<1>1. CASE ~IsList(l_val) \/ ~IsList(r_val)
  BY <1>1, Faults DEF slice_join
<1>2. CASE IsList(l_val) /\ IsList(r_val) /\ (l.len = 0 \/ r.len = 0)
  <2>1. slice_join(l_val, r_val) = r_val \/ slice_join(l_val, r_val) = l_val
    BY <1>2 DEF slice_join
  <2> QED BY <2>1 DEF IsResult
<1>3. CASE /\ IsList(l_val) /\ IsList(r_val) /\ l.len # 0 /\ r.len # 0
           /\ l.array.val_type # r.array.val_type
  BY <1>3, Faults DEF slice_join
<1>4. CASE /\ IsList(l_val) /\ IsList(r_val) /\ l.len # 0 /\ r.len # 0
           /\ l.array.val_type = r.array.val_type
  <2> DEFINE type == l.array.val_type
             size == val_type_size(type)
             bytes == slice_bytes(l) \o slice_bytes(r)
  <2>1. \/ /\ slice_join(l_val, r_val) = Array(type, l.len + r.len, bytes)
           /\ (l.len + r.len) * size < Word
        \/ slice_join(l_val, r_val) = Undefined /\ TooLarge(l_val, r_val)
    BY <1>4, JoinMakes
  <2>2. /\ IsSlice(l) /\ l.len = l_val.len /\ l.len \in Nat /\ type \in ArrayTypes
        /\ \A i \in DOMAIN l.array.bytes : l.array.bytes[i] \in Bytes
    BY <1>4, InfoIsGood
  <2>3. /\ IsSlice(r) /\ r.len = r_val.len /\ r.len \in Nat
        /\ \A i \in DOMAIN r.array.bytes : r.array.bytes[i] \in Bytes
    BY <1>4, InfoIsGood
  <2>4. size = val_type_size(l.array.val_type) /\ size = val_type_size(r.array.val_type) /\ size \in Nat
    BY <1>4, SizeTyped
  <2> HIDE DEF l, r
  <2>5. /\ slice_bytes(l) \in Seq(Bytes) /\ Len(slice_bytes(l)) = l.len * size
        /\ slice_bytes(r) \in Seq(Bytes) /\ Len(slice_bytes(r)) = r.len * size
    BY <2>2, <2>3, <2>4, CopiedTyped
  <2>6. (l.len + r.len) * size = l.len * size + r.len * size
    BY <2>2, <2>3, <2>4, TimesPlus
  <2>7. bytes \in Seq(Bytes) /\ Len(bytes) = (l.len + r.len) * size
    <3>1. bytes \in Seq(Bytes) /\ Len(bytes) = Len(slice_bytes(l)) + Len(slice_bytes(r))
      BY <2>5, ConcatProperties
    <3> QED BY <2>5, <2>6, <3>1
  <2>8. l.len + r.len \in 0..MaxLen
    BY <1>4, <2>2, <2>3, BoundsTyped
  <2> HIDE DEF bytes, type
  <2>9. DOMAIN bytes = 1..((l.len + r.len) * size) /\ \A i \in 1..((l.len + r.len) * size) : bytes[i] \in Bytes
    BY <2>7, LenProperties
  <2> QED BY <2>1, <2>2, <2>8, <2>9, NewArray DEF IsResult, IsBroken, type
<1> QED BY <1>1, <1>2, <1>3, <1>4

\* slice_cons makes an array that has its bytes.
LEMMA ConsResult ==
  ASSUME NEW push, Good(push), NEW val, Good(val), IsList(val) => val.len + 1 <= MaxLen,
         NEW fresh \in [1..(IntSize - 1) -> Bytes]
  PROVE  LET result == slice_cons(push, val, fresh)
         IN IsResult(result) \/ IsBroken(result, push, val)
<1> DEFINE slice == Fitting(push, val)
           type == push.val_type
           size == val_type_size(type)
           first == bytes_of(type, push.val)
           copied == slice_bytes(slice)
           old == slice.len * size
           all == (slice.len + 1) * size
           bytes == [i \in 1..all |->
                       CASE 1 < i /\ i <= old + 1 -> copied[i - 1]
                         [] ~(1 < i /\ i <= old + 1) /\ i <= size -> first[i]
                         [] OTHER -> fresh[all - i + 1]]
<1>1. CASE IsFault(slice)
  <2>1. slice_cons(push, val, fresh) = slice
    BY <1>1 DEF slice_cons
  <2> QED BY <1>1, <2>1, FittingResult DEF IsResult
<1>2. CASE ~IsFault(slice) /\ TooLarge(push, val)
  BY <1>2, ConsMakes DEF IsBroken
<1>3. CASE ~IsFault(slice) /\ ~TooLarge(push, val)
  <2>1. slice_cons(push, val, fresh) = Array(type, slice.len + 1, bytes)
    BY <1>3, ConsMakes
  <2>11. (slice.len + 1) * val_type_size(type) < Word
    BY <1>3, Adding
  <2>2. /\ slice = get_slice_info(val) /\ IsList(val) /\ type \in ArrayTypes
        /\ push.val \in IF type = "INT" THEN I32 ELSE Bytes
        /\ slice.len > 0 => slice.array.val_type = type
    BY <1>3, FittingResult
  <2>3. /\ size \in Nat \ {0} /\ slice.len \in Nat /\ old \in Nat /\ all = old + size
        /\ slice.len > 0 => copied \in Seq(Bytes) /\ Len(copied) = old
    BY <2>2, BesideTyped
  <2>4. slice.len + 1 \in 0..MaxLen
    <3>1. slice.len = val.len
      BY <2>2, InfoIsGood
    <3>2. val.len + 1 <= MaxLen /\ MaxLen \in Nat /\ val.len \in Nat
      BY <2>2, <2>3, <3>1, BoundsTyped
    <3> QED BY <3>1, <3>2
  <2>5. first \in Seq(Bytes) /\ Len(first) = size
    <3>1. type \in ValueTypes
      BY <2>2 DEF ArrayTypes, ValueTypes
    <3> QED BY <2>2, <3>1, ValueBytesTyped
  <2>6. size <= IntSize /\ IntSize \in Nat \ {0}
    BY SizesAssumption DEF val_type_size
  <2>7. slice.len = 0 => old = 0
    BY <2>3
  <2> HIDE DEF slice, type, size, first, copied, old, all
  <2>8. ASSUME NEW i \in 1..all
        PROVE  bytes[i] \in Bytes
    <3>1. CASE 1 < i /\ i <= old + 1
      <4>1. i - 1 \in 1..old /\ slice.len > 0
        BY <2>3, <2>7, <3>1
      <4>2. copied[i - 1] \in Bytes
        BY <2>3, <4>1, LenProperties
      <4> QED BY <3>1, <4>2
    <3>2. CASE ~(1 < i /\ i <= old + 1) /\ i <= size
      <4>1. i \in 1..size
        BY <2>3, <3>2
      <4>2. first[i] \in Bytes
        BY <2>5, <4>1, LenProperties
      <4> QED BY <3>2, <4>2
    <3>3. CASE ~(1 < i /\ i <= old + 1) /\ ~(i <= size)
      <4>1. all - i + 1 \in 1..(IntSize - 1)
        BY <2>3, <2>6, <3>3
      <4>2. fresh[all - i + 1] \in Bytes
        BY <4>1
      <4> QED BY <3>3, <4>2
    <3> QED BY <3>1, <3>2, <3>3
  <2>9. DOMAIN bytes = 1..((slice.len + 1) * val_type_size(type))
    BY DEF all, size
  <2> HIDE DEF bytes
  <2>10. Good(Array(type, slice.len + 1, bytes))
    BY <2>2, <2>4, <2>8, <2>9, <2>11, NewArray DEF all, size
  <2> QED BY <2>1, <2>10 DEF IsResult
<1> QED BY <1>1, <1>2, <1>3

\* slice_push makes an array that has its bytes.
LEMMA PushResult ==
  ASSUME NEW val, Good(val), NEW push, Good(push), IsList(val) => val.len + 1 <= MaxLen
  PROVE  LET result == slice_push(val, push)
         IN IsResult(result) \/ IsBroken(result, val, push)
<1> DEFINE slice == Fitting(push, val)
           type == push.val_type
           size == val_type_size(type)
           old == IF slice.len = 0 THEN << >> ELSE slice_bytes(slice)
           last == bytes_of(type, push.val)
           bytes == old \o last
<1>1. CASE IsFault(slice)
  <2>1. slice_push(val, push) = slice
    BY <1>1 DEF slice_push
  <2> QED BY <1>1, <2>1, FittingResult DEF IsResult
<1>2. CASE ~IsFault(slice) /\ TooLarge(val, push)
  BY <1>2, PushMakes DEF IsBroken
<1>3. CASE ~IsFault(slice) /\ ~TooLarge(val, push)
  <2>1. slice_push(val, push) = Array(type, slice.len + 1, bytes)
    BY <1>3, PushMakes
  <2>11. (slice.len + 1) * val_type_size(type) < Word
    BY <1>3, Adding
  <2>2. /\ slice = get_slice_info(val) /\ IsList(val) /\ type \in ArrayTypes
        /\ push.val \in IF type = "INT" THEN I32 ELSE Bytes
        /\ slice.len > 0 => slice.array.val_type = type
    BY <1>3, FittingResult
  <2>3. /\ size \in Nat \ {0} /\ slice.len \in Nat /\ slice.len * size \in Nat
        /\ (slice.len + 1) * size = slice.len * size + size
        /\ slice.len > 0 => slice_bytes(slice) \in Seq(Bytes) /\ Len(slice_bytes(slice)) = slice.len * size
    BY <2>2, BesideTyped
  <2>4. slice.len + 1 \in 0..MaxLen
    <3>1. slice.len = val.len
      BY <2>2, InfoIsGood
    <3>2. val.len + 1 <= MaxLen /\ MaxLen \in Nat /\ val.len \in Nat
      BY <2>2, <2>3, <3>1, BoundsTyped
    <3> QED BY <3>1, <3>2
  <2>5. last \in Seq(Bytes) /\ Len(last) = size
    <3>1. type \in ValueTypes
      BY <2>2 DEF ArrayTypes, ValueTypes
    <3> QED BY <2>2, <3>1, ValueBytesTyped
  <2> HIDE DEF slice, type, size, last
  <2>6. old \in Seq(Bytes) /\ Len(old) = slice.len * size
    <3>1. CASE slice.len = 0
      <4>1. old = << >> /\ 0 * size = 0
        BY <2>3, <3>1
      <4> QED BY <3>1, <4>1, EmptySeq
    <3>2. CASE slice.len # 0
      BY <2>3, <3>2
    <3> QED BY <3>1, <3>2
  <2> HIDE DEF old
  <2>7. bytes \in Seq(Bytes) /\ Len(bytes) = Len(old) + Len(last)
    BY <2>5, <2>6, ConcatProperties
  <2>8. Len(bytes) = (slice.len + 1) * size
    <3> DEFINE before == slice.len * size
    <3>1. Len(old) = before /\ (slice.len + 1) * size = before + size
      BY <2>3, <2>6
    <3> QED BY <2>5, <2>7, <3>1
  <2> HIDE DEF bytes
  <2>9. /\ DOMAIN bytes = 1..((slice.len + 1) * size)
        /\ \A i \in 1..((slice.len + 1) * size) : bytes[i] \in Bytes
    BY <2>7, <2>8, LenProperties
  <2>10. Good(Array(type, slice.len + 1, bytes))
    BY <2>2, <2>4, <2>9, <2>11, NewArray DEF size
  <2> QED BY <2>1, <2>10 DEF IsResult
<1> QED BY <1>1, <1>2, <1>3

\* A comparison makes a truth value.
LEMMA EqualResult ==
  ASSUME NEW l, Good(l), NEW r, Good(r)
  PROVE  IsResult(equal(l, r))
<1>1. 0 \in Bytes /\ 1 \in Bytes
  BY SizesAssumption DEF Bytes
<1>2. Good(Box("BOOL", IF slice_equal(l, r) THEN 1 ELSE 0))
  BY <1>1, NewBox DEF ValueTypes
<1> QED BY <1>2, EqualReads, Faults DEF equal, IsResult

\* The empty list is an array of no bytes.
LEMMA EmptyResult == IsResult(slice_empty)
<1>1. << >> \in Seq(Bytes) /\ DOMAIN << >> = 1..0
  OBVIOUS
<1>2. 0 \in 0..MaxLen /\ 0 * val_type_size("INT") = 0 /\ 0 < Word
  BY BoundsTyped, SizeTyped
<1>3. Good(Array("INT", 0, << >>))
  BY <1>1, <1>2, NewArray DEF ArrayTypes
<1> QED BY <1>3 DEF slice_empty, IsResult

(* slice_functions.c and object.c: what a call reads and writes lies within *)
(* the memory of its arrays, except in join, cons and push when the array  *)
(* they make has so many bytes that their number, a u32, wraps: then, and  *)
(* only then, the memory of the new array is smaller than what is written. *)
THEOREM CopiesInside ==
  ASSUME NEW l, Good(l), NEW r, Good(r), NEW fresh
  PROVE  /\ slice_join(l, r).type = "undefined" <=>
              /\ IsList(l) /\ IsList(r) /\ l.len > 0 /\ r.len > 0
              /\ ElementType(l) = ElementType(r) /\ TooLarge(l, r)
         /\ slice_cons(l, r, fresh).type = "undefined" <=> ~IsFault(Fitting(l, r)) /\ TooLarge(l, r)
         /\ slice_push(l, r).type = "undefined" <=> ~IsFault(Fitting(r, l)) /\ TooLarge(l, r)
         /\ \A result \in {slice_index(l, r), slice_drop(l, r), slice_take(l, r), equal(l, r), slice_len(l)} :
              result.type # "undefined"
<1>1. \A val : IsResult(val) => val.type # "undefined"
  BY GoodKinds DEF IsResult, IsFault
<1>2. \A result \in {slice_index(l, r), slice_drop(l, r), slice_take(l, r), equal(l, r), slice_len(l)} :
        result.type # "undefined"
  BY <1>1, IndexResult, DropResult, TakeResult, EqualResult, LenResult
<1>3. slice_join(l, r).type = "undefined" <=>
        /\ IsList(l) /\ IsList(r) /\ l.len > 0 /\ r.len > 0
        /\ ElementType(l) = ElementType(r) /\ TooLarge(l, r)
  <2> DEFINE a == get_slice_info(l)
             b == get_slice_info(r)
             result == slice_join(l, r)
  <2>1. CASE ~IsList(l) \/ ~IsList(r)
    BY <1>1, <2>1, Faults DEF slice_join
  <2>2. CASE IsList(l) /\ IsList(r)
    <3>1. /\ a.len = l.len /\ b.len = r.len /\ a.len \in Nat /\ b.len \in Nat
          /\ ElementType(l) = a.array.val_type /\ ElementType(r) = b.array.val_type
      BY <2>2, InfoIsGood DEF ElementType
    <3>2. CASE l.len = 0 \/ r.len = 0
      <4>1. result = l \/ result = r
        BY <2>2, <3>1, <3>2 DEF slice_join
      <4>2. result.type # "undefined"
        BY <1>1, <4>1 DEF IsResult
      <4> HIDE DEF a, b, result
      <4> QED BY <3>2, <4>2 DEF result
    <3>3. CASE l.len # 0 /\ r.len # 0 /\ a.array.val_type # b.array.val_type
      <4>1. result = Error
        BY <2>2, <3>1, <3>3 DEF slice_join
      <4> QED BY <1>1, <3>1, <3>3, <4>1, Faults
    <3>4. CASE l.len # 0 /\ r.len # 0 /\ a.array.val_type = b.array.val_type
      <4>1. CASE TooLarge(l, r)
        <5>1. result = Undefined /\ l.len > 0 /\ r.len > 0
          BY <2>2, <3>1, <3>4, <4>1, JoinMakes
        <5> QED BY <2>2, <3>1, <3>4, <4>1, <5>1, Faults
      <4>2. CASE ~TooLarge(l, r)
        <5>1. result.type = "ARRAY"
          BY <2>2, <3>1, <3>4, <4>2, JoinMakes DEF Array
        <5> QED BY <4>2, <5>1
      <4> QED BY <4>1, <4>2
    <3> QED BY <3>2, <3>3, <3>4
  <2> QED BY <2>1, <2>2
<1>4. slice_cons(l, r, fresh).type = "undefined" <=> ~IsFault(Fitting(l, r)) /\ TooLarge(l, r)
  <2>1. CASE IsFault(Fitting(l, r))
    <3>1. slice_cons(l, r, fresh) = Fitting(l, r)
      BY <2>1 DEF slice_cons
    <3> QED BY <1>1, <2>1, <3>1, FittingResult
  <2>2. CASE ~IsFault(Fitting(l, r)) /\ TooLarge(l, r)
    BY <2>2, ConsMakes, Faults
  <2>3. CASE ~IsFault(Fitting(l, r)) /\ ~TooLarge(l, r)
    <3>1. slice_cons(l, r, fresh).type = "ARRAY"
      BY <2>3, ConsMakes DEF Array
    <3> QED BY <2>3, <3>1
  <2> QED BY <2>1, <2>2, <2>3
<1>5. slice_push(l, r).type = "undefined" <=> ~IsFault(Fitting(r, l)) /\ TooLarge(l, r)
  <2>1. CASE IsFault(Fitting(r, l))
    <3>1. slice_push(l, r) = Fitting(r, l)
      BY <2>1 DEF slice_push
    <3> QED BY <1>1, <2>1, <3>1, FittingResult
  <2>2. CASE ~IsFault(Fitting(r, l)) /\ TooLarge(l, r)
    BY <2>2, PushMakes, Faults
  <2>3. CASE ~IsFault(Fitting(r, l)) /\ ~TooLarge(l, r)
    <3> DEFINE slice == Fitting(r, l)
               old == IF slice.len = 0 THEN << >> ELSE slice_bytes(slice)
               bytes == old \o bytes_of(r.val_type, r.val)
    <3>1. slice_push(l, r) = Array(r.val_type, slice.len + 1, bytes)
      BY <2>3, PushMakes
    <3> HIDE DEF slice, bytes
    <3>2. slice_push(l, r).type = "ARRAY"
      BY <3>1 DEF Array
    <3> QED BY <2>3, <3>2
  <2> QED BY <2>1, <2>2, <2>3
<1> QED BY <1>2, <1>3, <1>4, <1>5

-----------------------------------------------------------------------------
(* The stack.                                                              *)
LEMMA TopIsGood ==
  ASSUME AllGood(stack), NEW n \in Nat \ {0}, n <= Len(stack)
  PROVE  Good(Top(n))
<1>1. PICK S : stack \in Seq(S) /\ \A val \in S : Good(val)
  BY DEF AllGood
<1>2. Len(stack) + 1 - n \in 1..Len(stack)
  BY <1>1, LenProperties
<1> QED BY <1>1, <1>2, LenProperties DEF Top

\* A function that returns leaves good values on the stack.
LEMMA ReturnsGood ==
  ASSUME IInv, NEW n \in Nat, NEW result, Returns(n, result),
         IsResult(result) \/ (Len(stack) >= 2 /\ IsBroken(result, Top(1), Top(2)))
  PROVE  IInv'
<1>1. PICK S : stack \in Seq(S) /\ \A val \in S : Good(val)
  BY DEF IInv, AllGood
<1>2. Popped(n) \in Seq(S)
  <2>1. Len(stack) \in Nat /\ n <= Len(stack) /\ \A i \in 1..(Len(stack) - n) : stack[i] \in S
    BY <1>1, LenProperties DEF Returns
  <2> QED BY <2>1, SubSeqProperties DEF Popped
<1>3. CASE IsFault(result) /\ IsResult(result)
  <2>1. result.type \in {"error", "panic"}
    BY <1>3, GoodKinds DEF IsResult
  <2>2. stack' = Popped(n) /\ status' = result.type
    BY <1>3, <2>1 DEF Returns
  <2> QED BY <1>1, <1>2, <2>1, <2>2 DEF IInv, AllGood
<1>5. CASE Len(stack) >= 2 /\ IsBroken(result, Top(1), Top(2))
  <2>1. stack' = stack /\ status' = "undefined"
    BY <1>5, Faults DEF Returns, IsBroken
  <2>2. Len(stack') >= 2 /\ TooLarge(Top(1), Top(2))'
    BY <1>5, <2>1 DEF IsBroken, TooLarge, Count, ElementType, Top
  <2> QED BY <1>1, <2>1, <2>2 DEF IInv, AllGood
<1>4. CASE ~IsFault(result) /\ IsResult(result)
  <2>1. stack' = Append(Popped(n), result) /\ status' = "running" /\ Good(result)
    BY <1>4 DEF Returns, IsResult, IsFault
  <2> DEFINE T == S \union {result}
  <2>2. Popped(n) \in Seq(T)
    BY <1>2
  <2>3. stack' \in Seq(T) /\ \A val \in T : Good(val)
    BY <1>1, <2>1, <2>2, AppendProperties
  <2> QED BY <2>1, <2>3 DEF IInv, AllGood
<1> QED BY <1>3, <1>4, <1>5

\* The stack is empty at first.
LEMMA InitGood == Init => IInv
<1> SUFFICES ASSUME Init
             PROVE  IInv
  OBVIOUS
<1>1. stack \in Seq({}) /\ \A val \in {} : Good(val)
  BY EmptySeq DEF Init
<1> QED BY <1>1 DEF Init, IInv, AllGood

\* Every call leaves good values on the stack.
LEMMA NextGood == IInv /\ [Next]_vars => IInv'
<1> SUFFICES ASSUME IInv, [Next]_vars
             PROVE  IInv'
  OBVIOUS
<1>1. AllGood(stack) /\ (\A n \in {1, 2} : n <= Len(stack) => Good(Top(n)))
  BY TopIsGood DEF IInv
<1>2. Len(stack) \in Nat
  BY <1>1, LenProperties DEF AllGood
<1>3. Len(stack) >= 2 => Good(Top(1)) /\ Good(Top(2))
  BY <1>1, <1>2
<1>4. ASSUME NEW val \in Constants, PushConst(val)
      PROVE  IInv'
  <2>1. IsResult(val) /\ Returns(0, val)
    BY <1>4, ConstantsAssumption DEF PushConst, IsResult, Good
  <2> QED BY <2>1, ReturnsGood
<1>5. CASE SliceEmpty
  BY <1>5, EmptyResult, ReturnsGood DEF SliceEmpty
<1>6. CASE SliceDrop
  <2>1. Returns(2, slice_drop(Top(1), Top(2))) /\ IsResult(slice_drop(Top(1), Top(2)))
    BY <1>3, <1>6, DropResult DEF SliceDrop
  <2> QED BY <2>1, ReturnsGood
<1>7. CASE SliceTake
  <2>1. Returns(2, slice_take(Top(1), Top(2))) /\ IsResult(slice_take(Top(1), Top(2)))
    BY <1>3, <1>7, TakeResult DEF SliceTake
  <2> QED BY <2>1, ReturnsGood
<1>8. CASE ReadSliceIndex
  <2>1. Returns(2, slice_index(Top(1), Top(2))) /\ IsResult(slice_index(Top(1), Top(2)))
    BY <1>3, <1>8, IndexResult DEF ReadSliceIndex
  <2> QED BY <2>1, ReturnsGood
<1>9. CASE SliceLen
  <2>1. Good(Top(1))
    BY <1>1, <1>2, <1>9 DEF SliceLen
  <2>2. Returns(1, slice_len(Top(1))) /\ IsResult(slice_len(Top(1)))
    BY <1>9, <2>1, LenResult DEF SliceLen
  <2> QED BY <2>2, ReturnsGood
<1>10. CASE SliceJoin
  <2> DEFINE result == slice_join(Top(1), Top(2))
  <2>1. Len(stack) >= 2 /\ Returns(2, result) /\ (IsResult(result) \/ IsBroken(result, Top(1), Top(2)))
    BY <1>3, <1>10, JoinResult DEF SliceJoin, Fits
  <2> QED BY <2>1, ReturnsGood
<1>11. CASE SliceCons
  <2>1. PICK fresh \in [1..(IntSize - 1) -> Bytes] : Returns(2, slice_cons(Top(1), Top(2), fresh))
    BY <1>11 DEF SliceCons
  <2> DEFINE result == slice_cons(Top(1), Top(2), fresh)
  <2>2. Len(stack) >= 2 /\ (IsResult(result) \/ IsBroken(result, Top(1), Top(2)))
    BY <1>3, <1>11, ConsResult DEF SliceCons, Short, Fits
  <2> QED BY <2>1, <2>2, ReturnsGood
<1>12. CASE SlicePush
  <2> DEFINE result == slice_push(Top(1), Top(2))
  <2>1. Len(stack) >= 2 /\ Returns(2, result) /\ (IsResult(result) \/ IsBroken(result, Top(1), Top(2)))
    BY <1>3, <1>12, PushResult DEF SlicePush, Short, Fits
  <2> QED BY <2>1, ReturnsGood
<1>13. CASE SliceEqual
  <2>1. Returns(2, equal(Top(1), Top(2))) /\ IsResult(equal(Top(1), Top(2)))
    BY <1>3, <1>13, EqualResult DEF SliceEqual
  <2> QED BY <2>1, ReturnsGood
<1>14. CASE UNCHANGED vars
  BY <1>14 DEF vars, IInv, AllGood, TooLarge, Count, ElementType, Top
<1> QED BY <1>4, <1>5, <1>6, <1>7, <1>8, <1>9, <1>10, <1>11, <1>12, <1>13, <1>14 DEF Next

\* Good values lie within their arrays and are of their types.
LEMMA GoodIsTyped == IInv => InArray /\ TypeOK
<1> SUFFICES ASSUME IInv
             PROVE  InArray /\ TypeOK
  OBVIOUS
<1>1. PICK S : stack \in Seq(S) /\ \A val \in S : Good(val)
  BY DEF IInv, AllGood
<1>2. \A i \in DOMAIN stack : Good(stack[i])
  BY <1>1, LenProperties
<1> QED BY <1>2 DEF InArray, TypeOK, Good, IInv

(* The bytes of every array are bytes, and what is in a box fits in it.    *)
THEOREM TypeCorrect == Spec => []TypeOK
<1> QED BY InitGood, NextGood, GoodIsTyped, PTL DEF Spec

(* Every slice lies within its array and every array has its bytes, after  *)
(* any calls of the functions of slice_functions.c; and when a call has    *)
(* read or written outside, the array it made has too many bytes for a u32 *)
(* to count (object.c).                                                    *)
THEOREM StaysInArray == Spec => []InArray
<1> QED BY InitGood, NextGood, GoodIsTyped, PTL DEF Spec

-----------------------------------------------------------------------------
(***************************************************************************)
(* Slices implements SliceSpec.                                            *)
(***************************************************************************)
Elt == [type : ValueTypes, val : Int]
At(slice, i) == [type |-> slice.array.val_type, val |-> element(slice.array, slice.start + i - 1)]
\* The bytes of element i of array a are those of element j of b, or those of a word.
SameBytes(a, i, b, j, size) == \A k \in 1..size : a.bytes[i * size + k] = b.bytes[j * size + k]
HasBytes(a, i, word, size) == \A k \in 1..size : a.bytes[i * size + k] = word[k]

-----------------------------------------------------------------------------
\* The lengths are numbers of the machine.
LEMMA ShortLengths == MaxLen < Word
<1> DEFINE w == Word
<1>1. w \in Nat \ {0} /\ MaxLen \in Nat /\ MaxLen < w \div 2
  BY BoundsTyped, LengthsAssumption
<1> HIDE DEF w
<1>2. w \div 2 \in Nat /\ w \div 2 <= w
  BY <1>1
<1>3. MaxLen < w
  BY <1>1, <1>2
<1> QED BY <1>3 DEF w

(* A number that is negative as an i32 is larger, as a u32, than any       *)
(* length; others are the same in both.                                    *)
LEMMA Signs ==
  ASSUME NEW i \in I32
  PROVE  /\ i \in Int
         /\ i >= 0 => u32(i) = i /\ i < Word \div 2 /\ i < Word
         /\ i < 0 => u32(i) > MaxLen /\ u32(i) < Word /\ u32(i) \in Nat
         /\ u32(i) = 0 <=> i = 0
<1> DEFINE w == Word
           half == Word \div 2
<1>1. w \in Nat \ {0} /\ half \in Nat /\ half <= w /\ 2 * half <= w
      /\ MaxLen \in Nat /\ MaxLen < half
  <2>1. w \in Nat \ {0} /\ MaxLen \in Nat /\ MaxLen < half
    BY BoundsTyped, LengthsAssumption
  <2> HIDE DEF w
  <2>2. w \div 2 \in Nat /\ w \div 2 <= w /\ 2 * (w \div 2) <= w
    BY <2>1
  <2> QED BY <2>1, <2>2 DEF w
<1>2. PICK n \in 0..(w - 1) : i = IF n < half THEN n ELSE n - w
  BY DEF I32, i32
<1>3. u32(i) = i % w
  BY DEF u32
<1> HIDE DEF w, half
<1>4. CASE n < half
  <2>1. i = n /\ i % w = i
    BY <1>1, <1>2, <1>4
  <2> QED BY <1>1, <1>2, <1>3, <1>4, <2>1 DEF w, half
<1>5. CASE ~(n < half)
  <2>1. i = n - w /\ n \in Nat /\ half <= n /\ n < w
    BY <1>1, <1>2, <1>5
  <2>2. (n - w) % w = n
    BY <1>1, <2>1
  <2>3. i < 0 /\ u32(i) = n
    BY <1>1, <1>3, <2>1, <2>2
  <2> QED BY <1>1, <2>1, <2>3 DEF w
<1> QED BY <1>4, <1>5

\* A length is the same number with and without a sign.
LEMMA ShortIsPositive ==
  ASSUME NEW n \in 0..MaxLen
  PROVE  i32(n) = n /\ n \in I32
<1>1. Word \in Nat \ {0} /\ Word \div 2 \in Nat /\ n < Word \div 2 /\ n < Word /\ MaxLen \in Nat
  <2> DEFINE w == Word
  <2>1. w \in Nat \ {0} /\ MaxLen \in Nat /\ MaxLen < w \div 2 /\ MaxLen < w
    BY BoundsTyped, LengthsAssumption, ShortLengths
  <2> HIDE DEF w
  <2>2. w \div 2 \in Nat /\ n < w \div 2 /\ n < w
    BY <2>1
  <2> QED BY <2>1, <2>2 DEF w
<1>2. i32(n) = n
  BY <1>1 DEF i32
<1>3. n \in 0..(Word - 1)
  BY <1>1
<1> QED BY <1>2, <1>3 DEF I32

-----------------------------------------------------------------------------
(* The elements of a list.                                                 *)
LEMMA ElementsSeq ==
  ASSUME NEW val, Good(val), IsList(val)
  PROVE  LET slice == get_slice_info(val)
         IN /\ val.len \in 0..MaxLen /\ slice.len = val.len
            /\ Elements(val) \in Seq(Elt) /\ Len(Elements(val)) = val.len
            /\ DOMAIN Elements(val) = 1..val.len
            /\ \A i \in 1..val.len : /\ Elements(val)[i] = At(slice, i)
                                     /\ slice.start + i - 1 \in Nat
                                     /\ slice.start + i - 1 < slice.array.len
<1> DEFINE slice == get_slice_info(val)
<1>1. /\ IsSlice(slice) /\ slice.len = val.len /\ slice.type = "SLICE"
      /\ IsArray(slice.array) /\ slice.start \in 0..(Word - 1) /\ slice.len \in Nat
      /\ slice.array.len \in 0..MaxLen /\ slice.array.val_type \in ArrayTypes
      /\ slice.len > 0 => slice.start + slice.len <= slice.array.len
      /\ \A i \in DOMAIN slice.array.bytes : slice.array.bytes[i] \in Bytes
  BY InfoIsGood
<1>2. Elements(val) = [i \in 1..slice.len |-> At(slice, i)]
  BY DEF Elements, At
<1> HIDE DEF slice
<1>3. slice.start \in Nat /\ MaxLen \in Nat
  BY <1>1, BoundsTyped
<1>4. ASSUME NEW i \in 1..slice.len
      PROVE  /\ slice.start + i - 1 \in Nat /\ slice.start + i - 1 < slice.array.len
             /\ At(slice, i) \in Elt
  <2>1. slice.start + i - 1 \in Nat /\ slice.start + i - 1 < slice.array.len
    BY <1>1, <1>3
  <2>2. element(slice.array, slice.start + i - 1)
          \in IF slice.array.val_type = "INT" THEN I32 ELSE Bytes
    BY <1>1, <2>1, ElementTyped
  <2>3. element(slice.array, slice.start + i - 1) \in Int
    BY <2>2, IntegersTyped, SizesAssumption DEF Bytes
  <2>4. slice.array.val_type \in ValueTypes
    BY <1>1 DEF ArrayTypes, ValueTypes
  <2> QED BY <2>1, <2>3, <2>4 DEF At, Elt
<1>5. Elements(val) \in [1..slice.len -> Elt]
  BY <1>2, <1>4
<1>6. Elements(val) \in Seq(Elt)
  BY <1>1, <1>5, SeqDef
<1>7. Len(Elements(val)) = slice.len
  BY <1>1, <1>5, <1>6, LenProperties
<1>8. slice.len \in 0..MaxLen
  BY <1>1, <1>3
<1> QED BY <1>1, <1>2, <1>4, <1>5, <1>6, <1>7, <1>8 DEF slice

(* A slice of a good array, and its elements.                              *)
LEMMA ElementsOfSlice ==
  ASSUME NEW array, NEW start, NEW len
  PROVE  /\ IsList(Slice(array, start, len)) /\ Slice(array, start, len).len = len
         /\ get_slice_info(Slice(array, start, len)) = Slice(array, start, len)
         /\ \A i : At(Slice(array, start, len), i)
                     = [type |-> array.val_type, val |-> element(array, start + i - 1)]
BY DEF Slice, IsList, get_slice_info, At

(* The elements of the part of a slice from an element on, so many of them. *)
LEMMA PartOf ==
  ASSUME NEW val, Good(val), IsList(val), NEW from \in Nat, NEW len \in Nat, from + len <= val.len,
         NEW part, Good(part), part = Slice(get_slice_info(val).array, get_slice_info(val).start + from, len)
  PROVE  Elements(part) = SubSeq(Elements(val), from + 1, from + len)
<1> DEFINE slice == get_slice_info(val)
           sub == SubSeq(Elements(val), from + 1, from + len)
<1>1. /\ IsList(part) /\ part.len = len /\ get_slice_info(part) = part
      /\ \A i : At(part, i) = [type |-> slice.array.val_type,
                               val |-> element(slice.array, slice.start + from + i - 1)]
  BY ElementsOfSlice
<1>2. /\ Elements(val) \in Seq(Elt) /\ Len(Elements(val)) = val.len /\ val.len \in Nat
      /\ DOMAIN Elements(val) = 1..val.len
      /\ \A i \in 1..val.len : Elements(val)[i] = At(slice, i)
  BY ElementsSeq
<1>3. /\ Elements(part) \in Seq(Elt) /\ Len(Elements(part)) = len
      /\ \A i \in 1..len : Elements(part)[i] = At(part, i)
  BY <1>1, ElementsSeq
<1>4. slice.start \in Int
  BY InfoIsGood, BoundsTyped
<1>5. \A i \in (from + 1)..(from + len) : Elements(val)[i] \in Elt
  BY <1>2, ElementOfSeq
<1>6. /\ sub \in Seq(Elt) /\ Len(sub) = len
      /\ \A i \in 1..len : sub[i] = Elements(val)[from + 1 + i - 1]
  BY <1>5, SubSeqProperties
<1> HIDE DEF slice, sub
<1>7. ASSUME NEW i \in 1..len
      PROVE  Elements(part)[i] = sub[i]
  <2>1. from + 1 + i - 1 \in 1..val.len /\ from + 1 + i - 1 = from + i
    BY <1>2
  <2>2. sub[i] = At(slice, from + i)
    BY <1>2, <1>6, <2>1
  <2>3. slice.start + (from + i) - 1 = slice.start + from + i - 1
    BY <1>4
  <2>4. At(slice, from + i) = At(part, i)
    BY <1>1, <2>3 DEF At
  <2> QED BY <1>3, <2>2, <2>4
<1> QED BY <1>3, <1>6, <1>7, SameSeq DEF sub

-----------------------------------------------------------------------------
(* What each function does to the elements.                                *)
LEMMA DropMeans ==
  ASSUME NEW index, Good(index), IsIndex(index), NEW val, Good(val), IsList(val), index.val # 0
  PROVE  LET n == index.val
             result == slice_drop(index, val)
         IN /\ IsList(result) /\ Good(result)
            /\ Elements(result) = IF n < 0 THEN << >> ELSE SubSeq(Elements(val), n + 1, Len(Elements(val)))
<1> DEFINE slice == get_slice_info(val)
           i == index.val
           n == u32(i)
           start == (slice.start + n) % Word
           len == IF slice.len <= n THEN 0 ELSE slice.len - n
           result == slice_drop(index, val)
<1>1. result = Slice(slice.array, start, len)
  BY DEF slice_drop
<1>2. Good(result)
  <2>1. IsResult(result)
    BY DropResult
  <2>2. ~IsFault(result)
    BY <1>1 DEF IsFault, Slice
  <2> QED BY <2>1, <2>2 DEF IsResult, IsFault
<1>3. i \in I32 /\ i \in Int
  BY GoodKinds, IntegersTyped DEF IsIndex
<1>4. /\ i > 0 => n = i /\ n < Word
      /\ i < 0 => n > MaxLen /\ n \in Nat
      /\ MaxLen \in Nat /\ MaxLen < Word /\ Word \in Nat
  BY <1>3, Signs, BoundsTyped, ShortLengths
<1>5. /\ slice.start \in 0..(Word - 1) /\ slice.len = val.len /\ slice.array.len \in 0..MaxLen
      /\ slice.len > 0 => slice.start + slice.len <= slice.array.len
  BY InfoIsGood
<1>6. /\ val.len \in 0..MaxLen /\ Len(Elements(val)) = val.len
  BY ElementsSeq
<1>7. IsList(result) /\ result.len = len
  BY <1>1, ElementsOfSlice
<1>8. CASE len = 0
  <2>1. Elements(result) = << >>
    <3>1. Len(Elements(result)) = 0 /\ Elements(result) \in Seq(Elt)
      BY <1>2, <1>7, <1>8, ElementsSeq
    <3> QED BY <3>1, EmptySeq
  <2>2. i > 0 => Len(Elements(val)) < i + 1
    <3>1. val.len <= n
      BY <1>5, <1>6, <1>8, <1>4, <1>3
    <3> QED BY <3>1, <1>3, <1>4, <1>6
  <2>3. i > 0 => SubSeq(Elements(val), i + 1, Len(Elements(val))) = << >>
    BY <2>2, <1>3, <1>6, SubSeqEmpty
  <2>4. i < 0 \/ (i > 0 /\ ~(i < 0))
    BY <1>3
  <2> HIDE DEF result, len
  <2>5. Elements(result) = IF i < 0 THEN << >> ELSE SubSeq(Elements(val), i + 1, Len(Elements(val)))
    BY <2>1, <2>3, <2>4
  <2> QED BY <1>2, <1>7, <2>5 DEF result
<1>9. CASE len # 0
  <2> HIDE DEF slice, i, n, result
  <2>1. i > 0 /\ n = i /\ n < val.len /\ len = val.len - n
    BY <1>3, <1>4, <1>5, <1>6, <1>9 DEF i
  <2>2. start = slice.start + n
    <3>1. slice.start + n \in 0..(Word - 1)
      BY <1>3, <1>4, <1>5, <1>6, <2>1
    <3> QED BY <3>1, Wraps
  <2>3. n \in Nat /\ len \in Nat /\ n + len <= val.len /\ n + len = Len(Elements(val))
    BY <1>3, <1>6, <2>1
  <2>4. Elements(result) = SubSeq(Elements(val), n + 1, n + len)
    <3>1. start = get_slice_info(val).start + n /\ result = Slice(get_slice_info(val).array, start, len)
      BY <1>1, <2>2 DEF slice
    <3> HIDE DEF start, len
    <3> QED BY <1>2, <2>3, <3>1, PartOf
  <2>5. Elements(result) = SubSeq(Elements(val), i + 1, Len(Elements(val))) /\ ~(i < 0)
    <3>1. n + len = Len(Elements(val)) /\ n = i /\ ~(i < 0)
      BY <1>3, <2>1, <2>3 DEF i
    <3> HIDE DEF len
    <3> QED BY <2>4, <3>1
  <2> QED BY <1>2, <1>7, <2>5 DEF result, i
<1> QED BY <1>8, <1>9

\* slice_take is the first so many elements.
LEMMA TakeMeans ==
  ASSUME NEW index, Good(index), IsIndex(index), NEW val, Good(val), IsList(val), index.val # 0
  PROVE  LET n == index.val
             result == slice_take(index, val)
         IN /\ IsList(result) /\ Good(result)
            /\ n < 0 => Elements(result) = Elements(val)
            /\ n > 0 => Elements(result)
                           = SubSeq(Elements(val), 1, IF n < Len(Elements(val)) THEN n ELSE Len(Elements(val)))
<1> DEFINE slice == get_slice_info(val)
           i == index.val
           n == u32(i)
           len == IF slice.len <= n THEN slice.len ELSE n
           result == slice_take(index, val)
<1>1. result = Slice(slice.array, slice.start, len)
  BY DEF slice_take
<1>2. Good(result)
  <2>1. IsResult(result)
    BY TakeResult
  <2>2. ~IsFault(result)
    BY <1>1 DEF IsFault, Slice
  <2> QED BY <2>1, <2>2 DEF IsResult, IsFault
<1>3. i \in I32 /\ i \in Int
  BY GoodKinds, IntegersTyped DEF IsIndex
<1>4. /\ i > 0 => n = i
      /\ i < 0 => n > MaxLen /\ n \in Nat
      /\ MaxLen \in Nat
  BY <1>3, Signs, BoundsTyped
<1>5. slice.start \in Int /\ slice.len = val.len
  BY InfoIsGood, BoundsTyped
<1>6. val.len \in 0..MaxLen /\ Len(Elements(val)) = val.len /\ Elements(val) \in Seq(Elt)
  BY ElementsSeq
<1>7. IsList(result)
  BY <1>1, ElementsOfSlice
<1> HIDE DEF slice, i, n, result
<1>8. len \in Nat /\ 0 + len <= val.len /\ slice.start + 0 = slice.start
  BY <1>3, <1>4, <1>5, <1>6 DEF i
<1>9. Elements(result) = SubSeq(Elements(val), 1, len)
  <2> HIDE DEF len
  <2>1. Elements(result) = SubSeq(Elements(val), 0 + 1, 0 + len)
    BY <1>1, <1>2, <1>8, PartOf DEF slice
  <2> QED BY <1>8, <2>1
<1>10. i < 0 => Elements(result) = Elements(val)
  BY <1>3, <1>4, <1>5, <1>6, <1>9, SubSeqFull
<1>11. i > 0 => len = IF i < Len(Elements(val)) THEN i ELSE Len(Elements(val))
  BY <1>3, <1>4, <1>5, <1>6
<1> QED BY <1>2, <1>7, <1>9, <1>10, <1>11 DEF result, i

\* slice_index is the element of that number.
LEMMA IndexMeans ==
  ASSUME NEW index, Good(index), NEW val, Good(val)
  PROVE  LET result == slice_index(index, val)
             InRange == IsIndex(index) /\ IsList(val) /\ index.val \in 0..(Len(Elements(val)) - 1)
         IN /\ InRange => result.type = "BOX" /\ Meaning(result) = [kind |-> "box", of |-> Elements(val)[index.val + 1]]
            /\ ~InRange => result = Error
<1> DEFINE slice == get_slice_info(val)
           i == index.val
           n == u32(i)
           read_index == (slice.start + n) % Word
           result == slice_index(index, val)
<1>1. CASE ~IsIndex(index) \/ ~IsList(val)
  BY <1>1 DEF slice_index
<1>2. CASE IsIndex(index) /\ IsList(val)
  <2>1. i \in I32 /\ i \in Int
    BY <1>2, GoodKinds, IntegersTyped DEF IsIndex
  <2>2. /\ i >= 0 => n = i /\ n < Word
        /\ i < 0 => n > MaxLen /\ n \in Nat /\ n < Word
        /\ MaxLen \in Nat /\ MaxLen < Word /\ Word \in Nat
    BY <2>1, Signs, BoundsTyped, ShortLengths
  <2>3. /\ slice.start \in 0..(Word - 1) /\ slice.len = val.len /\ slice.array.len \in 0..MaxLen
        /\ slice.len > 0 => slice.start + slice.len <= slice.array.len
    BY <1>2, InfoIsGood
  <2>4. /\ val.len \in 0..MaxLen /\ Len(Elements(val)) = val.len
        /\ \A k \in 1..val.len : Elements(val)[k] = At(slice, k)
    BY <1>2, ElementsSeq
  <2>5. CASE i \in 0..(val.len - 1)
    <3> HIDE DEF slice, i, n
    <3>1. slice.start + n \in 0..(Word - 1) /\ slice.start + n < slice.array.len /\ n < slice.len /\ n = i
      <4>1. val.len \in Nat /\ i \in Nat /\ i < val.len /\ n = i /\ slice.len = val.len
        BY <2>1, <2>2, <2>3, <2>4, <2>5
      <4>2. /\ slice.start \in Nat /\ slice.array.len \in Nat /\ slice.array.len < Word
            /\ slice.start + slice.len <= slice.array.len
        BY <2>2, <2>3, <4>1
      <4> QED BY <2>2, <4>1, <4>2
    <3>2. read_index = slice.start + n
      BY <3>1, Wraps
    <3>3. ~(read_index >= slice.array.len) /\ ~(slice.len <= n)
      BY <2>1, <2>3, <2>4, <3>1, <3>2
    <3>4. result = Box(slice.array.val_type, element(slice.array, slice.start + n))
      <4> DEFINE size == val_type_size(slice.array.val_type)
      <4>1. IsArray(slice.array) /\ \A k \in DOMAIN slice.array.bytes : slice.array.bytes[k] \in Bytes
        BY <1>2, InfoIsGood DEF slice
      <4>2. slice.start + n \in Nat
        BY <3>1, BoundsTyped
      <4>3. Holds(slice.array, read_index * size, size)
        BY <3>1, <3>2, <4>1, <4>2, ElementTyped DEF Holds
      <4> QED BY <1>2, <3>2, <3>3, <4>3 DEF slice_index, slice, i, n
    <3>5. Elements(val)[i + 1] = At(slice, i + 1) /\ slice.start + (i + 1) - 1 = slice.start + i
      <4>1. i + 1 \in 1..val.len /\ i \in Nat /\ slice.start \in Nat
        BY <2>1, <2>3, <2>4, <2>5
      <4>2. slice.start + (i + 1) - 1 = slice.start + i
        BY ONLY <4>1
      <4> QED BY ONLY <2>4, <4>1, <4>2
    <3> QED BY <1>2, <2>4, <2>5, <3>1, <3>4, <3>5 DEF i, Box, Meaning, At
  <2>6. CASE i \notin 0..(val.len - 1)
    <3>1. slice.len <= n
      BY <2>1, <2>2, <2>3, <2>4, <2>6
    <3>2. val.type = "ARRAY" => slice.start = 0 /\ slice.array.len = val.len
      BY DEF get_slice_info, Slice
    <3>3. val.type = "ARRAY" => read_index = n
      <4>1. n \in 0..(Word - 1) /\ 0 + n = n
        BY <2>1, <2>2
      <4> QED BY <3>2, <4>1, Wraps
    <3>4. result = Error
      BY <1>2, <2>3, <3>1, <3>2, <3>3 DEF slice_index, IsList
    <3> QED BY <2>4, <2>6, <3>4
  <2> QED BY <2>5, <2>6
<1> QED BY <1>1, <1>2

\* slice_len is the number of elements.
LEMMA LenMeans ==
  ASSUME NEW val, Good(val)
  PROVE  /\ IsList(val) => /\ slice_len(val) = Box("INT", Len(Elements(val)))
                          /\ Meaning(slice_len(val)) = [kind |-> "box", of |-> [type |-> "INT", val |-> Len(Elements(val))]]
         /\ ~IsList(val) => slice_len(val) = Error
<1>1. ASSUME IsList(val)
      PROVE  slice_len(val) = Box("INT", Len(Elements(val)))
  BY <1>1, ElementsSeq, ShortIsPositive DEF slice_len
<1> QED BY <1>1 DEF slice_len, Meaning, Box

-----------------------------------------------------------------------------
(* Where the bytes of an element are.                                      *)
LEMMA BytePlace ==
  ASSUME NEW size \in Nat \ {0}, NEW n \in Nat, NEW e \in 0..(n - 1), NEW k \in 1..size
  PROVE  e * size + k \in 1..(n * size) /\ e * size \in Nat /\ n * size \in Nat
<1>1. (e + 1) * size = e * size + 1 * size /\ e * size \in Nat /\ 1 * size = size
  BY TimesPlus
<1>2. (e + 1) * size <= n * size /\ n * size \in Nat
  <2>1. e + 1 \in Nat /\ e + 1 <= n
    OBVIOUS
  <2> QED BY <2>1, TimesMonotone
<1> DEFINE before == e * size
           after == (e + 1) * size
           all == n * size
<1>3. before \in Nat /\ all \in Nat /\ after = before + size /\ after <= all
  BY <1>1, <1>2
<1> HIDE DEF before, after, all
<1>4. before + k \in 1..all
  BY <1>3
<1> QED BY <1>3, <1>4 DEF before, all

(* Every byte is that of an element.                                       *)
LEMMA PlaceOfByte ==
  ASSUME NEW size \in Nat \ {0}, NEW n \in Nat, NEW i \in 1..(n * size)
  PROVE  \E e \in 0..(n - 1), k \in 1..size : i = e * size + k
<1> DEFINE e == (i - 1) \div size
           k == (i - 1) % size
<1>1. i - 1 \in Nat /\ e \in Nat /\ k \in 0..(size - 1) /\ i - 1 = e * size + k
  OBVIOUS
<1> HIDE DEF e, k
<1>2. e < n
  <2> SUFFICES ASSUME n <= e
               PROVE  FALSE
    BY <1>1
  <2>1. n * size <= e * size /\ n * size \in Nat /\ e * size \in Nat
    BY <1>1, TimesMonotone
  <2> DEFINE all == n * size
             before == e * size
  <2>2. all \in Nat /\ before \in Nat /\ all <= before /\ i \in 1..all /\ i - 1 = before + k
    BY <1>1, <2>1
  <2> HIDE DEF all, before
  <2> QED BY <1>1, <2>2
<1>3. e \in 0..(n - 1) /\ k + 1 \in 1..size
  BY <1>1, <1>2
<1>4. i = e * size + (k + 1)
  BY <1>1, <1>3
<1> QED BY <1>3, <1>4

(* What is copied of a slice are the bytes of its elements, in their order. *)
LEMMA BytesOfSlice ==
  ASSUME NEW slice, IsSlice(slice), NEW size, size = val_type_size(slice.array.val_type),
         NEW e \in 0..(slice.len - 1), NEW k \in 1..size
  PROVE  /\ e * size + k \in 1..(slice.len * size)
         /\ slice_bytes(slice)[e * size + k] = slice.array.bytes[(slice.start + e) * size + k]
<1>1. size \in Nat \ {0} /\ slice.len \in Nat /\ slice.start \in Nat
  BY SizeTyped, BoundsTyped DEF IsSlice
<1>2. e * size + k \in 1..(slice.len * size) /\ e * size \in Nat
  BY <1>1, BytePlace
<1>3. slice_bytes(slice)[e * size + k] = slice.array.bytes[slice.start * size + (e * size + k)]
  BY <1>2 DEF slice_bytes
<1>4. (slice.start + e) * size = slice.start * size + e * size /\ slice.start * size \in Nat
  BY <1>1, TimesPlus
<1>5. slice.start * size + (e * size + k) = (slice.start + e) * size + k
  <2> DEFINE a == slice.start * size
             b == e * size
             c == (slice.start + e) * size
  <2>1. a \in Nat /\ b \in Nat /\ c = a + b /\ k \in Int
    BY <1>1, <1>2, <1>4
  <2> HIDE DEF a, b, c
  <2>2. a + (b + k) = c + k
    BY <2>1
  <2> QED BY <2>2 DEF a, b, c
<1> QED BY <1>2, <1>3, <1>5

(* Elements with the same bytes are the same.                              *)
LEMMA ElementsOfBytes ==
  ASSUME NEW a, NEW b, a.val_type = b.val_type, NEW i \in Nat, NEW j \in Nat,
         SameBytes(a, i, b, j, val_type_size(a.val_type))
  PROVE  element(a, i) = element(b, j)
<1>1. CASE a.val_type = "INT"
  <2>1. val_type_size(a.val_type) = IntSize
    BY <1>1 DEF val_type_size
  <2>2. [k \in 1..IntSize |-> a.bytes[i * IntSize + k]] = [k \in 1..IntSize |-> b.bytes[j * IntSize + k]]
    BY <2>1 DEF SameBytes
  <2> QED BY <1>1, <2>2 DEF element
<1>2. CASE a.val_type # "INT"
  <2>1. val_type_size(a.val_type) = 1
    BY <1>2 DEF val_type_size
  <2>2. i * 1 + 1 = i + 1 /\ j * 1 + 1 = j + 1 /\ 1 \in 1..1
    OBVIOUS
  <2>3. a.bytes[i + 1] = b.bytes[j + 1]
    BY <2>1, <2>2 DEF SameBytes
  <2> QED BY <1>2, <2>3 DEF element
<1> QED BY <1>1, <1>2

(* An element with the bytes of a value is that value.                     *)
LEMMA ElementOfValue ==
  ASSUME NEW a, NEW val, val \in IF a.val_type = "INT" THEN I32 ELSE Bytes, NEW i \in Nat,
         HasBytes(a, i, bytes_of(a.val_type, val), val_type_size(a.val_type))
  PROVE  element(a, i) = val
<1>1. CASE a.val_type = "INT"
  <2>1. val_type_size(a.val_type) = IntSize /\ bytes_of(a.val_type, val) = int_bytes[val] /\ val \in I32
    BY <1>1 DEF val_type_size, bytes_of
  <2>2. int_bytes[val] = [k \in 1..IntSize |-> (u32(val) \div ByteBase^(k - 1)) % ByteBase]
    BY <2>1 DEF int_bytes
  <2> DEFINE word == [k \in 1..IntSize |-> a.bytes[i * IntSize + k]]
  <2>3. word = int_bytes[val]
    BY <2>1, <2>2 DEF HasBytes
  <2>4. element(a, i) = integer(word)
    BY <1>1 DEF element
  <2> HIDE DEF word
  <2>5. \A n \in I32 : int_bytes[n] = word => n = val
    BY <2>1, <2>3, BytesAssumption
  <2>6. integer(word) = val
    BY <2>1, <2>3, <2>5 DEF integer
  <2> QED BY <2>4, <2>6
<1>2. CASE a.val_type # "INT"
  <2>1. val_type_size(a.val_type) = 1 /\ bytes_of(a.val_type, val) = <<val>>
    BY <1>2 DEF val_type_size, bytes_of
  <2>2. i * 1 + 1 = i + 1 /\ 1 \in 1..1
    OBVIOUS
  <2>3. a.bytes[i + 1] = val
    BY <2>1, <2>2 DEF HasBytes
  <2> QED BY <1>2, <2>3 DEF element
<1> QED BY <1>1, <1>2

(* The same elements have the same bytes.                                  *)
LEMMA BytesOfSame ==
  ASSUME NEW a, IsArray(a), \A k \in DOMAIN a.bytes : a.bytes[k] \in Bytes,
         NEW b, IsArray(b), \A k \in DOMAIN b.bytes : b.bytes[k] \in Bytes,
         a.val_type = b.val_type, NEW i \in Nat, i < a.len, NEW j \in Nat, j < b.len,
         element(a, i) = element(b, j)
  PROVE  SameBytes(a, i, b, j, val_type_size(a.val_type))
<1>1. CASE a.val_type = "INT"
  <2> DEFINE f == [k \in 1..IntSize |-> a.bytes[i * IntSize + k]]
             g == [k \in 1..IntSize |-> b.bytes[j * IntSize + k]]
  <2>1. val_type_size(a.val_type) = IntSize
    BY <1>1 DEF val_type_size
  <2>2. /\ \A k \in 1..IntSize : a.bytes[i * IntSize + k] \in Bytes
        /\ \A k \in 1..IntSize : b.bytes[j * IntSize + k] \in Bytes
    BY <2>1, ElementTyped
  <2>3. f \in [1..IntSize -> Bytes] /\ g \in [1..IntSize -> Bytes]
    BY <2>2
  <2>4. element(a, i) = integer(f) /\ element(b, j) = integer(g)
    BY <1>1 DEF element
  <2> HIDE DEF f, g
  <2>5. int_bytes[integer(f)] = f
    <3>1. \E n \in I32 : int_bytes[n] = f
      BY <2>3, BytesAssumption
    <3> QED BY <3>1 DEF integer
  <2>6. int_bytes[integer(g)] = g
    <3>1. \E n \in I32 : int_bytes[n] = g
      BY <2>3, BytesAssumption
    <3> QED BY <3>1 DEF integer
  <2>7. f = g
    BY <2>4, <2>5, <2>6
  <2> QED BY <2>1, <2>7 DEF f, g, SameBytes
<1>2. CASE a.val_type # "INT"
  <2>1. val_type_size(a.val_type) = 1
    BY <1>2 DEF val_type_size
  <2>2. i * 1 + 1 = i + 1 /\ j * 1 + 1 = j + 1 /\ \A k \in 1..1 : k = 1
    OBVIOUS
  <2>3. a.bytes[i + 1] = b.bytes[j + 1]
    BY <1>2 DEF element
  <2> QED BY <2>1, <2>2, <2>3 DEF SameBytes
<1> QED BY <1>1, <1>2

-----------------------------------------------------------------------------
(* An array has the elements that are found in it one by one.              *)
LEMMA ElementsOfArray ==
  ASSUME NEW a, Good(a), a.type = "ARRAY", NEW s \in Seq(Elt), a.len = Len(s),
         \A i \in 1..Len(s) : [type |-> a.val_type, val |-> element(a, i - 1)] = s[i]
  PROVE  Elements(a) = s
<1> DEFINE slice == get_slice_info(a)
<1>1. IsList(a) /\ slice = Slice(a, 0, a.len)
  BY DEF IsList, get_slice_info
<1>2. slice.array = a /\ slice.start = 0
  BY <1>1 DEF Slice
<1>3. /\ Elements(a) \in Seq(Elt) /\ Len(Elements(a)) = a.len /\ a.len \in Nat
      /\ \A i \in 1..a.len : Elements(a)[i] = At(slice, i)
  BY <1>1, ElementsSeq
<1> HIDE DEF slice
<1>4. \A i \in 1..a.len : 0 + i - 1 = i - 1
  BY <1>3
<1>5. \A i \in 1..a.len : Elements(a)[i] = s[i]
  <2>1. ASSUME NEW i \in 1..a.len
        PROVE  Elements(a)[i] = s[i]
    <3>1. Elements(a)[i] = At(slice, i) /\ i \in 1..Len(s)
      BY <1>3
    <3>2. At(slice, i) = [type |-> a.val_type, val |-> element(a, i - 1)]
      BY <1>2, <1>4 DEF At
    <3> QED BY <3>1, <3>2
  <2> QED BY <2>1
<1> DEFINE els == Elements(a)
<1>6. els \in Seq(Elt) /\ Len(els) = Len(s) /\ Len(s) \in Nat /\ \A i \in 1..Len(s) : els[i] = s[i]
  BY <1>3, <1>5
<1> HIDE DEF els
<1>7. els = s
  BY ONLY <1>6, s \in Seq(Elt), SameSeq
<1> QED BY <1>7 DEF els

-----------------------------------------------------------------------------
(* Lists whose bytes a u32 cannot count.                                   *)
Heavy(s) == s # << >> /\ Len(s) * val_type_size(s[1].type) >= Word

\* They are those of SliceSpec,
LEMMA HeavyMeans ==
  ASSUME NEW s, s # << >> => s[1].type \in ArrayTypes
  PROVE  Abstract!Large(s) <=> Heavy(s)
BY DEF Abstract!Large, Heavy

\* and no value is one.
LEMMA GoodIsLight ==
  ASSUME NEW val, Good(val), IsList(val)
  PROVE  /\ ~Heavy(Elements(val))
         /\ Elements(val) # << >> => Elements(val)[1].type \in ArrayTypes
<1> DEFINE slice == get_slice_info(val)
           size == val_type_size(slice.array.val_type)
<1>1. /\ IsSlice(slice) /\ size \in Nat \ {0} /\ size < Word /\ slice.array.val_type \in ArrayTypes
  BY InfoIsGood, SizeTyped, BoundsTyped
<1>2. /\ Elements(val) \in Seq(Elt) /\ Len(Elements(val)) = slice.len /\ slice.len \in Nat
      /\ \A i \in 1..slice.len : Elements(val)[i] = At(slice, i)
  BY ElementsSeq
<1> HIDE DEF slice
<1>3. slice.len * size < Word
  BY <1>1, Copies
<1>4. Elements(val) # << >> => Elements(val)[1].type = slice.array.val_type
  <2>1. Elements(val) # << >> => 1 \in 1..slice.len
    BY <1>2, EmptySeq
  <2>2. \A i : At(slice, i).type = slice.array.val_type
    BY DEF At
  <2> QED BY <1>2, <2>1, <2>2
<1> DEFINE bytes == slice.len * size
           w == Word
<1>5. bytes \in Nat /\ w \in Nat
  BY <1>1, <1>2, TimesPlus, BoundsTyped
<1>6. ~(bytes >= w)
  <2> HIDE DEF bytes, w
  <2> QED BY <1>3, <1>5 DEF bytes, w
<1> QED BY <1>1, <1>2, <1>4, <1>6 DEF Heavy

\* slice_join is the elements of both.
LEMMA JoinMeans ==
  ASSUME NEW l_val, Good(l_val), NEW r_val, Good(r_val),
         IsList(l_val) /\ IsList(r_val) => l_val.len + r_val.len <= MaxLen
  PROVE  LET result == slice_join(l_val, r_val)
             Alike == /\ IsList(l_val) /\ IsList(r_val)
                      /\ Elements(l_val) # << >> /\ Elements(r_val) # << >>
                           => Elements(l_val)[1].type = Elements(r_val)[1].type
             all == Elements(l_val) \o Elements(r_val)
         IN /\ Alike => (all # << >> => all[1].type \in ArrayTypes)
            /\ Alike /\ ~Heavy(all) => IsList(result) /\ Good(result) /\ Elements(result) = all
            /\ Alike /\ Heavy(all) => result = Undefined
            /\ ~Alike => result = Error
<1> DEFINE l == get_slice_info(l_val)
           r == get_slice_info(r_val)
           result == slice_join(l_val, r_val)
           type == l.array.val_type
           size == val_type_size(type)
           all == Elements(l_val) \o Elements(r_val)
<1>1. CASE ~IsList(l_val) \/ ~IsList(r_val)
  BY <1>1 DEF slice_join
<1>2. CASE IsList(l_val) /\ IsList(r_val)
  <2>1. /\ IsSlice(l) /\ IsSlice(r) /\ l.len = l_val.len /\ r.len = r_val.len
        /\ l.len \in Nat /\ r.len \in Nat /\ l.start \in Nat /\ r.start \in Nat
        /\ \A i \in DOMAIN l.array.bytes : l.array.bytes[i] \in Bytes
        /\ \A i \in DOMAIN r.array.bytes : r.array.bytes[i] \in Bytes
    BY <1>2, InfoIsGood, BoundsTyped
  <2>2. /\ Elements(l_val) \in Seq(Elt) /\ Len(Elements(l_val)) = l.len
        /\ \A i \in 1..l.len : Elements(l_val)[i] = At(l, i)
    BY <1>2, <2>1, ElementsSeq
  <2>3. /\ Elements(r_val) \in Seq(Elt) /\ Len(Elements(r_val)) = r.len
        /\ \A i \in 1..r.len : Elements(r_val)[i] = At(r, i)
    BY <1>2, <2>1, ElementsSeq
  <2>4. CASE l.len = 0
    <3>1. Elements(l_val) = << >> /\ result = r_val
      BY <1>2, <2>2, <2>4, EmptySeq DEF slice_join
    <3>2. all = Elements(r_val)
      BY <2>3, <3>1, ConcatEmptySeq
    <3> HIDE DEF result, all
    <3> QED BY <1>2, <3>1, <3>2, GoodIsLight DEF result, all
  <2>5. CASE l.len # 0 /\ r.len = 0
    <3>1. Elements(r_val) = << >> /\ result = l_val
      BY <1>2, <2>3, <2>5, EmptySeq DEF slice_join
    <3>2. all = Elements(l_val)
      BY <2>2, <3>1, ConcatEmptySeq
    <3> HIDE DEF result, all
    <3> QED BY <1>2, <3>1, <3>2, GoodIsLight DEF result, all
  <2>6. CASE l.len # 0 /\ r.len # 0
    <3>1. /\ Elements(l_val) # << >> /\ Elements(r_val) # << >>
          /\ Elements(l_val)[1].type = type /\ Elements(r_val)[1].type = r.array.val_type
      <4>1. 1 \in 1..l.len /\ 1 \in 1..r.len
        BY <2>1, <2>6
      <4>2. Elements(l_val)[1] = At(l, 1) /\ Elements(r_val)[1] = At(r, 1)
        BY <2>2, <2>3, <4>1
      <4> QED BY <2>2, <2>3, <2>6, <4>2, EmptySeq DEF At
    <3>2. CASE type # r.array.val_type
      BY <1>2, <2>6, <3>1, <3>2 DEF slice_join
    <3>4. /\ all \in Seq(Elt) /\ Len(all) = l.len + r.len
          /\ \A i \in 1..l.len : all[i] = Elements(l_val)[i]
          /\ \A i \in 1..r.len : all[l.len + i] = Elements(r_val)[i]
      <4>1. /\ all = Elements(l_val) \o Elements(r_val)
            /\ Elements(l_val) \in Seq(Elt) /\ Elements(r_val) \in Seq(Elt)
        BY <2>2, <2>3
      <4> HIDE DEF l, r, all
      <4>2. /\ all \in Seq(Elt) /\ Len(all) = Len(Elements(l_val)) + Len(Elements(r_val))
            /\ \A i \in 1..Len(Elements(l_val)) : all[i] = Elements(l_val)[i]
            /\ \A i \in 1..Len(Elements(r_val)) : all[Len(Elements(l_val)) + i] = Elements(r_val)[i]
        BY <4>1, Concatenated
      <4> QED BY <2>2, <2>3, <4>2
    <3>5. all # << >> /\ all[1].type = type /\ type \in ArrayTypes
      <4>1. 1 \in 1..l.len
        BY <2>1, <2>6
      <4>2. type \in ArrayTypes
        BY <1>2, InfoIsGood
      <4> HIDE DEF l, r, all
      <4>3. Len(all) # 0
        BY <2>1, <3>4, <4>1
      <4> QED BY <3>1, <3>4, <4>1, <4>2, <4>3
    <3>6. type = r.array.val_type => (Heavy(all) <=> TooLarge(l_val, r_val))
      <4>1. Heavy(all) <=> (l.len + r.len) * size >= Word
        BY <3>4, <3>5 DEF Heavy
      <4> QED BY <1>2, <2>6, <4>1, JoinMakes
    <3>7. CASE type = r.array.val_type /\ Heavy(all)
      <4>1. result = Undefined
        BY <1>2, <2>6, <3>6, <3>7, JoinMakes
      <4> HIDE DEF result, all, l, r
      <4> QED BY <1>2, <3>1, <3>5, <3>7, <4>1 DEF result, all
    <3>3. CASE type = r.array.val_type /\ ~Heavy(all)
      <4>1. result = Array(type, l.len + r.len, slice_bytes(l) \o slice_bytes(r))
        BY <1>2, <2>6, <3>3, <3>6, JoinMakes
      <4>2. Good(result) /\ result.type = "ARRAY" /\ result.val_type = type /\ result.len = l.len + r.len
            /\ result.bytes = slice_bytes(l) \o slice_bytes(r)
        <5>1. IsResult(result) \/ IsBroken(result, l_val, r_val)
          BY JoinResult
        <5> HIDE DEF result
        <5>2. result.type = "ARRAY"
          BY <4>1 DEF Array
        <5>3. IsResult(result)
          BY <5>1, <5>2, Faults DEF IsBroken
        <5> QED BY <4>1, <5>2, <5>3 DEF Array, IsResult
      <4>3. /\ slice_bytes(l) \in Seq(Bytes) /\ Len(slice_bytes(l)) = l.len * size
            /\ slice_bytes(r) \in Seq(Bytes) /\ Len(slice_bytes(r)) = r.len * size
            /\ l.len * size \in Nat /\ r.len * size \in Nat
        BY <2>1, <3>3, CopiedTyped
      <4>4. size \in Nat \ {0}
        BY SizeTyped
      <4>5. /\ all \in Seq(Elt) /\ Len(all) = l.len + r.len
            /\ \A i \in 1..l.len : all[i] = Elements(l_val)[i]
            /\ \A i \in 1..r.len : all[l.len + i] = Elements(r_val)[i]
        BY <3>4
      <4> HIDE DEF l, r, result, size, all
      <4>6. ASSUME NEW i \in 1..(l.len + r.len)
            PROVE  [type |-> type, val |-> element(result, i - 1)] = all[i]
        <5>1. i \in Nat /\ i - 1 \in Nat
          BY <2>1
        <5>2. CASE i <= l.len
          <6>1. i - 1 \in 0..(l.len - 1) /\ l.start + (i - 1) \in Nat /\ l.start + (i - 1) = l.start + i - 1
            BY <2>1, <5>1, <5>2
          <6>2. ASSUME NEW k \in 1..size
                PROVE  result.bytes[(i - 1) * size + k] = l.array.bytes[(l.start + (i - 1)) * size + k]
            <7>1. /\ (i - 1) * size + k \in 1..(l.len * size)
                  /\ slice_bytes(l)[(i - 1) * size + k] = l.array.bytes[(l.start + (i - 1)) * size + k]
              BY <2>1, <6>1, BytesOfSlice DEF size
            <7>2. (slice_bytes(l) \o slice_bytes(r))[(i - 1) * size + k] = slice_bytes(l)[(i - 1) * size + k]
              BY <4>3, <7>1, Concatenated
            <7> QED BY <4>2, <7>1, <7>2
          <6>3. element(result, i - 1) = element(l.array, l.start + (i - 1))
            <7> DEFINE p == i - 1
                       q == l.start + (i - 1)
            <7>1. /\ p \in Nat /\ q \in Nat /\ result.val_type = l.array.val_type
                  /\ SameBytes(result, p, l.array, q, size) /\ size = val_type_size(result.val_type)
              BY <4>2, <5>1, <6>1, <6>2 DEF SameBytes, size
            <7> HIDE DEF p, q
            <7>2. element(result, p) = element(l.array, q)
              BY <7>1, ElementsOfBytes
            <7> QED BY <7>2 DEF p, q
          <6>4. i \in 1..l.len
            BY <2>1, <5>2
          <6> QED BY <2>2, <4>5, <5>2, <6>1, <6>3, <6>4 DEF At
        <5>3. CASE ~(i <= l.len)
          <6> DEFINE j == i - l.len
          <6>1. /\ j \in 1..r.len /\ j - 1 \in 0..(r.len - 1) /\ r.start + (j - 1) \in Nat
                /\ r.start + (j - 1) = r.start + j - 1 /\ i - 1 = l.len + (j - 1) /\ j - 1 \in Nat
            BY <2>1, <5>1, <5>3
          <6> HIDE DEF j
          <6>2. ASSUME NEW k \in 1..size
                PROVE  result.bytes[(i - 1) * size + k] = r.array.bytes[(r.start + (j - 1)) * size + k]
            <7>1. /\ (j - 1) * size + k \in 1..(r.len * size)
                  /\ slice_bytes(r)[(j - 1) * size + k] = r.array.bytes[(r.start + (j - 1)) * size + k]
              BY <2>1, <3>3, <6>1, BytesOfSlice DEF size
            <7>2. (l.len + (j - 1)) * size = l.len * size + (j - 1) * size /\ (j - 1) * size \in Nat
              BY <2>1, <4>4, <6>1, TimesPlus
            <7> DEFINE inner == (j - 1) * size + k
            <7>3. inner \in 1..(r.len * size) /\ (i - 1) * size + k = l.len * size + inner
              <8>1. (i - 1) * size = l.len * size + (j - 1) * size
                BY <6>1, <7>2
              <8> DEFINE a == (i - 1) * size
                         b == l.len * size
                         c == (j - 1) * size
              <8>2. a = b + c /\ b \in Nat /\ c \in Nat /\ k \in Int
                BY <4>3, <4>4, <7>2, <8>1
              <8> HIDE DEF a, b, c
              <8>3. a + k = b + (c + k)
                BY <8>2
              <8> QED BY <7>1, <8>3 DEF a, b, c
            <7> HIDE DEF inner
            <7>4. (slice_bytes(l) \o slice_bytes(r))[l.len * size + inner] = slice_bytes(r)[inner]
              <8> DEFINE front == slice_bytes(l)
                         back == slice_bytes(r)
                         both == front \o back
              <8>1. front \in Seq(Bytes) /\ back \in Seq(Bytes) /\ IsJoin(both, front, back)
                BY <4>3 DEF IsJoin
              <8>2. Len(front) = l.len * size /\ inner \in 1..Len(back)
                BY <4>3, <7>3
              <8> HIDE DEF front, back, both
              <8>3. \A h \in 1..Len(back) : both[Len(front) + h] = back[h]
                BY ONLY <8>1, Joins
              <8>4. both[Len(front) + inner] = back[inner]
                BY <8>2, <8>3
              <8> QED BY <8>2, <8>4 DEF front, back, both
            <7>5. result.bytes[(i - 1) * size + k] = slice_bytes(r)[inner]
              BY <4>2, <7>3, <7>4
            <7> QED BY <7>1, <7>5 DEF inner
          <6>3. element(result, i - 1) = element(r.array, r.start + (j - 1))
            <7> DEFINE p == i - 1
                       q == r.start + (j - 1)
            <7>1. /\ p \in Nat /\ q \in Nat /\ result.val_type = r.array.val_type
                  /\ SameBytes(result, p, r.array, q, size) /\ size = val_type_size(result.val_type)
              BY <3>3, <4>2, <5>1, <6>1, <6>2 DEF SameBytes, size
            <7> HIDE DEF p, q
            <7>2. element(result, p) = element(r.array, q)
              BY <7>1, ElementsOfBytes
            <7> QED BY <7>2 DEF p, q
          <6>4. i = l.len + j
            BY <2>1, <5>1 DEF j
          <6>5. all[i] = At(r, j)
            BY <2>3, <4>5, <6>1, <6>4
          <6> QED BY <3>3, <6>1, <6>3, <6>5 DEF At
        <5> QED BY <5>2, <5>3
      <4>7. Elements(result) = all
        <5>1. result.len = Len(all)
          BY <4>2, <4>5
        <5>2. \A i \in 1..Len(all) : [type |-> result.val_type, val |-> element(result, i - 1)] = all[i]
          <6> SUFFICES ASSUME NEW i \in 1..Len(all)
                       PROVE  [type |-> result.val_type, val |-> element(result, i - 1)] = all[i]
            OBVIOUS
          <6>1. i \in 1..(l.len + r.len)
            BY <4>5
          <6>2. result.val_type = type
            BY <4>2
          <6> QED BY ONLY <4>6, <6>1, <6>2
        <5>3. Good(result) /\ result.type = "ARRAY" /\ all \in Seq(Elt)
          BY <4>2, <4>5
        <5> HIDE DEF result, all
        <5> QED BY ONLY <5>1, <5>2, <5>3, ElementsOfArray
      <4> QED BY <1>2, <3>1, <3>3, <3>5, <4>2, <4>7 DEF result, all, IsList
    <3> QED BY <3>2, <3>3, <3>7
  <2> QED BY <2>4, <2>5, <2>6
<1> QED BY <1>1, <1>2

-----------------------------------------------------------------------------
(* A list has elements when it has a length, all of its type.              *)
LEMMA Lists ==
  ASSUME NEW val, Good(val), IsList(val)
  PROVE  LET slice == get_slice_info(val)
         IN /\ Elements(val) = << >> <=> slice.len = 0
            /\ slice.len > 0 <=> Elements(val) # << >>
            /\ Elements(val) # << >> => Elements(val)[1].type = slice.array.val_type
            /\ \A i \in 1..Len(Elements(val)) : Elements(val)[i].type = slice.array.val_type
<1> DEFINE slice == get_slice_info(val)
<1>1. /\ Elements(val) \in Seq(Elt) /\ Len(Elements(val)) = slice.len /\ slice.len \in Nat
      /\ \A i \in 1..slice.len : Elements(val)[i] = At(slice, i)
  BY ElementsSeq
<1>2. Elements(val) = << >> <=> slice.len = 0
  BY <1>1, EmptySeq
<1>3. \A i \in 1..slice.len : Elements(val)[i].type = slice.array.val_type
  <2>1. \A i : At(slice, i).type = slice.array.val_type
    BY DEF At
  <2> QED BY <1>1, <2>1
<1> HIDE DEF slice
<1>4. slice.len > 0 <=> slice.len # 0
  BY <1>1
<1>5. slice.len > 0 => 1 \in 1..slice.len
  BY <1>1
<1> QED BY <1>1, <1>2, <1>3, <1>4, <1>5 DEF slice

Element(box) == [type |-> box.val_type, val |-> box.val]
Addable(push, val) ==
  /\ push.type = "BOX" /\ IsList(val)
  /\ Elements(val) # << >> => push.val_type = Elements(val)[1].type

\* What is added has the type of the elements.
LEMMA FittingMeans ==
  ASSUME NEW push, Good(push), NEW val, Good(val)
  PROVE  /\ Addable(push, val) /\ push.val_type # "UNIT" =>
              /\ Fitting(push, val) = get_slice_info(val) /\ ~IsFault(Fitting(push, val))
              /\ push.val_type \in ArrayTypes
              /\ push.val \in IF push.val_type = "INT" THEN I32 ELSE Bytes
              /\ Element(push) \in Elt
         /\ Addable(push, val) /\ push.val_type = "UNIT" => Fitting(push, val) = Fault("panic")
         /\ ~Addable(push, val) => Fitting(push, val) = Error
<1> DEFINE slice == get_slice_info(val)
<1>1. CASE Addable(push, val)
  <2>1. push.type = "BOX" /\ IsList(val) /\ ~(slice.len > 0 /\ slice.array.val_type # push.val_type)
    BY <1>1, Lists DEF Addable
  <2>2. Fitting(push, val) = IF push.val_type = "UNIT" THEN Fault("panic") ELSE slice
    BY <2>1 DEF Fitting
  <2>3. ASSUME push.val_type # "UNIT"
        PROVE  /\ Fitting(push, val) = slice /\ ~IsFault(Fitting(push, val))
               /\ push.val_type \in ArrayTypes
               /\ push.val \in IF push.val_type = "INT" THEN I32 ELSE Bytes
               /\ Element(push) \in Elt
    <3>1. push.val_type \in ValueTypes /\ push.val \in IF push.val_type = "INT" THEN I32 ELSE Bytes
      BY <2>1, GoodKinds
    <3>2. slice.type = "SLICE"
      BY <2>1, InfoIsGood
    <3>3. push.val \in Int
      BY <3>1, IntegersTyped, SizesAssumption DEF Bytes
    <3> QED BY <2>2, <2>3, <3>1, <3>2, <3>3 DEF ArrayTypes, ValueTypes, IsFault, Element, Elt
  <2> QED BY <1>1, <2>2, <2>3
<1>2. CASE ~Addable(push, val)
  <2>1. CASE push.type # "BOX" \/ ~IsList(val)
    BY <1>2, <2>1 DEF Fitting
  <2>2. CASE push.type = "BOX" /\ IsList(val)
    <3>1. slice.len > 0 /\ slice.array.val_type # push.val_type
      BY <1>2, <2>2, Lists DEF Addable
    <3> QED BY <1>2, <2>2, <3>1 DEF Fitting
  <2> QED BY <2>1, <2>2
<1> QED BY <1>1, <1>2

\* The elements of a list and one more are too many when their bytes are.
LEMMA MoreIsHeavy ==
  ASSUME NEW push, Good(push), NEW val, Good(val), Addable(push, val), push.val_type # "UNIT"
  PROVE  LET more == Append(Elements(val), Element(push))
         IN /\ more # << >> /\ more[1].type \in ArrayTypes
            /\ Heavy(more) <=> TooLarge(push, val)
            /\ Heavy(more) <=> TooLarge(val, push)
<1> DEFINE slice == Fitting(push, val)
           size == val_type_size(push.val_type)
           more == Append(Elements(val), Element(push))
           w == Word
<1>1. /\ slice = get_slice_info(val) /\ ~IsFault(slice) /\ push.val_type \in ArrayTypes
      /\ Element(push) \in Elt /\ IsList(val)
  BY FittingMeans DEF Addable
<1>2. /\ TooLarge(push, val) <=> (slice.len + 1) * size >= w
      /\ TooLarge(val, push) <=> (slice.len + 1) * size >= w
  BY <1>1, Adding
<1>3. /\ Elements(val) \in Seq(Elt) /\ Len(Elements(val)) = slice.len /\ slice.len \in Nat
  BY <1>1, ElementsSeq, InfoIsGood
<1>4. Element(push).type = push.val_type
  BY DEF Element
<1>5. Elements(val) # << >> => 1 \in 1..slice.len /\ Elements(val)[1].type = push.val_type
  <2>1. Elements(val) # << >> => 1 \in 1..slice.len
    BY <1>3, EmptySeq
  <2> QED BY <2>1 DEF Addable
<1> HIDE DEF slice, size, w
<1>6. /\ Len(more) = slice.len + 1 /\ more[slice.len + 1] = Element(push)
      /\ \A i \in 1..slice.len : more[i] = Elements(val)[i]
  BY <1>1, <1>3, AppendProperties
<1> HIDE DEF more
<1>7. Elements(val) = << >> => slice.len = 0
  BY <1>3, EmptySeq
<1>8. more[1].type = push.val_type
  <2>1. CASE Elements(val) = << >>
    BY <1>4, <1>6, <1>7, <2>1
  <2>2. CASE Elements(val) # << >>
    BY <1>5, <1>6, <2>2
  <2> QED BY <2>1, <2>2
<1>9. more # << >>
  <2>1. Len(more) # 0
    BY <1>3, <1>6
  <2> QED BY <2>1
<1>10. Heavy(more) <=> (slice.len + 1) * size >= w
  BY <1>6, <1>8, <1>9 DEF Heavy, size, w
<1> QED BY <1>1, <1>2, <1>8, <1>9, <1>10 DEF more

\* slice_push is the elements and one more.
LEMMA PushMeans ==
  ASSUME NEW val, Good(val), NEW push, Good(push), IsList(val) => val.len + 1 <= MaxLen
  PROVE  LET result == slice_push(val, push)
             all == Append(Elements(val), Element(push))
         IN /\ Addable(push, val) /\ push.val_type # "UNIT" /\ ~Heavy(all) =>
                 IsList(result) /\ Good(result) /\ Elements(result) = all
            /\ Addable(push, val) /\ push.val_type # "UNIT" /\ Heavy(all) => result = Undefined
            /\ Addable(push, val) /\ push.val_type = "UNIT" => result = Fault("panic")
            /\ ~Addable(push, val) => result = Error
<1> DEFINE slice == get_slice_info(val)
           type == push.val_type
           size == val_type_size(type)
           old == IF slice.len = 0 THEN << >> ELSE slice_bytes(slice)
           last == bytes_of(type, push.val)
           bytes == old \o last
           result == slice_push(val, push)
           all == Append(Elements(val), Element(push))
<1>1. CASE ~Addable(push, val) \/ push.val_type = "UNIT"
  <2>1. IsFault(Fitting(push, val))
    BY <1>1, FittingMeans DEF IsFault, Error, Fault
  <2>2. result = Fitting(push, val)
    BY <2>1 DEF slice_push
  <2> HIDE DEF result, all
  <2> QED BY <1>1, <2>2, FittingMeans DEF result, all
<1>3. CASE Addable(push, val) /\ push.val_type # "UNIT" /\ Heavy(all)
  <2>1. result = Undefined
    BY <1>3, MoreIsHeavy, FittingMeans, PushMakes
  <2> HIDE DEF result, all
  <2> QED BY <1>3, <2>1 DEF result, all
<1>2. CASE Addable(push, val) /\ push.val_type # "UNIT" /\ ~Heavy(all)
  <2>1. /\ Fitting(push, val) = slice /\ ~IsFault(Fitting(push, val)) /\ type \in ArrayTypes
        /\ push.val \in IF type = "INT" THEN I32 ELSE Bytes
        /\ Element(push) \in Elt /\ IsList(val)
    BY <1>2, FittingMeans DEF Addable
  <2>2. result = Array(type, slice.len + 1, bytes)
    BY <1>2, <2>1, MoreIsHeavy, PushMakes
  <2>3. Good(result)
    <3>1. IsResult(result) \/ IsBroken(result, val, push)
      BY PushResult
    <3> HIDE DEF result, bytes
    <3>2. result.type = "ARRAY"
      BY <2>2 DEF Array
    <3> QED BY <3>1, <3>2, Faults DEF IsResult, IsBroken
  <2>4. result.type = "ARRAY" /\ result.val_type = type /\ result.len = slice.len + 1 /\ result.bytes = bytes
    <3> HIDE DEF result, bytes
    <3> QED BY <2>2 DEF Array
  <2>5. /\ IsSlice(slice) /\ slice.len \in Nat /\ slice.start \in Nat
    BY <2>1, InfoIsGood, BoundsTyped
  <2>6. slice.len > 0 => slice.array.val_type = type
    BY <1>2, <2>1, Lists DEF Addable
  <2>7. /\ size \in Nat \ {0} /\ slice.len * size \in Nat
        /\ slice.len > 0 => slice_bytes(slice) \in Seq(Bytes) /\ Len(slice_bytes(slice)) = slice.len * size
    BY <2>1, <2>6, BesideTyped
  <2>8. last \in Seq(Bytes) /\ Len(last) = size
    BY <2>1, ValueBytesTyped DEF ArrayTypes, ValueTypes
  <2>9. old \in Seq(Bytes) /\ Len(old) = slice.len * size
    <3>1. CASE slice.len = 0
      <4>1. 0 * size = 0
        BY <2>7
      <4> QED BY <3>1, <4>1, EmptySeq
    <3>2. CASE slice.len # 0
      BY <2>5, <2>7, <3>2
    <3> QED BY <3>1, <3>2
  <2>10. /\ Elements(val) \in Seq(Elt) /\ Len(Elements(val)) = slice.len
         /\ \A i \in 1..slice.len : Elements(val)[i] = At(slice, i)
    BY <2>1, <2>5, ElementsSeq
  <2>11. /\ all \in Seq(Elt) /\ Len(all) = slice.len + 1
         /\ \A i \in 1..slice.len : all[i] = Elements(val)[i]
         /\ all[slice.len + 1] = Element(push)
    <3> HIDE DEF slice
    <3> QED BY <2>1, <2>10, AppendProperties
  <2> HIDE DEF slice, old, last, result, all
  <2>12. /\ \A i \in 1..(slice.len * size) : bytes[i] = old[i]
         /\ \A i \in 1..size : bytes[slice.len * size + i] = last[i]
    <3>1. IsJoin(bytes, old, last)
      BY DEF IsJoin
    <3> HIDE DEF bytes
    <3>4. old \in Seq(Bytes) /\ last \in Seq(Bytes)
      BY <2>8, <2>9
    <3>2. /\ \A i \in 1..Len(old) : bytes[i] = old[i]
          /\ \A i \in 1..Len(last) : bytes[Len(old) + i] = last[i]
      BY ONLY <3>1, <3>4, Joins
    <3>3. Len(old) = slice.len * size /\ Len(last) = size
      BY <2>8, <2>9
    <3> HIDE DEF old, last
    <3> QED BY <3>2, <3>3
  <2> HIDE DEF bytes
  <2>13. ASSUME NEW i \in 1..(slice.len + 1)
         PROVE  [type |-> result.val_type, val |-> element(result, i - 1)] = all[i]
    <3>1. CASE i \in 1..slice.len
      <4> DEFINE p == i - 1
                 q == slice.start + (i - 1)
      <4>1. p \in 0..(slice.len - 1) /\ p \in Nat /\ q \in Nat /\ q = slice.start + p /\ q = slice.start + i - 1
        BY <2>5, <3>1
      <4>2. slice.array.val_type = type /\ slice.len > 0
        BY <2>5, <2>6, <3>1
      <4> HIDE DEF p, q
      <4>3. ASSUME NEW k \in 1..size
            PROVE  result.bytes[p * size + k] = slice.array.bytes[q * size + k]
        <5>1. /\ p * size + k \in 1..(slice.len * size)
              /\ slice_bytes(slice)[p * size + k] = slice.array.bytes[q * size + k]
          BY <2>5, <4>1, <4>2, BytesOfSlice DEF size
        <5>2. old = slice_bytes(slice)
          BY <4>2 DEF old
        <5> QED BY <2>4, <2>12, <5>1, <5>2
      <4>4. element(result, p) = element(slice.array, q)
        <5>1. SameBytes(result, p, slice.array, q, size) /\ size = val_type_size(result.val_type)
          BY <2>4, <4>3 DEF SameBytes, size
        <5> QED BY <2>4, <4>1, <4>2, <5>1, ElementsOfBytes
      <4>5. all[i] = At(slice, i)
        BY <2>10, <2>11, <3>1
      <4> QED BY <2>4, <4>1, <4>2, <4>4, <4>5 DEF At, p
    <3>2. CASE i = slice.len + 1
      <4>1. slice.len = i - 1
        BY <2>5, <3>2
      <4>2. HasBytes(result, slice.len, bytes_of(result.val_type, push.val), val_type_size(result.val_type))
        BY <2>4, <2>12 DEF HasBytes, last
      <4>3. element(result, slice.len) = push.val
        BY <2>1, <2>4, <2>5, <4>2, ElementOfValue
      <4> QED BY <2>4, <2>11, <3>2, <4>1, <4>3 DEF Element
    <3>3. i \in 1..slice.len \/ i = slice.len + 1
      BY <2>5
    <3> QED BY <3>1, <3>2, <3>3
  <2>14. Elements(result) = all
    BY <2>3, <2>4, <2>11, <2>13, ElementsOfArray
  <2> QED BY <1>2, <2>3, <2>4, <2>14 DEF result, all, IsList
<1> HIDE DEF result, all
<1> QED BY <1>1, <1>2, <1>3 DEF all, result

\* An integer before others: the bytes of the two overlap.
Smudges(push, val) == push.val_type = "INT" /\ Elements(val) # << >>

\* slice_cons is one element and the others, if it is a byte or all of its bytes are written.
LEMMA ConsMeans ==
  ASSUME NEW push, Good(push), NEW val, Good(val), IsList(val) => val.len + 1 <= MaxLen,
         NEW fresh \in [1..(IntSize - 1) -> Bytes]
  PROVE  LET result == slice_cons(push, val, fresh)
             more == Append(Elements(val), Element(push))
         IN /\ Addable(push, val) /\ push.val_type # "UNIT" /\ Heavy(more) => result = Undefined
            /\ Addable(push, val) /\ push.val_type # "UNIT" /\ ~Heavy(more) =>
                 /\ IsList(result) /\ Good(result)
                 /\ ~Smudges(push, val) => Elements(result) = <<Element(push)>> \o Elements(val)
                 /\ Smudges(push, val) =>
                      Elements(result) \in [1..(Len(Elements(val)) + 1) -> [type : {"INT"}, val : I32]]
            /\ Addable(push, val) /\ push.val_type = "UNIT" => result = Fault("panic")
            /\ ~Addable(push, val) => result = Error
<1> DEFINE slice == get_slice_info(val)
           type == push.val_type
           size == val_type_size(type)
           first == bytes_of(type, push.val)
           copied == slice_bytes(slice)
           bytes == [i \in 1..((slice.len + 1) * size) |->
                       CASE 1 < i /\ i <= slice.len * size + 1 -> copied[i - 1]
                         [] ~(1 < i /\ i <= slice.len * size + 1) /\ i <= size -> first[i]
                         [] OTHER -> fresh[(slice.len + 1) * size - i + 1]]
           result == slice_cons(push, val, fresh)
           all == <<Element(push)>> \o Elements(val)
           more == Append(Elements(val), Element(push))
<1>1. CASE ~Addable(push, val) \/ push.val_type = "UNIT"
  <2>1. IsFault(Fitting(push, val))
    BY <1>1, FittingMeans DEF IsFault, Error, Fault
  <2>2. result = Fitting(push, val)
    BY <2>1 DEF slice_cons
  <2> HIDE DEF result, all, more
  <2> QED BY <1>1, <2>2, FittingMeans DEF result
<1>3. CASE Addable(push, val) /\ push.val_type # "UNIT" /\ Heavy(more)
  <2>1. result = Undefined
    BY <1>3, MoreIsHeavy, FittingMeans, ConsMakes
  <2> HIDE DEF result, all, more
  <2> QED BY <1>3, <2>1 DEF result, more
<1>2. CASE Addable(push, val) /\ push.val_type # "UNIT" /\ ~Heavy(more)
  <2>1. /\ Fitting(push, val) = slice /\ ~IsFault(Fitting(push, val)) /\ type \in ArrayTypes
        /\ push.val \in IF type = "INT" THEN I32 ELSE Bytes
        /\ Element(push) \in Elt /\ IsList(val)
    BY <1>2, FittingMeans DEF Addable
  <2>2. result = Array(type, slice.len + 1, bytes)
    BY <1>2, <2>1, MoreIsHeavy, ConsMakes
  <2>3. Good(result)
    <3>1. IsResult(result) \/ IsBroken(result, push, val)
      BY ConsResult
    <3> HIDE DEF result, bytes
    <3>2. result.type = "ARRAY"
      BY <2>2 DEF Array
    <3> QED BY <3>1, <3>2, Faults DEF IsResult, IsBroken
  <2>4. result.type = "ARRAY" /\ result.val_type = type /\ result.len = slice.len + 1 /\ result.bytes = bytes
    <3> HIDE DEF result, bytes
    <3> QED BY <2>2 DEF Array
  <2>5. IsSlice(slice) /\ slice.len \in Nat /\ slice.start \in Nat
    BY <2>1, InfoIsGood, BoundsTyped
  <2>6. slice.len > 0 => slice.array.val_type = type
    BY <1>2, <2>1, Lists DEF Addable
  <2>7. /\ size \in Nat \ {0} /\ slice.len * size \in Nat
        /\ (slice.len + 1) * size = slice.len * size + size
    BY <2>1, <2>6, BesideTyped
  <2>8. /\ Elements(val) \in Seq(Elt) /\ Len(Elements(val)) = slice.len
        /\ \A i \in 1..slice.len : Elements(val)[i] = At(slice, i)
    BY <2>1, <2>5, ElementsSeq
  <2>9. IsList(result) /\ get_slice_info(result).array = result
    BY <2>4 DEF IsList, get_slice_info, Slice
  <2>10. CASE Smudges(push, val)
    <3>1. type = "INT"
      BY <2>10 DEF Smudges
    <3>2. /\ DOMAIN Elements(result) = 1..(slice.len + 1)
          /\ \A i \in 1..(slice.len + 1) : Elements(result)[i] \in [type : {"INT"}, val : I32]
      <4> HIDE DEF result, slice
      <4>1. /\ Elements(result) \in Seq(Elt) /\ DOMAIN Elements(result) = 1..(slice.len + 1)
            /\ Len(Elements(result)) = slice.len + 1
            /\ \A i \in 1..(slice.len + 1) :
                  /\ Elements(result)[i] = At(get_slice_info(result), i)
                  /\ get_slice_info(result).start + i - 1 \in Nat
                  /\ get_slice_info(result).start + i - 1 < get_slice_info(result).array.len
        BY <2>3, <2>4, <2>9, ElementsSeq
      <4>2. IsArray(result) /\ \A i \in DOMAIN result.bytes : result.bytes[i] \in Bytes
        BY <2>3, <2>4 DEF Good, IsValue, IsTyped
      <4>3. ASSUME NEW i \in 1..(slice.len + 1)
            PROVE  Elements(result)[i] \in [type : {"INT"}, val : I32]
        <5>1. element(result, get_slice_info(result).start + i - 1) \in I32
          BY <2>4, <2>9, <3>1, <4>1, <4>2, ElementTyped
        <5> DEFINE info == get_slice_info(result)
                   n == element(result, info.start + i - 1)
        <5>2. Elements(result)[i] = At(info, i) /\ info.array = result
          BY <2>9, <4>1
        <5>3. At(info, i) = [type |-> info.array.val_type, val |-> element(info.array, info.start + i - 1)]
          BY DEF At
        <5>4. n \in I32
          BY <5>1
        <5>5. Elements(result)[i] = [type |-> type, val |-> n]
          BY <2>4, <5>2, <5>3
        <5> HIDE DEF info, n, type, bytes
        <5> QED BY <3>1, <5>4, <5>5
      <4> QED BY <4>1, <4>3
    <3>3. Elements(result) \in Seq(Elt)
      <4> HIDE DEF result
      <4> QED BY <2>3, <2>9, ElementsSeq
    <3>4. Elements(result) \in [1..(slice.len + 1) -> [type : {"INT"}, val : I32]]
      <4>1. Elements(result) = [i \in 1..(slice.len + 1) |-> Elements(result)[i]]
        <5> HIDE DEF result, slice
        <5> QED BY <3>2, <3>3, LenProperties
      <4> HIDE DEF result, slice
      <4> QED BY <3>2, <4>1
    <3> QED BY <1>2, <2>3, <2>8, <2>9, <2>10, <3>4
  <2>11. CASE ~Smudges(push, val)
    <3>1. slice.len > 0 => size = 1
      BY <2>1, <2>5, <2>11, Lists DEF Smudges, val_type_size
    <3>2. first \in Seq(Bytes) /\ Len(first) = size
      BY <2>1, ValueBytesTyped DEF ArrayTypes, ValueTypes
    <3>3. /\ all \in Seq(Elt) /\ Len(all) = slice.len + 1
          /\ all[1] = Element(push) /\ \A i \in 1..slice.len : all[1 + i] = Elements(val)[i]
      <4>1. /\ all = <<Element(push)>> \o Elements(val) /\ <<Element(push)>> \in Seq(Elt)
            /\ Len(<<Element(push)>>) = 1 /\ <<Element(push)>>[1] = Element(push)
        BY <2>1
      <4> HIDE DEF all, slice
      <4>2. /\ all \in Seq(Elt) /\ Len(all) = Len(<<Element(push)>>) + Len(Elements(val))
            /\ \A i \in 1..Len(<<Element(push)>>) : all[i] = <<Element(push)>>[i]
            /\ \A i \in 1..Len(Elements(val)) : all[Len(<<Element(push)>>) + i] = Elements(val)[i]
        BY <2>8, <4>1, Concatenated
      <4> QED BY <2>5, <2>8, <4>1, <4>2
    <3>4. \A k \in 1..size : bytes[k] = first[k]
      <4> SUFFICES ASSUME NEW k \in 1..size
                   PROVE  bytes[k] = first[k]
        OBVIOUS
      <4> HIDE DEF slice, size, first, copied
      <4>1. k \in 1..((slice.len + 1) * size)
        BY <2>5, <2>7
      <4>2. ~(1 < k /\ k <= slice.len * size + 1)
        <5>1. CASE slice.len = 0
          <6>1. 0 * size = 0
            BY <2>7
          <6> QED BY <5>1, <6>1
        <5>2. CASE slice.len # 0
          BY <2>5, <3>1, <5>2
        <5> QED BY <5>1, <5>2
      <4>3. k <= size
        BY <2>7
      <4> QED BY <4>1, <4>2, <4>3
    <3>5. \A i \in 1..slice.len : bytes[i + 1] = copied[i]
      <4> SUFFICES ASSUME NEW i \in 1..slice.len
                   PROVE  bytes[i + 1] = copied[i]
        OBVIOUS
      <4> HIDE DEF slice, size, first, copied
      <4>1. size = 1 /\ slice.len * size = slice.len /\ (slice.len + 1) * size = slice.len + 1
        BY <2>5, <3>1
      <4>2. i + 1 \in 1..((slice.len + 1) * size) /\ 1 < i + 1 /\ i + 1 <= slice.len * size + 1
            /\ i + 1 - 1 = i
        BY <2>5, <4>1
      <4> QED BY <4>2
    <3> HIDE DEF slice, first, copied, bytes, result, all, size
    <3>6. ASSUME NEW i \in 1..(slice.len + 1)
          PROVE  [type |-> result.val_type, val |-> element(result, i - 1)] = all[i]
      <4>1. CASE i = 1
        <5>1. 0 * size = 0 /\ \A k \in 1..size : 0 + k = k
          BY <2>7
        <5>2. HasBytes(result, 0, bytes_of(result.val_type, push.val), val_type_size(result.val_type))
          BY <2>4, <3>4, <5>1 DEF HasBytes, first, size
        <5>3. element(result, 0) = push.val
          BY <2>1, <2>4, <5>2, ElementOfValue
        <5> QED BY <2>4, <3>3, <4>1, <5>3 DEF Element
      <4>2. CASE i # 1
        <5> DEFINE j == i - 1
                   p == j - 1
                   q == slice.start + p
        <5>1. /\ j \in 1..slice.len /\ i = 1 + j /\ p \in 0..(slice.len - 1) /\ q \in Nat
              /\ q = slice.start + j - 1 /\ j \in Nat /\ slice.len > 0 /\ j = p + 1
          BY <2>5, <4>2
        <5> HIDE DEF j, p, q
        <5>2. size = 1 /\ slice.array.val_type = type /\ size = val_type_size(slice.array.val_type)
          BY <2>6, <3>1, <5>1 DEF size
        <5>3. copied[p * 1 + 1] = slice.array.bytes[q * 1 + 1]
          <6> DEFINE k == 1
          <6>1. k \in 1..size /\ p \in 0..(slice.len - 1)
            BY <5>1, <5>2
          <6> HIDE DEF k
          <6>4. IsSlice(slice) /\ size = val_type_size(slice.array.val_type)
            BY <2>5, <5>2
          <6>5. slice_bytes(slice)[p * size + k] = slice.array.bytes[(slice.start + p) * size + k]
            BY ONLY <6>1, <6>4, BytesOfSlice
          <6>2. slice_bytes(slice)[p * size + 1] = slice.array.bytes[(slice.start + p) * size + 1]
            BY <6>5 DEF k
          <6>3. slice_bytes(slice)[p * 1 + 1] = slice.array.bytes[(slice.start + p) * 1 + 1]
            BY <5>2, <6>2
          <6> QED BY <6>3 DEF copied, q
        <5>4. p * 1 + 1 = j /\ q * 1 + 1 = q + 1 /\ j * 1 + 1 = j + 1
          BY <5>1
        <5>5. result.bytes[j * 1 + 1] = slice.array.bytes[q * 1 + 1]
          BY <2>4, <3>5, <5>1, <5>3, <5>4
        <5>6. SameBytes(result, j, slice.array, q, 1)
          <6>1. \A k \in 1..1 : k = 1
            OBVIOUS
          <6> QED BY <5>5, <6>1 DEF SameBytes
        <5>7. element(result, j) = element(slice.array, q)
          BY <2>4, <5>1, <5>2, <5>6, ElementsOfBytes
        <5>8. all[i] = At(slice, j)
          BY <2>8, <3>3, <5>1
        <5> QED BY <2>4, <5>1, <5>2, <5>7, <5>8 DEF At, j
      <4> QED BY <4>1, <4>2
    <3>7. Elements(result) = all
      BY <2>3, <2>4, <3>3, <3>6, ElementsOfArray
    <3> QED BY <1>2, <2>3, <2>9, <2>11, <3>7 DEF result, all
  <2> QED BY <2>10, <2>11
<1> QED BY <1>1, <1>2, <1>3

(* Lists of which one has elements are equal when their elements are.      *)
LEMMA EqualMeans ==
  ASSUME NEW l, Good(l), IsList(l), NEW r, Good(r), IsList(r), Elements(l) # << >> \/ Elements(r) # << >>
  PROVE  slice_equal(l, r) <=> Elements(l) = Elements(r)
<1> DEFINE a == get_slice_info(l)
           b == get_slice_info(r)
           size == val_type_size(a.array.val_type)
           s == Elements(l)
           t == Elements(r)
<1>1. /\ IsSlice(a) /\ IsArray(a.array) /\ a.len \in Nat /\ a.start \in Nat
      /\ \A k \in DOMAIN a.array.bytes : a.array.bytes[k] \in Bytes
      /\ size \in Nat \ {0}
  BY InfoIsGood, BoundsTyped, SizeTyped
<1>2. /\ IsSlice(b) /\ IsArray(b.array) /\ b.len \in Nat /\ b.start \in Nat
      /\ \A k \in DOMAIN b.array.bytes : b.array.bytes[k] \in Bytes
  BY InfoIsGood, BoundsTyped
<1>3. /\ s \in Seq(Elt) /\ Len(s) = a.len
      /\ \A i \in 1..a.len : /\ s[i] = At(a, i) /\ a.start + i - 1 \in Nat
                             /\ a.start + i - 1 < a.array.len
  BY <1>1, ElementsSeq
<1>4. /\ t \in Seq(Elt) /\ Len(t) = b.len
      /\ \A i \in 1..b.len : /\ t[i] = At(b, i) /\ b.start + i - 1 \in Nat
                             /\ b.start + i - 1 < b.array.len
  BY <1>2, ElementsSeq
<1>5. slice_equal(l, r) <=> /\ a.array.val_type = b.array.val_type /\ a.len = b.len
                            /\ a.len > 0 => slice_bytes(a) = slice_bytes(b)
  BY DEF slice_equal
<1>6. /\ s = << >> <=> a.len = 0
      /\ t = << >> <=> b.len = 0
      /\ s # << >> => s[1].type = a.array.val_type
      /\ t # << >> => t[1].type = b.array.val_type
  BY Lists
<1>7. slice_bytes(a) = [i \in 1..(a.len * size) |-> slice_bytes(a)[i]]
  BY DEF slice_bytes
<1>8. a.array.val_type = b.array.val_type => slice_bytes(b) = [i \in 1..(b.len * size) |-> slice_bytes(b)[i]]
  BY DEF slice_bytes
<1>9. /\ slice_bytes(a) = slice_bytes(a)
      /\ s # << >> \/ t # << >>
  OBVIOUS
<1> HIDE DEF a, b, s, t
<1>10. ASSUME a.array.val_type = b.array.val_type, a.len = b.len, slice_bytes(a) = slice_bytes(b)
       PROVE  s = t
  <2>1. ASSUME NEW i \in 1..a.len
        PROVE  s[i] = t[i]
    <3> DEFINE e == i - 1
               p == a.start + e
               q == b.start + e
    <3>1. /\ e \in 0..(a.len - 1) /\ e \in 0..(b.len - 1) /\ p \in Nat /\ q \in Nat
          /\ p = a.start + i - 1 /\ q = b.start + i - 1 /\ i \in 1..b.len
      BY <1>1, <1>2, <1>10
    <3> HIDE DEF e, p, q, size
    <3>2. p = a.start + e /\ q = b.start + e /\ e \in 0..(a.len - 1) /\ e \in 0..(b.len - 1)
      BY <3>1 DEF p, q
    <3>3. size = val_type_size(a.array.val_type) /\ size = val_type_size(b.array.val_type)
      BY <1>10 DEF size
    <3>4. ASSUME NEW k \in 1..size
          PROVE  a.array.bytes[p * size + k] = b.array.bytes[q * size + k]
      <4>1. slice_bytes(a)[e * size + k] = a.array.bytes[p * size + k]
        <5>1. IsSlice(a) /\ size = val_type_size(a.array.val_type)
          BY <1>1, <3>3
        <5>2. slice_bytes(a)[e * size + k] = a.array.bytes[(a.start + e) * size + k]
          BY ONLY <3>2, <3>4, <5>1, BytesOfSlice
        <5> QED BY <3>2, <5>2
      <4>2. slice_bytes(b)[e * size + k] = b.array.bytes[q * size + k]
        BY <1>2, <3>2, <3>3, BytesOfSlice
      <4> QED BY <1>10, <4>1, <4>2
    <3>5. SameBytes(a.array, p, b.array, q, size)
      BY <3>4 DEF SameBytes
    <3>6. element(a.array, p) = element(b.array, q)
      BY <1>10, <3>1, <3>5, ElementsOfBytes DEF size
    <3> QED BY <1>3, <1>4, <1>10, <3>1, <3>6 DEF At
  <2> QED BY <1>1, <1>3, <1>4, <1>10, <2>1, SameSeq
<1>11. ASSUME s = t
       PROVE  /\ a.array.val_type = b.array.val_type /\ a.len = b.len
              /\ slice_bytes(a) = slice_bytes(b)
  <2>1. a.len = b.len /\ a.array.val_type = b.array.val_type
    BY <1>3, <1>4, <1>6, <1>9, <1>11
  <2>2. ASSUME NEW i \in 1..(a.len * size)
        PROVE  slice_bytes(a)[i] = slice_bytes(b)[i]
    <3> HIDE DEF size
    <3>1. PICK e \in 0..(a.len - 1), k \in 1..size : i = e * size + k
      BY <1>1, PlaceOfByte
    <3> DEFINE n == e + 1
               p == a.start + e
               q == b.start + e
    <3>2. /\ n \in 1..a.len /\ n \in 1..b.len /\ e \in 0..(b.len - 1) /\ p \in Nat /\ q \in Nat
          /\ p = a.start + n - 1 /\ q = b.start + n - 1
      BY <1>1, <1>2, <2>1
    <3>3. slice_bytes(a)[i] = a.array.bytes[p * size + k]
      <4>1. IsSlice(a) /\ size = val_type_size(a.array.val_type)
        BY <1>1 DEF size
      <4>2. slice_bytes(a)[e * size + k] = a.array.bytes[(a.start + e) * size + k]
        BY ONLY <3>1, <4>1, BytesOfSlice
      <4> QED BY <3>1, <4>2
    <3>4. slice_bytes(b)[i] = b.array.bytes[q * size + k]
      <4>1. IsSlice(b) /\ size = val_type_size(b.array.val_type)
        BY <1>2, <2>1 DEF size
      <4>2. e \in 0..(b.len - 1) /\ k \in 1..size
        BY <3>1, <3>2
      <4>3. slice_bytes(b)[e * size + k] = b.array.bytes[(b.start + e) * size + k]
        BY ONLY <4>1, <4>2, BytesOfSlice
      <4> QED BY <3>1, <4>3
    <3> HIDE DEF n, p, q
    <3>5. p < a.array.len /\ q < b.array.len
      BY <1>3, <1>4, <3>2
    <3>6. element(a.array, p) = element(b.array, q)
      <4>1. At(a, n) = At(b, n)
        BY <1>3, <1>4, <1>11, <3>2
      <4>2. At(a, n).val = element(a.array, p) /\ At(b, n).val = element(b.array, q)
        BY <3>2 DEF At
      <4> QED BY <4>1, <4>2
    <3>7. SameBytes(a.array, p, b.array, q, size)
      BY <1>1, <1>2, <2>1, <3>2, <3>5, <3>6, BytesOfSame DEF size
    <3> QED BY <3>3, <3>4, <3>7 DEF SameBytes
  <2> QED BY <1>7, <1>8, <2>1, <2>2
<1> QED
  <2>1. ASSUME slice_equal(l, r)
        PROVE  s = t
    <3>1. a.array.val_type = b.array.val_type /\ a.len = b.len
      BY <1>5, <2>1
    <3>2. a.len > 0
      BY <1>1, <1>2, <1>6, <1>9, <3>1
    <3> QED BY <1>5, <1>10, <2>1, <3>1, <3>2
  <2>2. ASSUME s = t
        PROVE  slice_equal(l, r)
    BY <1>5, <1>11, <2>2
  <2> QED BY <2>1, <2>2 DEF s, t

-----------------------------------------------------------------------------
(* The stack as the values of SliceSpec.                                   *)
Mapped(s) == [i \in DOMAIN s |-> Meaning(s[i])]

\* The meanings of the values on the stack.
LEMMA MappedSeq ==
  ASSUME NEW S, NEW s \in Seq(S)
  PROVE  /\ Mapped(s) \in Seq({ Meaning(val) : val \in S })
         /\ Len(Mapped(s)) = Len(s) /\ Len(s) \in Nat /\ DOMAIN s = 1..Len(s)
         /\ \A i \in 1..Len(s) : Mapped(s)[i] = Meaning(s[i])
<1> DEFINE T == { Meaning(val) : val \in S }
           n == Len(s)
<1>1. n \in Nat /\ DOMAIN s = 1..n /\ \A i \in 1..n : s[i] \in S
  BY LenProperties
<1>2. /\ Mapped(s) = [i \in 1..n |-> Meaning(s[i])]
      /\ \A i \in 1..n : Mapped(s)[i] = Meaning(s[i])
  BY <1>1 DEF Mapped
<1>3. \A i \in 1..n : Meaning(s[i]) \in T
  BY <1>1
<1> HIDE DEF T, n
<1>4. Mapped(s) \in [1..n -> T]
  BY <1>2, <1>3
<1> DEFINE mapped == Mapped(s)
<1>5. mapped \in [1..n -> T] /\ n \in Nat
  BY <1>1, <1>4
<1> HIDE DEF mapped
<1>6. mapped \in Seq(T)
  BY ONLY <1>5, SeqDef
<1>7. DOMAIN mapped = 1..n
  BY ONLY <1>5
<1>8. Len(mapped) = n
  BY ONLY <1>5, <1>6, <1>7, LenProperties
<1> QED BY <1>1, <1>2, <1>6, <1>8 DEF mapped, T, n

\* The meanings of those that are left,
LEMMA MappedPopped ==
  ASSUME NEW S, NEW s \in Seq(S), NEW n \in Nat, n <= Len(s)
  PROVE  Mapped(SubSeq(s, 1, n)) = SubSeq(Mapped(s), 1, n)
<1> DEFINE T == { Meaning(val) : val \in S }
           l == SubSeq(s, 1, n)
           r == SubSeq(Mapped(s), 1, n)
<1>6. /\ Mapped(s) \in Seq(T) /\ Len(Mapped(s)) = Len(s) /\ Len(s) \in Nat
      /\ \A i \in 1..Len(s) : Mapped(s)[i] = Meaning(s[i])
  BY MappedSeq
<1>7. \A i \in 1..Len(s) : s[i] \in S
  OBVIOUS
<1>8. \A i \in 1..Len(s) : Meaning(s[i]) \in T
  BY <1>7
<1>1. /\ Mapped(s) \in Seq(T) /\ Len(Mapped(s)) = Len(s) /\ Len(s) \in Nat
      /\ \A i \in 1..Len(s) : s[i] \in S /\ Mapped(s)[i] = Meaning(s[i]) /\ Mapped(s)[i] \in T
  BY <1>6, <1>7, <1>8
<1> HIDE DEF T
<1>2. /\ l \in Seq(S) /\ Len(l) = n /\ \A i \in 1..n : l[i] = s[i]
  BY <1>1, SubSeqProperties
<1>3. /\ r \in Seq(T) /\ Len(r) = n /\ \A i \in 1..n : r[i] = Mapped(s)[i]
  BY <1>1, SubSeqProperties
<1> HIDE DEF l, r
<1>4. /\ Mapped(l) \in Seq({ Meaning(val) : val \in S }) /\ Len(Mapped(l)) = n
      /\ \A i \in 1..n : Mapped(l)[i] = Meaning(l[i])
  BY <1>2, MappedSeq
<1>5. \A i \in 1..n : Mapped(l)[i] = r[i]
  BY <1>1, <1>2, <1>3, <1>4
<1> QED BY <1>3, <1>4, <1>5, SameSeq DEF l, r, T

\* and of one more.
LEMMA MappedAppend ==
  ASSUME NEW S, NEW s \in Seq(S), NEW val
  PROVE  Mapped(Append(s, val)) = Append(Mapped(s), Meaning(val))
<1> DEFINE S2 == S \union {val}
           T == { Meaning(v) : v \in S2 }
           n == Len(s)
           l == Append(s, val)
           r == Append(Mapped(s), Meaning(val))
<1>1. s \in Seq(S2) /\ val \in S2 /\ Meaning(val) \in T
  OBVIOUS
<1> HIDE DEF S2
<1>2. /\ Mapped(s) \in Seq(T) /\ Len(Mapped(s)) = n /\ n \in Nat
      /\ \A i \in 1..n : Mapped(s)[i] = Meaning(s[i])
  BY <1>1, MappedSeq
<1>3. /\ l \in Seq(S2) /\ Len(l) = n + 1 /\ l[n + 1] = val
      /\ \A i \in 1..n : l[i] = s[i]
  BY <1>1, AppendProperties
<1> HIDE DEF T, n
<1>4. /\ r \in Seq(T) /\ Len(r) = n + 1 /\ r[n + 1] = Meaning(val)
      /\ \A i \in 1..n : r[i] = Mapped(s)[i]
  BY <1>1, <1>2, AppendProperties
<1> HIDE DEF l, r
<1>5. /\ Mapped(l) \in Seq(T) /\ Len(Mapped(l)) = n + 1
      /\ \A i \in 1..(n + 1) : Mapped(l)[i] = Meaning(l[i])
  BY <1>3, MappedSeq DEF T
<1>6. \A i \in 1..(n + 1) : i \in 1..n \/ i = n + 1
  BY <1>2
<1>7. \A i \in 1..(n + 1) : Mapped(l)[i] = r[i]
  BY <1>2, <1>3, <1>4, <1>5, <1>6
<1> QED BY <1>2, <1>4, <1>5, <1>7, SameSeq DEF l, r

(* The arguments of a function of SliceSpec are what those of the code     *)
(* stand for, and so is its result.                                        *)
LEMMA AbstractArgs ==
  ASSUME IInv, NEW n \in Nat, n <= Len(stack), status = "running"
  PROVE  /\ Abstract!Args(n)
         /\ n > 0 => Abstract!Arg(n) = Meaning(Top(n))
         /\ Abstract!Rest(n) = Mapped(Popped(n))
<1>1. PICK S : stack \in Seq(S)
  BY DEF IInv, AllGood
<1>2. /\ Len(Mapped(stack)) = Len(stack) /\ Len(stack) \in Nat
      /\ \A i \in 1..Len(stack) : Mapped(stack)[i] = Meaning(stack[i])
  BY <1>1, MappedSeq
<1>3. Abstract!Args(n)
  BY <1>2 DEF Abstract!Args, Mapped
<1>4. n > 0 => Abstract!Arg(n) = Meaning(Top(n))
  <2>1. Abstract!Arg(n) = Mapped(stack)[Len(Mapped(stack)) + 1 - n]
    BY DEF Abstract!Arg, Mapped
  <2>2. n > 0 => Len(stack) + 1 - n \in 1..Len(stack)
    BY <1>2
  <2> QED BY <1>2, <2>1, <2>2 DEF Top
<1>5. Abstract!Rest(n) = Mapped(Popped(n))
  <2>1. Abstract!Rest(n) = SubSeq(Mapped(stack), 1, Len(Mapped(stack)) - n)
    BY DEF Abstract!Rest, Mapped
  <2> DEFINE k == Len(stack) - n
  <2>2. k \in Nat /\ k <= Len(stack)
    BY <1>2
  <2> HIDE DEF k
  <2>3. Mapped(SubSeq(stack, 1, k)) = SubSeq(Mapped(stack), 1, k)
    BY <1>1, <2>2, MappedPopped
  <2> QED BY <1>2, <2>1, <2>3 DEF Popped, k
<1> QED BY <1>3, <1>4, <1>5

\* What a function returns is what the abstract one gives.
LEMMA AbstractReturns ==
  ASSUME IInv, NEW n \in Nat, NEW result, Returns(n, result)
  PROVE  /\ n <= Len(stack) /\ status = "running"
         /\ ~IsFault(result) => Abstract!Gives(n, Meaning(result))
         /\ IsFault(result) /\ result.type # "undefined" => Abstract!Stops(n, result.type)
         /\ result.type = "undefined" => Abstract!Breaks
<1>1. PICK S : stack \in Seq(S)
  BY DEF IInv, AllGood
<1>2. n <= Len(stack) /\ status = "running" /\ Len(stack) \in Nat
  BY <1>1, LenProperties DEF Returns
<1>3. Abstract!Rest(n) = Mapped(Popped(n))
  BY <1>2, AbstractArgs
<1>4. Popped(n) \in Seq(S)
  <2>1. \A i \in 1..(Len(stack) - n) : stack[i] \in S
    BY <1>1, <1>2, LenProperties
  <2> QED BY <1>2, <2>1, SubSeqProperties DEF Popped
<1>5. ASSUME ~IsFault(result)
      PROVE  Abstract!Gives(n, Meaning(result))
  <2>1. stack' = Append(Popped(n), result) /\ status' = "running"
    BY <1>5, Faults DEF Returns, IsFault
  <2>2. Mapped(stack') = Append(Abstract!Rest(n), Meaning(result))
    BY <1>3, <1>4, <2>1, MappedAppend
  <2> QED BY <2>1, <2>2 DEF Abstract!Gives, Mapped
<1>6. ASSUME IsFault(result), result.type # "undefined"
      PROVE  Abstract!Stops(n, result.type)
  <2>1. stack' = Popped(n) /\ status' = result.type
    BY <1>6 DEF Returns
  <2>2. Mapped(stack') = Abstract!Rest(n)
    BY <1>3, <2>1
  <2> QED BY <2>1, <2>2 DEF Abstract!Stops, Mapped
<1>7. ASSUME result.type = "undefined"
      PROVE  Abstract!Breaks
  <2>1. stack' = stack /\ status' = "undefined"
    BY <1>7 DEF Returns, IsFault
  <2>2. Mapped(stack') = Mapped(stack)
    BY <2>1
  <2> QED BY <2>1, <2>2 DEF Abstract!Breaks, Mapped
<1> QED BY <1>2, <1>5, <1>6, <1>7

(* What kind of value it is.                                               *)
LEMMA Kinds ==
  ASSUME NEW val, Good(val)
  PROVE  /\ val.type = "BOX" <=> ~IsList(val)
         /\ ~IsFault(val)
         /\ Abstract!IsA("box", Meaning(val)) <=> val.type = "BOX"
         /\ Abstract!IsA("list", Meaning(val)) <=> IsList(val)
         /\ Abstract!IsInt(Meaning(val)) <=> IsIndex(val)
         /\ val.type = "BOX" => Meaning(val).of = Element(val)
         /\ IsList(val) => Meaning(val) = Abstract!List(Elements(val)) /\ Meaning(val).of = Elements(val)
<1>1. val.type \in {"BOX", "ARRAY", "SLICE"}
  BY DEF Good, IsValue
<1>2. (val.type = "BOX" <=> ~IsList(val)) /\ ~IsFault(val)
  BY <1>1 DEF IsList, IsFault
<1>3. val.type = "BOX" => Meaning(val) = [kind |-> "box", of |-> Element(val)]
  BY DEF Meaning, Element
<1>4. IsList(val) => Meaning(val) = [kind |-> "list", of |-> Elements(val)]
  BY <1>2 DEF Meaning
<1>5. val.type = "BOX" => (Element(val).type = "INT" <=> IsIndex(val))
  BY DEF Element, IsIndex
<1>6. IsIndex(val) => val.type = "BOX"
  BY DEF IsIndex
<1> HIDE DEF Meaning
<1> QED BY <1>2, <1>3, <1>4, <1>5, <1>6 DEF Abstract!IsA, Abstract!IsInt, Abstract!List

-----------------------------------------------------------------------------
(* Each function is the function of SliceSpec.                             *)
LEMMA ConstStep ==
  ASSUME IInv, NEW val \in Constants, PushConst(val)
  PROVE  Abstract!SConst
<1>1. Returns(0, val) /\ ~IsFault(val)
  BY ConstantsAssumption, GoodKinds DEF PushConst, Good
<1>2. Abstract!Gives(0, Meaning(val)) /\ Abstract!Args(0)
  BY <1>1, AbstractReturns, AbstractArgs
<1> QED BY <1>2 DEF Abstract!SConst

\* SLICE_EMPTY is a step of the abstract machine.
LEMMA EmptyStep ==
  ASSUME IInv, SliceEmpty
  PROVE  Abstract!SConst
<1>1. Returns(0, slice_empty) /\ Good(slice_empty) /\ slice_empty.type = "ARRAY" /\ slice_empty.len = 0
  <2>1. ~IsFault(slice_empty) /\ slice_empty.type = "ARRAY" /\ slice_empty.len = 0
    BY DEF slice_empty, Array, IsFault
  <2> QED BY <2>1, EmptyResult DEF SliceEmpty, IsResult
<1> HIDE DEF slice_empty
<1>2. IsList(slice_empty)
  BY <1>1 DEF IsList
<1>3. Elements(slice_empty) = << >>
  BY <1>1, <1>2, ElementsSeq, EmptySeq
<1>4. Meaning(slice_empty) = Abstract!List(<< >>) /\ ~IsFault(slice_empty)
  BY <1>1, <1>2, <1>3, Kinds
<1>5. Abstract!Gives(0, Abstract!List(<< >>)) /\ Abstract!Args(0)
  BY <1>1, <1>4, AbstractReturns, AbstractArgs DEF Abstract!Gives
<1> QED BY <1>5 DEF Abstract!SConst

(* The two arguments of a function.                                        *)
LEMMA TwoArgs ==
  ASSUME IInv, Len(stack) >= 2, status = "running"
  PROVE  /\ Good(Top(1)) /\ Good(Top(2)) /\ Abstract!Args(2)
         /\ Abstract!Arg(1) = Meaning(Top(1)) /\ Abstract!Arg(2) = Meaning(Top(2))
<1>1. AllGood(stack) /\ Len(stack) \in Nat
  BY LenProperties DEF IInv, AllGood
<1> QED BY <1>1, TopIsGood, AbstractArgs

\* The number that an index means.
LEMMA IndexValue ==
  ASSUME NEW x, Good(x), IsIndex(x)
  PROVE  Meaning(x).of.val = x.val
<1>1. x.type = "BOX"
  BY DEF IsIndex
<1>2. Meaning(x).of = Element(x)
  BY <1>1, Kinds
<1>3. Element(x).val = x.val
  BY DEF Element
<1> QED BY <1>2, <1>3

\* SLICE_DROP is one.
LEMMA DropStep ==
  ASSUME IInv, SliceDrop
  PROVE  Abstract!SDrop
<1> DEFINE x == Top(1)
           y == Top(2)
           result == slice_drop(x, y)
           s == Elements(y)
<1>1. Len(stack) >= 2 /\ Returns(2, result) /\ status = "running"
  BY DEF SliceDrop, Returns
<1>2. /\ Good(x) /\ Good(y) /\ Abstract!Args(2)
      /\ Abstract!Arg(1) = Meaning(x) /\ Abstract!Arg(2) = Meaning(y)
  BY <1>1, TwoArgs
<1>3. /\ ~IsFault(result) => Abstract!Gives(2, Meaning(result))
      /\ IsFault(result) /\ result.type # "undefined" => Abstract!Stops(2, result.type)
  BY <1>1, AbstractReturns
<1>4. Error.type = "error" /\ IsFault(Error)
  BY DEF Error, Fault, IsFault
<1>5. IsIndex(x) => Abstract!Arg(1).of.val = x.val
  BY <1>2, IndexValue
<1>6. /\ Abstract!IsInt(Abstract!Arg(1)) <=> IsIndex(x)
      /\ Abstract!IsA("list", Abstract!Arg(2)) <=> IsList(y)
      /\ Abstract!IsA("box", Abstract!Arg(2)) <=> ~IsList(y)
      /\ IsList(y) => Abstract!Arg(2).of = s
  BY <1>2, Kinds
<1>7. CASE ~IsIndex(x)
  <2>1. result = Error
    BY <1>7 DEF slice_drop
  <2> QED BY <1>2, <1>3, <1>4, <1>6, <1>7, <2>1 DEF Abstract!SDrop
<1>8. CASE IsIndex(x) /\ x.val = 0
  <2>1. result = y
    BY <1>8 DEF slice_drop
  <2>2. Abstract!Gives(2, Abstract!Arg(2))
    BY <1>2, <1>3, <2>1, Kinds DEF Abstract!Gives
  <2> QED BY <1>2, <1>5, <1>6, <1>8, <2>2 DEF Abstract!SDrop
<1>9. CASE IsIndex(x) /\ x.val # 0 /\ ~IsList(y)
  <2>1. result = Error
    BY <1>9 DEF slice_drop
  <2>2. Abstract!Stops(2, "error")
    BY <1>3, <1>4, <2>1
  <2> QED BY <1>2, <1>5, <1>6, <1>9, <2>2 DEF Abstract!SDrop
<1>10. CASE IsIndex(x) /\ x.val # 0 /\ IsList(y)
  <2> DEFINE dropped == IF x.val < 0 THEN << >> ELSE SubSeq(s, x.val + 1, Len(s))
  <2>1. IsList(result) /\ Good(result) /\ Elements(result) = dropped
    BY <1>2, <1>10, DropMeans
  <2> HIDE DEF result, dropped
  <2>2. ~IsFault(result) /\ Meaning(result) = Abstract!List(dropped)
    BY <2>1, Kinds
  <2>3. Abstract!Gives(2, Abstract!List(dropped))
    BY <1>3, <2>2 DEF Abstract!Gives
  <2>4. dropped = IF Abstract!Arg(1).of.val < 0 THEN << >>
                  ELSE SubSeq(Abstract!Arg(2).of, Abstract!Arg(1).of.val + 1, Len(Abstract!Arg(2).of))
    BY <1>5, <1>6, <1>10 DEF dropped
  <2>5. Abstract!Gives(2, Abstract!List(IF Abstract!Arg(1).of.val < 0 THEN << >>
                  ELSE SubSeq(Abstract!Arg(2).of, Abstract!Arg(1).of.val + 1, Len(Abstract!Arg(2).of))))
    BY <2>3, <2>4 DEF Abstract!Gives
  <2> QED BY <1>2, <1>5, <1>6, <1>10, <2>5 DEF Abstract!SDrop
<1> QED BY <1>7, <1>8, <1>9, <1>10

\* SLICE_TAKE is one.
LEMMA TakeStep ==
  ASSUME IInv, SliceTake
  PROVE  Abstract!STake
<1> DEFINE x == Top(1)
           y == Top(2)
           result == slice_take(x, y)
           s == Elements(y)
           n == Abstract!Arg(1).of.val
<1>1. Len(stack) >= 2 /\ Returns(2, result) /\ status = "running"
  BY DEF SliceTake, Returns
<1>2. /\ Good(x) /\ Good(y) /\ Abstract!Args(2)
      /\ Abstract!Arg(1) = Meaning(x) /\ Abstract!Arg(2) = Meaning(y)
  BY <1>1, TwoArgs
<1>3. /\ ~IsFault(result) => Abstract!Gives(2, Meaning(result))
      /\ IsFault(result) /\ result.type # "undefined" => Abstract!Stops(2, result.type)
  BY <1>1, AbstractReturns
<1>4. Error.type = "error" /\ IsFault(Error)
  BY DEF Error, Fault, IsFault
<1>5. IsIndex(x) => n = x.val /\ n \in Int
  <2>1. IsIndex(x) => x.val \in Int
    BY <1>2, GoodKinds, IntegersTyped DEF IsIndex
  <2> QED BY <1>2, <2>1, IndexValue
<1>6. /\ Abstract!IsInt(Abstract!Arg(1)) <=> IsIndex(x)
      /\ Abstract!IsA("list", Abstract!Arg(2)) <=> IsList(y)
      /\ Abstract!IsA("box", Abstract!Arg(2)) <=> ~IsList(y)
      /\ IsList(y) => Abstract!Arg(2).of = s
  BY <1>2, Kinds
<1>7. CASE ~IsIndex(x)
  <2>1. result = Error
    BY <1>7 DEF slice_take
  <2> QED BY <1>2, <1>3, <1>4, <1>6, <1>7, <2>1 DEF Abstract!STake
<1>8. CASE IsIndex(x) /\ x.val = 0
  <2>1. result = y
    BY <1>8 DEF slice_take
  <2>2. Abstract!Gives(2, Abstract!Arg(2))
    BY <1>2, <1>3, <2>1, Kinds DEF Abstract!Gives
  <2> HIDE DEF n
  <2>3. n <= 0 /\ n = 0
    BY <1>5, <1>8
  <2> QED BY <1>2, <1>6, <1>8, <2>2, <2>3 DEF Abstract!STake, n
<1>9. CASE IsIndex(x) /\ x.val # 0 /\ ~IsList(y)
  <2>1. result = Error
    BY <1>9 DEF slice_take
  <2>2. Abstract!Stops(2, "error")
    BY <1>3, <1>4, <2>1
  <2> QED BY <1>2, <1>5, <1>6, <1>9, <2>2 DEF Abstract!STake
<1>10. CASE IsIndex(x) /\ x.val # 0 /\ IsList(y)
  <2> DEFINE taken == SubSeq(s, 1, IF x.val < Len(s) THEN x.val ELSE Len(s))
  <2>1. /\ IsList(result) /\ Good(result)
        /\ x.val < 0 => Elements(result) = s
        /\ x.val > 0 => Elements(result) = taken
    BY <1>2, <1>10, TakeMeans
  <2> HIDE DEF result, taken
  <2>2. ~IsFault(result) /\ Meaning(result) = Abstract!List(Elements(result))
    BY <2>1, Kinds
  <2>3. CASE x.val < 0
    <3>1. Meaning(result) = Abstract!Arg(2)
      BY <1>2, <1>10, <2>1, <2>2, <2>3, Kinds
    <3>2. Abstract!Gives(2, Abstract!Arg(2))
      BY <1>3, <2>2, <3>1 DEF Abstract!Gives
    <3> HIDE DEF n
    <3>3. n <= 0
      BY <1>5, <1>10, <2>3
    <3> QED BY <1>2, <1>6, <1>10, <3>2, <3>3 DEF Abstract!STake, n
  <2>4. CASE x.val > 0
    <3>1. taken = SubSeq(Abstract!Arg(2).of, 1, IF n < Len(Abstract!Arg(2).of) THEN n ELSE Len(Abstract!Arg(2).of))
      BY <1>5, <1>6, <1>10 DEF taken
    <3>2. Abstract!Gives(2, Abstract!List(
            SubSeq(Abstract!Arg(2).of, 1, IF n < Len(Abstract!Arg(2).of) THEN n ELSE Len(Abstract!Arg(2).of))))
      BY <1>3, <2>1, <2>2, <2>4, <3>1 DEF Abstract!Gives
    <3>3. n > 0
      <4> HIDE DEF n
      <4> QED BY <1>5, <1>10, <2>4
    <3> QED BY <1>2, <1>6, <1>10, <3>2, <3>3 DEF Abstract!STake
  <2>5. x.val < 0 \/ x.val > 0
    <3> HIDE DEF n
    <3> QED BY <1>5, <1>10
  <2> QED BY <2>3, <2>4, <2>5
<1> QED BY <1>7, <1>8, <1>9, <1>10

\* READ_SLICE_INDEX is one.
LEMMA IndexStep ==
  ASSUME IInv, ReadSliceIndex
  PROVE  Abstract!SIndex
<1> DEFINE x == Top(1)
           y == Top(2)
           result == slice_index(x, y)
           s == Elements(y)
           InRange == /\ Abstract!IsInt(Abstract!Arg(1)) /\ Abstract!IsA("list", Abstract!Arg(2))
                      /\ Abstract!Arg(1).of.val \in 0..(Abstract!Size(Abstract!Arg(2)) - 1)
<1>1. Len(stack) >= 2 /\ Returns(2, result) /\ status = "running"
  BY DEF ReadSliceIndex, Returns
<1>2. /\ Good(x) /\ Good(y) /\ Abstract!Args(2)
      /\ Abstract!Arg(1) = Meaning(x) /\ Abstract!Arg(2) = Meaning(y)
  BY <1>1, TwoArgs
<1>3. /\ ~IsFault(result) => Abstract!Gives(2, Meaning(result))
      /\ IsFault(result) /\ result.type # "undefined" => Abstract!Stops(2, result.type)
  BY <1>1, AbstractReturns
<1>4. Error.type = "error" /\ IsFault(Error)
  BY DEF Error, Fault, IsFault
<1>5. IsIndex(x) => Abstract!Arg(1).of.val = x.val
  BY <1>2, IndexValue
<1>6. /\ Abstract!IsInt(Abstract!Arg(1)) <=> IsIndex(x)
      /\ Abstract!IsA("list", Abstract!Arg(2)) <=> IsList(y)
      /\ IsList(y) => Abstract!Arg(2).of = s /\ Abstract!Size(Abstract!Arg(2)) = Len(s)
  BY <1>2, Kinds DEF Abstract!Size
<1>7. InRange <=> IsIndex(x) /\ IsList(y) /\ x.val \in 0..(Len(s) - 1)
  BY <1>5, <1>6
<1>8. /\ InRange => result.type = "BOX" /\ Meaning(result) = [kind |-> "box", of |-> s[x.val + 1]]
      /\ ~InRange => result = Error
  BY <1>2, <1>7, IndexMeans
<1>9. CASE InRange
  <2>1. ~IsFault(result)
    BY <1>8, <1>9 DEF IsFault
  <2>2. Meaning(result) = [kind |-> "box", of |-> Abstract!Arg(2).of[Abstract!Arg(1).of.val + 1]]
    BY <1>5, <1>6, <1>7, <1>8, <1>9
  <2>3. Abstract!Gives(2, [kind |-> "box", of |-> Abstract!Arg(2).of[Abstract!Arg(1).of.val + 1]])
    BY <1>3, <2>1, <2>2 DEF Abstract!Gives
  <2> QED BY <1>2, <1>9, <2>3 DEF Abstract!SIndex
<1>10. CASE ~InRange
  <2>1. Abstract!Stops(2, "error")
    BY <1>3, <1>4, <1>8, <1>10
  <2> QED BY <1>2, <1>10, <2>1 DEF Abstract!SIndex
<1> QED BY <1>9, <1>10

\* SLICE_LEN is one.
LEMMA LenStep ==
  ASSUME IInv, SliceLen
  PROVE  Abstract!SLength
<1> DEFINE y == Top(1)
           result == slice_len(y)
<1>1. Len(stack) >= 1 /\ Returns(1, result) /\ status = "running" /\ Len(stack) \in Nat
  BY LenProperties DEF SliceLen, Returns, IInv, AllGood
<1>2. Good(y) /\ Abstract!Args(1) /\ Abstract!Arg(1) = Meaning(y)
  BY <1>1, TopIsGood, AbstractArgs DEF IInv
<1>3. /\ ~IsFault(result) => Abstract!Gives(1, Meaning(result))
      /\ IsFault(result) /\ result.type # "undefined" => Abstract!Stops(1, result.type)
  BY <1>1, AbstractReturns
<1>4. /\ Abstract!IsA("list", Abstract!Arg(1)) <=> IsList(y)
      /\ Abstract!IsA("box", Abstract!Arg(1)) <=> ~IsList(y)
      /\ IsList(y) => Abstract!Size(Abstract!Arg(1)) = Len(Elements(y))
  BY <1>2, Kinds DEF Abstract!Size
<1>5. CASE IsList(y)
  <2>1. /\ result = Box("INT", Len(Elements(y)))
        /\ Meaning(result) = [kind |-> "box", of |-> [type |-> "INT", val |-> Len(Elements(y))]]
    BY <1>2, <1>5, LenMeans
  <2>2. ~IsFault(result)
    BY <2>1 DEF Box, IsFault
  <2>3. Meaning(result) = Abstract!Lone("INT", Abstract!Size(Abstract!Arg(1)))
    BY <1>4, <1>5, <2>1 DEF Abstract!Lone
  <2>4. Abstract!Gives(1, Abstract!Lone("INT", Abstract!Size(Abstract!Arg(1))))
    BY <1>3, <2>2, <2>3 DEF Abstract!Gives
  <2> QED BY <1>2, <1>4, <1>5, <2>4 DEF Abstract!SLength
<1>6. CASE ~IsList(y)
  <2>1. result = Error
    BY <1>2, <1>6, LenMeans
  <2>2. Abstract!Stops(1, "error")
    BY <1>3, <2>1 DEF Error, Fault, IsFault
  <2> QED BY <1>2, <1>4, <1>6, <2>2 DEF Abstract!SLength
<1> QED BY <1>5, <1>6

\* SLICE_JOIN is one.
LEMMA JoinStep ==
  ASSUME IInv, SliceJoin
  PROVE  Abstract!SJoin
<1> DEFINE x == Top(1)
           y == Top(2)
           result == slice_join(x, y)
           s == Elements(x)
           t == Elements(y)
           Joined == Abstract!Joined(Abstract!Arg(1), Abstract!Arg(2))
<1>1. Len(stack) >= 2 /\ Returns(2, result) /\ status = "running"
      /\ (IsList(x) /\ IsList(y) => x.len + y.len <= MaxLen)
  BY DEF SliceJoin, Returns, Fits
<1>2. /\ Good(x) /\ Good(y) /\ Abstract!Args(2)
      /\ Abstract!Arg(1) = Meaning(x) /\ Abstract!Arg(2) = Meaning(y)
  BY <1>1, TwoArgs
<1>3. /\ ~IsFault(result) => Abstract!Gives(2, Meaning(result))
      /\ IsFault(result) /\ result.type # "undefined" => Abstract!Stops(2, result.type)
      /\ result.type = "undefined" => Abstract!Breaks
  BY <1>1, AbstractReturns
<1>4. /\ Abstract!IsA("list", Abstract!Arg(1)) <=> IsList(x)
      /\ Abstract!IsA("list", Abstract!Arg(2)) <=> IsList(y)
      /\ IsList(x) => Abstract!Arg(1).of = s
      /\ IsList(y) => Abstract!Arg(2).of = t
  BY <1>2, Kinds
<1>5. Joined <=> /\ IsList(x) /\ IsList(y)
                 /\ s # << >> /\ t # << >> => s[1].type = t[1].type
  BY <1>4 DEF Abstract!Joined, Abstract!Alike
<1>6. /\ Joined /\ ~Heavy(s \o t) => IsList(result) /\ Good(result) /\ Elements(result) = s \o t
      /\ Joined /\ Heavy(s \o t) => result = Undefined
      /\ ~Joined => result = Error
  BY <1>1, <1>2, <1>5, JoinMeans
<1>7. Joined => (Abstract!Large(Abstract!Arg(1).of \o Abstract!Arg(2).of) <=> Heavy(s \o t))
  <2>1. Joined => ((s \o t) # << >> => (s \o t)[1].type \in ArrayTypes)
    BY <1>1, <1>2, <1>5, JoinMeans
  <2>2. Joined => (Abstract!Large(s \o t) <=> Heavy(s \o t))
    BY <2>1, HeavyMeans
  <2> QED BY <1>4, <1>5, <2>2
<1>8. CASE Joined /\ ~Heavy(s \o t)
  <2>1. IsList(result) /\ Elements(result) = s \o t /\ Good(result)
    BY <1>6, <1>8
  <2> HIDE DEF result
  <2>2. ~IsFault(result)
    BY <2>1, GoodKinds
  <2>3. Meaning(result) = Abstract!List(Abstract!Arg(1).of \o Abstract!Arg(2).of)
    BY <1>4, <1>5, <1>8, <2>1, <2>2, Kinds
  <2>4. Abstract!Gives(2, Abstract!List(Abstract!Arg(1).of \o Abstract!Arg(2).of))
    BY <1>3, <2>2, <2>3 DEF Abstract!Gives
  <2> QED BY <1>2, <1>7, <1>8, <2>4 DEF Abstract!SJoin
<1>10. CASE Joined /\ Heavy(s \o t)
  <2>1. Abstract!Breaks
    BY <1>3, <1>6, <1>10, Faults
  <2> QED BY <1>2, <1>7, <1>10, <2>1 DEF Abstract!SJoin
<1>9. CASE ~Joined
  <2>1. Abstract!Stops(2, "error")
    BY <1>3, <1>6, <1>9 DEF Error, Fault, IsFault
  <2> QED BY <1>2, <1>9, <2>1 DEF Abstract!SJoin
<1> QED BY <1>8, <1>9, <1>10

\* What may be added to a list is the same on both sides.
LEMMA AddableMeans ==
  ASSUME NEW push, Good(push), NEW val, Good(val)
  PROVE  /\ Abstract!Addable(Meaning(push), Meaning(val)) <=> Addable(push, val)
         /\ push.type = "BOX" => Meaning(push).of.type = push.val_type
         /\ push.type = "BOX" => Meaning(push).of = Element(push)
<1>1. push.type = "BOX" => Meaning(push).of = Element(push)
  BY Kinds
<1>2. Element(push).type = push.val_type
  BY DEF Element
<1>3. <<Meaning(push).of>> # << >> /\ <<Meaning(push).of>>[1] = Meaning(push).of
  OBVIOUS
<1>4. /\ Abstract!IsA("box", Meaning(push)) <=> push.type = "BOX"
      /\ Abstract!IsA("list", Meaning(val)) <=> IsList(val)
      /\ IsList(val) => Meaning(val).of = Elements(val)
  BY Kinds
<1>5. Abstract!Addable(Meaning(push), Meaning(val))
        <=> /\ push.type = "BOX" /\ IsList(val)
            /\ Elements(val) # << >> => Meaning(push).of.type = Elements(val)[1].type
  <2> HIDE DEF Meaning, Elements
  <2> QED BY <1>3, <1>4 DEF Abstract!Addable, Abstract!Alike
<1> QED BY <1>1, <1>2, <1>5 DEF Addable

\* SLICE_PUSH is one.
LEMMA PushStep ==
  ASSUME IInv, SlicePush
  PROVE  Abstract!SPush
<1> DEFINE y == Top(1)
           x == Top(2)
           result == slice_push(y, x)
           s == Elements(y)
           l == Abstract!Arg(1)
           r == Abstract!Arg(2)
           all == Append(s, Element(x))
<1>1. Len(stack) >= 2 /\ Returns(2, result) /\ status = "running" /\ (IsList(y) => y.len + 1 <= MaxLen)
  BY DEF SlicePush, Returns, Short, Fits
<1>2. Good(x) /\ Good(y) /\ Abstract!Args(2) /\ l = Meaning(y) /\ r = Meaning(x)
  BY <1>1, TwoArgs
<1>3. /\ ~IsFault(result) => Abstract!Gives(2, Meaning(result))
      /\ IsFault(result) /\ result.type # "undefined" => Abstract!Stops(2, result.type)
      /\ result.type = "undefined" => Abstract!Breaks
  BY <1>1, AbstractReturns
<1>4. /\ Abstract!Addable(r, l) <=> Addable(x, y)
      /\ x.type = "BOX" => r.of.type = x.val_type /\ r.of = Element(x)
      /\ IsList(y) => l.of = s
  BY <1>2, AddableMeans, Kinds
<1>5. /\ Addable(x, y) /\ x.val_type # "UNIT" /\ ~Heavy(all) =>
           IsList(result) /\ Good(result) /\ Elements(result) = all
      /\ Addable(x, y) /\ x.val_type # "UNIT" /\ Heavy(all) => result = Undefined
      /\ Addable(x, y) /\ x.val_type = "UNIT" => result = Fault("panic")
      /\ ~Addable(x, y) => result = Error
  BY <1>1, <1>2, PushMeans
<1>6. Addable(x, y) => x.type = "BOX" /\ IsList(y)
  BY DEF Addable
<1>7. Addable(x, y) /\ x.val_type # "UNIT" => (Abstract!Large(Append(l.of, r.of)) <=> Heavy(all))
  <2>1. Addable(x, y) /\ x.val_type # "UNIT" => all[1].type \in ArrayTypes
    BY <1>2, MoreIsHeavy
  <2>2. Addable(x, y) => Append(l.of, r.of) = all
    BY <1>4, <1>6
  <2> HIDE DEF all
  <2> QED BY <2>1, <2>2, HeavyMeans
<1>11. CASE Addable(x, y) /\ x.val_type # "UNIT" /\ Heavy(all)
  <2>1. Abstract!Breaks
    BY <1>3, <1>5, <1>11, Faults
  <2> QED BY <1>2, <1>4, <1>6, <1>7, <1>11, <2>1 DEF Abstract!SPush, Abstract!Adds
<1>8. CASE Addable(x, y) /\ x.val_type # "UNIT" /\ ~Heavy(all)
  <2>1. IsList(result) /\ Elements(result) = Append(s, Element(x)) /\ Good(result)
    BY <1>5, <1>8
  <2> HIDE DEF result
  <2>2. ~IsFault(result)
    BY <2>1, GoodKinds
  <2>3. Meaning(result) = Abstract!List(Append(l.of, r.of))
    BY <1>4, <1>6, <1>8, <2>1, <2>2, Kinds
  <2>4. Abstract!Gives(2, Abstract!List(Append(l.of, r.of)))
    BY <1>3, <2>2, <2>3 DEF Abstract!Gives
  <2> QED BY <1>2, <1>4, <1>6, <1>7, <1>8, <2>4 DEF Abstract!SPush, Abstract!Adds
<1>9. CASE Addable(x, y) /\ x.val_type = "UNIT"
  <2>1. Abstract!Stops(2, "panic")
    BY <1>3, <1>5, <1>9 DEF Fault, IsFault
  <2> QED BY <1>2, <1>4, <1>6, <1>9, <2>1 DEF Abstract!SPush, Abstract!Adds
<1>10. CASE ~Addable(x, y)
  <2>1. Abstract!Stops(2, "error")
    BY <1>3, <1>5, <1>10 DEF Error, Fault, IsFault
  <2> QED BY <1>2, <1>4, <1>10, <2>1 DEF Abstract!SPush, Abstract!Adds
<1> QED BY <1>8, <1>9, <1>10, <1>11

\* SLICE_CONS is one.
LEMMA ConsStep ==
  ASSUME IInv, SliceCons
  PROVE  Abstract!SCons
<1>1. PICK fresh \in [1..(IntSize - 1) -> Bytes] : Returns(2, slice_cons(Top(1), Top(2), fresh))
  BY DEF SliceCons
<1> DEFINE x == Top(1)
           y == Top(2)
           result == slice_cons(x, y, fresh)
           s == Elements(y)
           l == Abstract!Arg(1)
           r == Abstract!Arg(2)
           size == Len(s) + 1
           more == Append(s, Element(x))
<1>2. Len(stack) >= 2 /\ Returns(2, result) /\ status = "running" /\ (IsList(y) => y.len + 1 <= MaxLen)
  BY <1>1 DEF SliceCons, Returns, Short, Fits
<1>3. Good(x) /\ Good(y) /\ Abstract!Args(2) /\ l = Meaning(x) /\ r = Meaning(y)
  BY <1>2, TwoArgs
<1>4. /\ ~IsFault(result) => Abstract!Gives(2, Meaning(result))
      /\ IsFault(result) /\ result.type # "undefined" => Abstract!Stops(2, result.type)
      /\ result.type = "undefined" => Abstract!Breaks
  BY <1>2, AbstractReturns
<1>5. /\ Abstract!Addable(l, r) <=> Addable(x, y)
      /\ x.type = "BOX" => l.of.type = x.val_type /\ l.of = Element(x)
      /\ IsList(y) => r.of = s /\ Abstract!Size(r) = Len(s)
  BY <1>3, AddableMeans, Kinds DEF Abstract!Size
<1>6. /\ Addable(x, y) /\ x.val_type # "UNIT" /\ Heavy(more) => result = Undefined
      /\ Addable(x, y) /\ x.val_type # "UNIT" /\ ~Heavy(more) =>
           /\ IsList(result) /\ Good(result)
           /\ ~Smudges(x, y) => Elements(result) = <<Element(x)>> \o s
           /\ Smudges(x, y) => Elements(result) \in [1..size -> [type : {"INT"}, val : I32]]
      /\ Addable(x, y) /\ x.val_type = "UNIT" => result = Fault("panic")
      /\ ~Addable(x, y) => result = Error
  BY <1>2, <1>3, ConsMeans
<1>7. Addable(x, y) => /\ x.type = "BOX" /\ IsList(y)
                       /\ Abstract!Smudged(r.of) <=> Smudges(x, y)
  BY <1>5 DEF Addable, Smudges, Abstract!Smudged
<1>8. Addable(x, y) /\ x.val_type # "UNIT" => (Abstract!Large(Append(r.of, l.of)) <=> Heavy(more))
  <2>1. Addable(x, y) /\ x.val_type # "UNIT" => more[1].type \in ArrayTypes
    BY <1>3, MoreIsHeavy
  <2>2. Addable(x, y) => Append(r.of, l.of) = more
    BY <1>5, <1>7
  <2> HIDE DEF more
  <2> QED BY <2>1, <2>2, HeavyMeans
<1>12. CASE Addable(x, y) /\ x.val_type # "UNIT" /\ Heavy(more)
  <2>1. Abstract!Breaks
    BY <1>4, <1>6, <1>12, Faults
  <2> QED BY <1>3, <1>5, <1>7, <1>8, <1>12, <2>1 DEF Abstract!SCons, Abstract!Adds
<1>9. CASE Addable(x, y) /\ x.val_type # "UNIT" /\ ~Heavy(more)
  <2>1. /\ IsList(result) /\ Good(result)
        /\ ~Smudges(x, y) => Elements(result) = <<Element(x)>> \o s
        /\ Smudges(x, y) => Elements(result) \in [1..size -> [type : {"INT"}, val : I32]]
    BY <1>6, <1>9
  <2> HIDE DEF result
  <2>2. ~IsFault(result)
    BY <2>1, GoodKinds
  <2>3. Meaning(result) = Abstract!List(Elements(result)) /\ Abstract!IsA("list", Meaning(result))
        /\ Meaning(result).of = Elements(result)
    BY <2>1, <2>2, Kinds
  <2>4. CASE ~Smudges(x, y)
    <3>1. Meaning(result) = Abstract!List(<<l.of>> \o r.of)
      BY <1>5, <1>7, <1>9, <2>1, <2>3, <2>4
    <3>2. Abstract!Gives(2, Abstract!List(<<l.of>> \o r.of))
      BY <1>4, <2>2, <3>1 DEF Abstract!Gives
    <3> QED BY <1>3, <1>5, <1>7, <1>8, <1>9, <2>4, <3>2 DEF Abstract!SCons, Abstract!Adds
  <2>5. CASE Smudges(x, y)
    <3>1. Mapped(stack') = Append(Abstract!Rest(2), Meaning(result)) /\ Abstract!Gives(2, Meaning(result))
      BY <1>4, <2>2 DEF Abstract!Gives, Mapped
    <3>2. PICK S : stack \in Seq(S)
      BY DEF IInv, AllGood
    <3>3. /\ Mapped(stack) \in Seq({ Meaning(val) : val \in S }) /\ Len(Mapped(stack)) = Len(stack)
          /\ Len(stack) \in Nat
      BY <3>2, MappedSeq
    <3>4. Abstract!Rest(2) = SubSeq(Mapped(stack), 1, Len(stack) - 2)
      BY <3>3 DEF Abstract!Rest, Mapped
    <3> DEFINE M == Mapped(stack)
               T == { Meaning(val) : val \in S }
               n == Len(stack) - 2
    <3> HIDE DEF M, T
    <3>5. M \in Seq(T) /\ n \in Nat /\ \A i \in 1..n : M[i] \in T
      BY <1>2, <3>3, LenProperties DEF M, T
    <3>6. Abstract!Rest(2) \in Seq(T) /\ Len(Abstract!Rest(2)) = n
      <4>1. SubSeq(M, 1, n) \in Seq(T) /\ Len(SubSeq(M, 1, n)) = n
        <5> HIDE DEF n
        <5> QED BY <3>5, SubSeqProperties
      <4> QED BY <3>4, <4>1 DEF M
    <3>7. Mapped(stack')[n + 1] = Meaning(result)
      <4> DEFINE rest == Abstract!Rest(2)
                 m == Meaning(result)
                 U == T \union {m}
      <4>1. rest \in Seq(U) /\ m \in U
        BY <3>6
      <4>2. Len(rest) = n
        BY <3>6
      <4> HIDE DEF rest, m, U, n
      <4>3. Append(rest, m)[n + 1] = m
        BY <4>1, <4>2, AppendProperties
      <4> QED BY <3>1, <4>3 DEF rest, m
    <3>8. Len(Mapped(stack)) - 2 + 1 = n + 1
      BY <3>3
    <3>9. Elements(result) \in [1..(Abstract!Size(r) + 1) -> [type : {"INT"}, val : I32]]
      BY <1>5, <1>7, <1>9, <2>1, <2>5
    <3>10. Abstract!GivesNumbers(2, Abstract!Size(r) + 1)
      <4> DEFINE found == Mapped(stack')[Len(Mapped(stack)) - 2 + 1]
      <4>1. found = Meaning(result)
        BY <3>7, <3>8
      <4> HIDE DEF found
      <4>2. Abstract!Gives(2, found)
        BY <3>1, <4>1 DEF Abstract!Gives
      <4>3. Abstract!IsA("list", found) /\ found.of \in [1..(Abstract!Size(r) + 1) -> [type : {"INT"}, val : I32]]
        BY <2>3, <3>9, <4>1
      <4> QED BY <4>2, <4>3 DEF Abstract!GivesNumbers, found, Mapped
    <3> QED BY <1>3, <1>5, <1>7, <1>8, <1>9, <2>5, <3>10 DEF Abstract!SCons, Abstract!Adds
  <2> QED BY <2>4, <2>5
<1>10. CASE Addable(x, y) /\ x.val_type = "UNIT"
  <2>1. Abstract!Stops(2, "panic")
    BY <1>4, <1>6, <1>10 DEF Fault, IsFault
  <2> QED BY <1>3, <1>5, <1>7, <1>10, <2>1 DEF Abstract!SCons, Abstract!Adds
<1>11. CASE ~Addable(x, y)
  <2>1. Abstract!Stops(2, "error")
    BY <1>4, <1>6, <1>11 DEF Error, Fault, IsFault
  <2> QED BY <1>3, <1>5, <1>11, <2>1 DEF Abstract!SCons, Abstract!Adds
<1> QED BY <1>9, <1>10, <1>11, <1>12

\* SLICE_EQUAL is one.
LEMMA EqualStep ==
  ASSUME IInv, SliceEqual
  PROVE  Abstract!SEqual
<1> DEFINE x == Top(1)
           y == Top(2)
           result == equal(x, y)
           s == Elements(x)
           t == Elements(y)
           l == Abstract!Arg(1)
           r == Abstract!Arg(2)
           Both == Abstract!IsA("list", l) /\ Abstract!IsA("list", r)
           b == IF slice_equal(x, y) THEN 1 ELSE 0
<1>1. Len(stack) >= 2 /\ Returns(2, result) /\ status = "running"
  BY DEF SliceEqual, Returns
<1>2. Good(x) /\ Good(y) /\ Abstract!Args(2) /\ l = Meaning(x) /\ r = Meaning(y)
  BY <1>1, TwoArgs
<1>3. /\ ~IsFault(result) => Abstract!Gives(2, Meaning(result))
      /\ IsFault(result) /\ result.type # "undefined" => Abstract!Stops(2, result.type)
  BY <1>1, AbstractReturns
<1>4. /\ Both <=> IsList(x) /\ IsList(y)
      /\ IsList(x) => l = [kind |-> "list", of |-> s] /\ l.of = s
      /\ IsList(y) => r = [kind |-> "list", of |-> t] /\ r.of = t
  BY <1>2, Kinds DEF Abstract!List
<1>5. Both => (l = r <=> s = t)
  BY <1>4
<1>6. CASE Both
  <2>1. result = Box("BOOL", b) /\ b \in 0..1
    BY <1>2, <1>4, <1>6, EqualReads DEF equal
  <2>2. ~IsFault(result) /\ Meaning(result) = Abstract!Lone("BOOL", b)
    <3>1. result.type = "BOX" /\ result.val_type = "BOOL" /\ result.val = b
      BY <2>1 DEF Box
    <3> HIDE DEF result, b
    <3> QED BY <3>1 DEF IsFault, Meaning, Abstract!Lone
  <2>3. Abstract!Gives(2, Abstract!Lone("BOOL", b))
    BY <1>3, <2>2 DEF Abstract!Gives
  <2>4. s # << >> \/ t # << >> => b = IF l = r THEN 1 ELSE 0
    BY <1>2, <1>4, <1>5, <1>6, EqualMeans
  <2> HIDE DEF b
  <2>5. CASE l.of # << >>
    <3>1. Abstract!Gives(2, Abstract!Lone("BOOL", IF l = r THEN 1 ELSE 0))
      BY <1>4, <1>6, <2>3, <2>4, <2>5 DEF Abstract!Gives
    <3> QED BY <1>2, <1>6, <2>5, <3>1 DEF Abstract!SEqual
  <2>6. CASE l.of = << >> /\ r.of # << >>
    <3>1. b = 0
      BY <1>4, <1>5, <1>6, <2>4, <2>6
    <3>2. Abstract!Gives(2, Abstract!Lone("BOOL", 0))
      BY <2>3, <3>1 DEF Abstract!Gives
    <3> QED BY <1>2, <1>6, <2>6, <3>2 DEF Abstract!SEqual
  <2>7. CASE l.of = << >> /\ r.of = << >>
    BY <1>2, <1>6, <2>1, <2>3, <2>7 DEF Abstract!SEqual
  <2> QED BY <2>5, <2>6, <2>7
<1>7. CASE ~Both
  <2>1. result = Error
    BY <1>4, <1>7 DEF equal
  <2>2. Abstract!Stops(2, "error")
    BY <1>3, <2>1 DEF Error, Fault, IsFault
  <2> QED BY <1>2, <1>7, <2>2 DEF Abstract!SEqual
<1> QED BY <1>6, <1>7

-----------------------------------------------------------------------------
(* The functions of slice_functions.c are those of sequences: whatever     *)
(* calls are made, a slice is the part of the array it should be, where    *)
(* the bytes are cannot be told from the results, and a call is undefined  *)
(* exactly when the list it makes has more bytes than a u32 counts.        *)
THEOREM AsLists == Spec => ImplementsLists
<1>1. Init => Abstract!SInit
  <2> SUFFICES ASSUME Init
               PROVE  Abstract!SInit
    OBVIOUS
  <2>1. stack \in Seq({}) /\ stack = << >> /\ status = "running"
    BY EmptySeq DEF Init
  <2>2. Mapped(stack) \in Seq({ Meaning(val) : val \in {} }) /\ Len(Mapped(stack)) = 0
    BY <2>1, MappedSeq, EmptySeq
  <2>3. Mapped(stack) = << >>
    BY <2>2, EmptySeq
  <2> QED BY <2>1, <2>3 DEF Abstract!SInit, Mapped
<1>2. IInv /\ [Next]_vars => [Abstract!SNext]_(Abstract!svars)
  <2> SUFFICES ASSUME IInv, [Next]_vars
               PROVE  Abstract!SNext \/ UNCHANGED Abstract!svars
    BY DEF Abstract!svars
  <2>1. ASSUME NEW val \in Constants, PushConst(val)
        PROVE  Abstract!SNext
    BY <2>1, ConstStep DEF Abstract!SNext
  <2>2. CASE SliceEmpty
    BY <2>2, EmptyStep DEF Abstract!SNext
  <2>3. CASE SliceDrop
    BY <2>3, DropStep DEF Abstract!SNext
  <2>4. CASE SliceTake
    BY <2>4, TakeStep DEF Abstract!SNext
  <2>5. CASE ReadSliceIndex
    BY <2>5, IndexStep DEF Abstract!SNext
  <2>6. CASE SliceLen
    BY <2>6, LenStep DEF Abstract!SNext
  <2>7. CASE SliceJoin
    BY <2>7, JoinStep DEF Abstract!SNext
  <2>8. CASE SliceCons
    BY <2>8, ConsStep DEF Abstract!SNext
  <2>9. CASE SlicePush
    BY <2>9, PushStep DEF Abstract!SNext
  <2>10. CASE SliceEqual
    BY <2>10, EqualStep DEF Abstract!SNext
  <2>11. CASE UNCHANGED vars
    BY <2>11 DEF vars, Abstract!svars
  <2> QED BY <2>1, <2>2, <2>3, <2>4, <2>5, <2>6, <2>7, <2>8, <2>9, <2>10, <2>11 DEF Next
<1> QED BY <1>1, <1>2, InitGood, NextGood, PTL DEF Spec, ImplementsLists, Abstract!SSpec

-----------------------------------------------------------------------------
(***************************************************************************)
(* The functions of std that are written in the language itself.           *)
(***************************************************************************)
Boxed == { Box(e.type, e.val) : e \in Elt }

\* A length is a number of the language.
LEMMA Numbers ==
  ASSUME NEW i \in 0..MaxLen
  PROVE  Good(Int_(i)) /\ IsIndex(Int_(i)) /\ Int_(i).val = i
<1>1. i \in I32 /\ "INT" \in ValueTypes
  BY ShortIsPositive DEF ValueTypes
<1>2. Good(Box("INT", i))
  BY <1>1, NewBox
<1> QED BY <1>2 DEF Int_, IsIndex, Box

\* The elements of a list as the values that are read of it.
LEMMA BoxesOf ==
  ASSUME NEW val, Good(val), IsList(val)
  PROVE  /\ Boxes(val) \in Seq(Boxed) /\ Len(Boxes(val)) = val.len /\ DOMAIN Boxes(val) = 1..val.len
         /\ val.len \in 0..MaxLen /\ val.len \in Nat /\ slice_len(val).val = val.len
         /\ \A i \in 1..val.len : Boxes(val)[i] = Box(Elements(val)[i].type, Elements(val)[i].val)
<1> DEFINE n == val.len
           s == Boxes(val)
<1>1. /\ n \in 0..MaxLen /\ Elements(val) \in Seq(Elt) /\ Len(Elements(val)) = n
      /\ DOMAIN Elements(val) = 1..n
  BY ElementsSeq
<1>2. n \in Nat
  BY <1>1, BoundsTyped
<1>3. slice_len(val) = Box("INT", n)
  BY <1>1, LenMeans
<1>4. slice_len(val).val = n
  BY <1>3 DEF Box
<1>5. s = [i \in 1..n |-> Box(Elements(val)[i].type, Elements(val)[i].val)]
  BY <1>1 DEF Boxes
<1>6. \A i \in 1..n : Elements(val)[i] \in Elt
  BY <1>1, ElementOfSeq
<1> HIDE DEF n, s
<1>7. s \in [1..n -> Boxed]
  BY <1>5, <1>6 DEF Boxed
<1>8. s \in Seq(Boxed)
  BY <1>2, <1>7, SeqDef
<1>9. DOMAIN s = 1..n /\ Len(s) = n
  BY <1>2, <1>7, <1>8, LenProperties
<1> QED BY <1>1, <1>2, <1>4, <1>5, <1>8, <1>9 DEF n, s

\* What is read of a list.
LEMMA Read ==
  ASSUME NEW val, Good(val), IsList(val), NEW i \in 0..(val.len - 1)
  PROVE  /\ slice_index(Int_(i), val) = Boxes(val)[i + 1]
         /\ Good(Boxes(val)[i + 1]) /\ Boxes(val)[i + 1].type = "BOX"
         /\ Element(Boxes(val)[i + 1]) = Elements(val)[i + 1]
<1> DEFINE e == Elements(val)[i + 1]
           found == slice_index(Int_(i), val)
<1>1. /\ val.len \in Nat /\ val.len \in 0..MaxLen /\ Len(Elements(val)) = val.len
      /\ \A k \in 1..val.len : Boxes(val)[k] = Box(Elements(val)[k].type, Elements(val)[k].val)
  BY BoxesOf, ElementsSeq
<1>2. i \in 0..MaxLen /\ i + 1 \in 1..val.len
  BY <1>1, BoundsTyped
<1>3. Good(Int_(i)) /\ IsIndex(Int_(i)) /\ Int_(i).val = i
  BY <1>2, Numbers
<1>4. found.type = "BOX" /\ Meaning(found) = [kind |-> "box", of |-> Elements(val)[Int_(i).val + 1]]
  BY <1>1, <1>3, IndexMeans
<1>5. Elements(val)[Int_(i).val + 1] = e
  BY <1>3
<1>6. Good(found)
  BY <1>3, <1>4, IndexResult DEF IsResult, IsFault
<1>7. found = Box(found.val_type, found.val)
  BY <1>4, <1>6 DEF Good, IsValue, IsBox
<1>8. Boxes(val)[i + 1] = Box(e.type, e.val)
  BY <1>1, <1>2
<1> HIDE DEF e, found
<1>9. [type |-> found.val_type, val |-> found.val] = e
  BY <1>4, <1>5 DEF Meaning
<1>10. e.type = found.val_type /\ e.val = found.val
  BY <1>9
<1>11. found = Boxes(val)[i + 1]
  BY <1>7, <1>8, <1>10
<1> QED BY <1>4, <1>6, <1>9, <1>11 DEF e, found, Element

\* The values of a part of a list.
LEMMA BoxedPart ==
  ASSUME NEW val, Good(val), IsList(val), NEW part, Good(part), IsList(part),
         NEW a \in Nat \ {0}, NEW b \in Nat, a <= b + 1, b <= val.len,
         Elements(part) = SubSeq(Elements(val), a, b)
  PROVE  part.len = b + 1 - a /\ Boxes(part) = SubSeq(Boxes(val), a, b)
<1> DEFINE s == Elements(val)
           t == Elements(part)
           m == b + 1 - a
           ss == Boxes(val)
           tt == Boxes(part)
<1>1. /\ s \in Seq(Elt) /\ Len(s) = val.len /\ val.len \in Nat
      /\ ss \in Seq(Boxed) /\ Len(ss) = val.len
      /\ \A i \in 1..val.len : ss[i] = Box(s[i].type, s[i].val)
  BY BoxesOf, ElementsSeq
<1>2. /\ Len(t) = part.len /\ part.len \in Nat /\ tt \in Seq(Boxed) /\ Len(tt) = part.len
      /\ \A i \in 1..part.len : tt[i] = Box(t[i].type, t[i].val)
  BY BoxesOf, ElementsSeq
<1>3. t = SubSeq(s, a, b)
  OBVIOUS
<1> HIDE DEF s, t, ss, tt
<1>4. \A i \in a..b : s[i] \in Elt /\ ss[i] \in Boxed /\ i \in 1..val.len
  BY <1>1, ElementOfSeq
<1>5. /\ Len(t) = m /\ m \in Nat
      /\ \A i \in 1..m : t[i] = s[a + i - 1]
  BY <1>3, <1>4, SubSeqProperties
<1>6. /\ SubSeq(ss, a, b) \in Seq(Boxed) /\ Len(SubSeq(ss, a, b)) = m
      /\ \A i \in 1..m : SubSeq(ss, a, b)[i] = ss[a + i - 1]
  BY <1>4, <1>5, SubSeqProperties
<1>7. \A i \in 1..m : a + i - 1 \in 1..val.len
  BY <1>1
<1>8. \A i \in 1..m : tt[i] = SubSeq(ss, a, b)[i]
  BY <1>1, <1>2, <1>5, <1>6, <1>7
<1>9. tt = SubSeq(ss, a, b)
  BY <1>2, <1>5, <1>6, <1>8, SameSeq
<1> QED BY <1>2, <1>5, <1>9 DEF ss, tt

-----------------------------------------------------------------------------
(* Counting while a predicate holds.                                       *)
Holding(s, p) == { i \in 0..(Len(s) - 1) : s[i + 1] \in p }

LEMMA PrefixIs ==
  ASSUME NEW S, NEW s \in Seq(S), NEW p, NEW j, EndsAt(0, j, Len(s), Holding(s, p))
  PROVE  PrefixLength(s, p) = j
<1> DEFINE n == Len(s)
           Q == Holding(s, p)
           Is(k) == Whole(SubSeq(s, 1, k), p) /\ (k < Len(s) => s[k + 1] \notin p)
<1>1. n \in Nat /\ \A i \in 1..n : s[i] \in S
  BY LenProperties, ElementOfSeq
<1>2. ASSUME NEW k \in 0..n
      PROVE  Is(k) <=> EndsAt(0, k, n, Q)
  <2>1. SubSeq(s, 1, k) \in Seq(S) /\ Len(SubSeq(s, 1, k)) = k /\ \A i \in 1..k : SubSeq(s, 1, k)[i] = s[i]
    <3>1. \A i \in 1..k : s[i] \in S
      BY <1>1
    <3>2. /\ SubSeq(s, 1, k) \in Seq(S) /\ Len(SubSeq(s, 1, k)) = IF 1 <= k THEN k - 1 + 1 ELSE 0
          /\ \A i \in 1..(k - 1 + 1) : SubSeq(s, 1, k)[i] = s[1 + i - 1]
      BY <3>1, SubSeqProperties
    <3> QED BY <1>1, <3>2
  <2>2. Whole(SubSeq(s, 1, k), p) <=> \A i \in 1..k : s[i] \in p
    <3>1. DOMAIN SubSeq(s, 1, k) = 1..k
      BY <2>1, LenProperties
    <3> QED BY <2>1, <3>1 DEF Whole
  <2>3. (\A i \in 1..k : s[i] \in p) <=> \A i \in 0..(k - 1) : i \in Q
    <3>1. ASSUME \A i \in 1..k : s[i] \in p, NEW i \in 0..(k - 1)
          PROVE  i \in Q
      <4>1. i \in 0..(n - 1) /\ i + 1 \in 1..k
        BY <1>1
      <4> QED BY <3>1, <4>1 DEF Holding
    <3>2. ASSUME \A i \in 0..(k - 1) : i \in Q, NEW i \in 1..k
          PROVE  s[i] \in p
      <4>1. i - 1 \in 0..(k - 1) /\ i - 1 + 1 = i
        BY <1>1
      <4>2. i - 1 \in Q
        BY <3>2, <4>1
      <4> QED BY <4>1, <4>2 DEF Holding
    <3> QED BY <3>1, <3>2
  <2>4. (k < Len(s) => s[k + 1] \notin p) <=> k \notin Q
    BY <1>1 DEF Holding
  <2>5. k \in 0..n
    OBVIOUS
  <2> QED BY <2>2, <2>3, <2>4, <2>5 DEF EndsAt
<1>3. j \in 0..n
  BY DEF EndsAt
<1>4. ASSUME NEW k \in 0..n, EndsAt(0, k, n, Q)
      PROVE  k = j
  <2>1. /\ k \notin Q /\ \A i \in 0..(k - 1) : i \in Q
        /\ j \notin Q /\ \A i \in 0..(j - 1) : i \in Q
    BY <1>4 DEF EndsAt
  <2> HIDE DEF Q
  <2> QED BY <1>1, <1>3, <2>1
<1>5. Is(j) /\ \A k \in 0..n : Is(k) => k = j
  BY <1>2, <1>3, <1>4
<1>6. PrefixLength(s, p) = CHOOSE k \in 0..n : Is(k)
  BY DEF PrefixLength
<1> HIDE DEF Is
<1> QED BY <1>3, <1>5, <1>6

\* The count of the elements in front is their length.
LEMMA CountsWhile ==
  ASSUME NEW val, Good(val), IsList(val), NEW p
  PROVE  /\ PrefixLength(Boxes(val), p) \in 0..val.len
         /\ counts_while(p, val)[0] = PrefixLength(Boxes(val), p)
<1> DEFINE s == Boxes(val)
           n == Len(s)
           Q == Holding(s, p)
           g == [i \in 0..n |-> i]
           Is(f) == f = [i \in 0..slice_len(val).val |->
                           IF in_bound(i, val) /\ slice_index(Int_(i), val) \in p THEN f[i + 1] ELSE i]
<1>1. s \in Seq(Boxed) /\ n = val.len /\ n \in Nat /\ slice_len(val).val = n
  BY BoxesOf
<1>2. ASSUME NEW i \in 0..n
      PROVE  (in_bound(i, val) /\ slice_index(Int_(i), val) \in p) <=> i \in Q
  <2>1. in_bound(i, val) <=> i \in 0..(n - 1)
    BY <1>1 DEF in_bound
  <2>2. i \in 0..(n - 1) => slice_index(Int_(i), val) = s[i + 1]
    BY <1>1, Read
  <2> QED BY <2>1, <2>2 DEF Holding
<1>3. \A f : Is(f) <=> Counts(f, n, Q, g)
  <2> SUFFICES ASSUME NEW f
               PROVE  Is(f) <=> Counts(f, n, Q, g)
    OBVIOUS
  <2>1. [i \in 0..slice_len(val).val |->
           IF in_bound(i, val) /\ slice_index(Int_(i), val) \in p THEN f[i + 1] ELSE i]
         = [i \in 0..n |-> IF i \in Q THEN f[i + 1] ELSE g[i]]
    BY <1>1, <1>2
  <2> QED BY <2>1 DEF Counts
<1>4. Q \subseteq 0..(n - 1)
  BY DEF Holding
<1>5. \E f : Is(f)
  <2> HIDE DEF Is, n, Q, g
  <2>1. \E f : Counts(f, n, Q, g)
    BY <1>1, <1>4, CountExists
  <2> QED BY <1>3, <2>1
<1>6. Is(counts_while(p, val))
  BY <1>5, Zenon DEF counts_while
<1>7. PICK j \in 0..n : EndsAt(0, j, n, Q)
  <2>1. 0 \in 0..n
    BY <1>1
  <2> HIDE DEF n, Q
  <2> QED BY <1>1, <1>4, <2>1, CountEnds
<1>8. PrefixLength(s, p) = j
  <2> HIDE DEF s
  <2> QED BY <1>1, <1>7, PrefixIs
<1>9. counts_while(p, val)[0] = g[j]
  <2> DEFINE f == counts_while(p, val)
  <2>1. Counts(f, n, Q, g)
    BY <1>3, <1>6
  <2> HIDE DEF f, g, n, Q
  <2>2. f[0] = g[j]
    BY <1>1, <1>7, <2>1, CountMeans
  <2> QED BY <2>2 DEF f
<1> QED BY <1>1, <1>7, <1>8, <1>9

\* The same from the end.
LEMMA CountsBack ==
  ASSUME NEW val, Good(val), IsList(val), NEW p
  PROVE  /\ val.len - SuffixLength(Boxes(val), p) \in 0..val.len
         /\ counts_back(p, val)[0] = val.len - SuffixLength(Boxes(val), p)
<1> DEFINE s == Boxes(val)
           t == Reverse(s)
           n == Len(s)
           Q == Holding(t, p)
           g == [i \in 0..n |-> n - i]
           Is(f) == f = [i \in 0..slice_len(val).val |->
                           IF in_bound(i, val) /\ slice_index(Int_(slice_len(val).val - 1 - i), val) \in p
                           THEN f[i + 1] ELSE slice_len(val).val - i]
<1>1. s \in Seq(Boxed) /\ n = val.len /\ n \in Nat /\ slice_len(val).val = n
  BY BoxesOf
<1>2. t \in Seq(Boxed) /\ Len(t) = n /\ \A i \in 1..n : t[i] = s[n - i + 1]
  <2>1. t = [i \in 1..n |-> s[n - i + 1]]
    BY DEF Reverse
  <2>2. \A i \in 1..n : s[i] \in Boxed
    BY <1>1, ElementOfSeq
  <2> HIDE DEF s, t, n
  <2>3. \A i \in 1..n : n - i + 1 \in 1..n
    BY <1>1
  <2>4. t \in [1..n -> Boxed]
    BY <2>1, <2>2, <2>3
  <2>5. t \in Seq(Boxed)
    BY <1>1, <2>4, SeqDef
  <2> QED BY <1>1, <2>1, <2>4, <2>5, LenProperties
<1>3. ASSUME NEW i \in 0..n
      PROVE  (in_bound(i, val) /\ slice_index(Int_(n - 1 - i), val) \in p) <=> i \in Q
  <2>1. in_bound(i, val) <=> i \in 0..(n - 1)
    BY <1>1 DEF in_bound
  <2>2. i \in 0..(n - 1) => slice_index(Int_(n - 1 - i), val) = t[i + 1]
    <3> SUFFICES ASSUME i \in 0..(n - 1)
                 PROVE  slice_index(Int_(n - 1 - i), val) = t[i + 1]
      OBVIOUS
    <3> DEFINE j == n - 1 - i
    <3>1. j \in 0..(val.len - 1) /\ i + 1 \in 1..n /\ n - (i + 1) + 1 = j + 1
      BY <1>1
    <3> HIDE DEF j
    <3>2. slice_index(Int_(j), val) = s[j + 1]
      BY <3>1, Read
    <3>3. t[i + 1] = s[j + 1]
      BY <1>2, <3>1
    <3> QED BY <3>2, <3>3 DEF j
  <2>3. i \in Q <=> i \in 0..(n - 1) /\ t[i + 1] \in p
    BY <1>2 DEF Holding
  <2> QED BY <2>1, <2>2, <2>3
<1>4. \A f : Is(f) <=> Counts(f, n, Q, g)
  <2> SUFFICES ASSUME NEW f
               PROVE  Is(f) <=> Counts(f, n, Q, g)
    OBVIOUS
  <2> HIDE DEF Q
  <2>1. [i \in 0..slice_len(val).val |->
           IF in_bound(i, val) /\ slice_index(Int_(slice_len(val).val - 1 - i), val) \in p
           THEN f[i + 1] ELSE slice_len(val).val - i]
         = [i \in 0..n |-> IF i \in Q THEN f[i + 1] ELSE g[i]]
    BY <1>1, <1>3
  <2> QED BY <2>1 DEF Counts
<1>5. Q \subseteq 0..(n - 1)
  BY <1>2 DEF Holding
<1>6. \E f : Is(f)
  <2> HIDE DEF Is, n, Q, g
  <2>1. \E f : Counts(f, n, Q, g)
    BY <1>1, <1>5, CountExists
  <2> QED BY <1>4, <2>1
<1>7. Is(counts_back(p, val))
  BY <1>6, Zenon DEF counts_back
<1>8. PICK j \in 0..n : EndsAt(0, j, n, Q)
  <2>1. 0 \in 0..n
    BY <1>1
  <2> HIDE DEF n, Q
  <2> QED BY <1>1, <1>5, <2>1, CountEnds
<1>9. SuffixLength(s, p) = j
  <2>1. PrefixLength(t, p) = j
    <3> HIDE DEF t, n
    <3> QED BY <1>2, <1>8, PrefixIs
  <2> QED BY <2>1 DEF SuffixLength
<1>10. counts_back(p, val)[0] = n - j
  <2> DEFINE f == counts_back(p, val)
  <2>1. Counts(f, n, Q, g)
    BY <1>4, <1>7
  <2> HIDE DEF f, g, n, Q
  <2>2. f[0] = g[j]
    BY <1>1, <1>8, <2>1, CountMeans
  <2> QED BY <1>8, <2>2 DEF f, g
<1> HIDE DEF n, s
<1> QED BY <1>1, <1>8, <1>9, <1>10 DEF s

-----------------------------------------------------------------------------
(* What is dropped and taken of a list, as values.                         *)
LEMMA Entire ==
  ASSUME NEW S, NEW s \in Seq(S)
  PROVE  SubSeq(s, 1, Len(s)) = s
<1> DEFINE n == Len(s)
<1>1. n \in Nat /\ \A i \in 1..n : s[i] \in S
  BY LenProperties, ElementOfSeq
<1> HIDE DEF n
<1>2. /\ SubSeq(s, 1, n) \in Seq(S) /\ Len(SubSeq(s, 1, n)) = n
      /\ \A i \in 1..n : SubSeq(s, 1, n)[i] = s[1 + i - 1]
  BY <1>1, SubSeqProperties
<1>3. \A i \in 1..n : SubSeq(s, 1, n)[i] = s[i]
  BY <1>2
<1> QED BY <1>1, <1>2, <1>3, SameSeq DEF n

LEMMA Drops ==
  ASSUME NEW val, Good(val), IsList(val), NEW k \in 0..val.len
  PROVE  LET part == slice_drop(Int_(k), val)
         IN /\ Good(part) /\ IsList(part) /\ part.len = val.len - k
            /\ Boxes(part) = SubSeq(Boxes(val), k + 1, val.len)
            /\ Elements(part) = SubSeq(Elements(val), k + 1, val.len)
<1> DEFINE part == slice_drop(Int_(k), val)
           n == val.len
<1>1. /\ n \in Nat /\ n \in 0..MaxLen /\ Boxes(val) \in Seq(Boxed) /\ Len(Boxes(val)) = n
      /\ Elements(val) \in Seq(Elt) /\ Len(Elements(val)) = n
  BY BoxesOf, ElementsSeq
<1>2. k \in 0..MaxLen
  BY <1>1, BoundsTyped
<1>3. Good(Int_(k)) /\ IsIndex(Int_(k)) /\ Int_(k).val = k
  BY <1>2, Numbers
<1>4. CASE k = 0
  <2>1. part = val
    BY <1>3, <1>4 DEF slice_drop
  <2>2. SubSeq(Boxes(val), 1, n) = Boxes(val) /\ SubSeq(Elements(val), 1, n) = Elements(val)
    <3>1. SubSeq(Boxes(val), 1, Len(Boxes(val))) = Boxes(val)
      BY <1>1, Entire
    <3>2. SubSeq(Elements(val), 1, Len(Elements(val))) = Elements(val)
      BY <1>1, Entire
    <3> QED BY <1>1, <3>1, <3>2
  <2>3. k + 1 = 1 /\ n - k = n
    BY <1>1, <1>4
  <2> QED BY <2>1, <2>2, <2>3
<1>5. CASE k # 0
  <2>1. IsList(part) /\ Good(part) /\ Elements(part) = SubSeq(Elements(val), k + 1, n)
    <3>1. ~(k < 0)
      OBVIOUS
    <3> QED BY <1>1, <1>3, <1>5, <3>1, DropMeans
  <2>2. k + 1 \in Nat \ {0} /\ k + 1 <= n + 1 /\ n + 1 - (k + 1) = n - k
    BY <1>1
  <2> DEFINE a == k + 1
  <2>4. a \in Nat \ {0} /\ n \in Nat /\ a <= n + 1 /\ n <= val.len /\ Elements(part) = SubSeq(Elements(val), a, n)
    BY <1>1, <2>1, <2>2
  <2> HIDE DEF part, a, n
  <2>5. part.len = n + 1 - a /\ Boxes(part) = SubSeq(Boxes(val), a, n)
    BY <2>1, <2>4, BoxedPart
  <2>3. part.len = n + 1 - (k + 1) /\ Boxes(part) = SubSeq(Boxes(val), k + 1, n)
    BY <2>5 DEF a
  <2> QED BY <2>1, <2>2, <2>3 DEF part, n
<1> QED BY <1>4, <1>5

LEMMA Takes ==
  ASSUME NEW val, Good(val), IsList(val), NEW k \in 0..val.len
  PROVE  Boxes(slice_take(Int_(k), val)) = IF k = 0 THEN Boxes(val) ELSE SubSeq(Boxes(val), 1, k)
<1> DEFINE part == slice_take(Int_(k), val)
           n == val.len
<1>1. n \in Nat /\ n \in 0..MaxLen /\ Len(Elements(val)) = n
  BY BoxesOf, ElementsSeq
<1>2. k \in 0..MaxLen
  BY <1>1, BoundsTyped
<1>3. Good(Int_(k)) /\ IsIndex(Int_(k)) /\ Int_(k).val = k
  BY <1>2, Numbers
<1>4. CASE k = 0
  BY <1>3, <1>4 DEF slice_take
<1>5. CASE k # 0
  <2>1. k > 0 /\ k = IF k < n THEN k ELSE n
    BY <1>1, <1>5
  <2>2. /\ IsList(part) /\ Good(part)
        /\ Elements(part) = SubSeq(Elements(val), 1, IF k < n THEN k ELSE n)
    BY <1>1, <1>3, <1>5, <2>1, TakeMeans
  <2>3. Elements(part) = SubSeq(Elements(val), 1, k)
    BY <2>1, <2>2
  <2> DEFINE a == 1
  <2>5. a \in Nat \ {0} /\ k \in Nat /\ a <= k + 1 /\ k <= val.len /\ Elements(part) = SubSeq(Elements(val), a, k)
    BY <1>1, <2>3
  <2> HIDE DEF part, a, n
  <2>4. part.len = k + 1 - a /\ Boxes(part) = SubSeq(Boxes(val), a, k)
    BY <2>2, <2>5, BoxedPart
  <2> QED BY <1>5, <2>4 DEF part, a
<1> QED BY <1>4, <1>5

-----------------------------------------------------------------------------
(* The end of a list, from an element on.                                  *)
From(s, k) == SubSeq(s, k, Len(s))

LEMMA FromMeans ==
  ASSUME NEW S, NEW s \in Seq(S), NEW k \in 1..(Len(s) + 1)
  PROVE  /\ From(s, k) \in Seq(S) /\ Len(From(s, k)) = Len(s) + 1 - k
         /\ \A i \in 1..(Len(s) + 1 - k) : From(s, k)[i] = s[k + i - 1]
<1> DEFINE n == Len(s)
<1>1. n \in Nat /\ \A i \in 1..n : s[i] \in S
  BY LenProperties, ElementOfSeq
<1> HIDE DEF n
<1>2. \A i \in k..n : s[i] \in S
  BY <1>1
<1>3. k \in Int /\ n \in Int
  BY <1>1
<1>4. /\ SubSeq(s, k, n) \in Seq(S) /\ Len(SubSeq(s, k, n)) = IF k <= n THEN n - k + 1 ELSE 0
      /\ \A i \in 1..(n - k + 1) : SubSeq(s, k, n)[i] = s[k + i - 1]
  BY ONLY <1>2, <1>3, SubSeqProperties
<1>5. n - k + 1 = n + 1 - k /\ k \in 1..(n + 1)
  BY <1>1 DEF n
<1>6. (IF k <= n THEN n - k + 1 ELSE 0) = n + 1 - k
  BY <1>1, <1>5
<1> QED BY <1>4, <1>5, <1>6 DEF From, n

\* It is its first element and what is left of it.
LEMMA FromNext ==
  ASSUME NEW S, NEW s \in Seq(S), NEW k \in 1..Len(s)
  PROVE  /\ From(From(s, k), 2) = From(s, k + 1)
         /\ <<s[k]>> \o From(s, k + 1) = From(s, k)
         /\ From(s, k)[1] = s[k]
<1> DEFINE n == Len(s)
           t == From(s, k)
           u == From(s, k + 1)
           m == n - k
<1>1. n \in Nat /\ k \in 1..(n + 1) /\ k + 1 \in 1..(n + 1) /\ m \in Nat /\ s[k] \in S
  BY LenProperties, ElementOfSeq
<1>2. /\ t \in Seq(S) /\ Len(t) = m + 1
      /\ \A i \in 1..(m + 1) : t[i] = s[k + i - 1]
  <2>1. n + 1 - k = m + 1
    BY <1>1
  <2> QED BY <1>1, <2>1, FromMeans
<1>3. /\ u \in Seq(S) /\ Len(u) = m
      /\ \A i \in 1..m : u[i] = s[k + 1 + i - 1]
  <2>1. n + 1 - (k + 1) = m
    BY <1>1
  <2> QED BY <1>1, <2>1, FromMeans
<1> HIDE DEF n, m, t, u
<1>4. From(t, 2) = u
  <2>1. /\ From(t, 2) \in Seq(S) /\ Len(From(t, 2)) = m
        /\ \A i \in 1..m : From(t, 2)[i] = t[2 + i - 1]
    <3>1. 2 \in 1..(Len(t) + 1) /\ Len(t) + 1 - 2 = m
      BY <1>1, <1>2
    <3>3. t \in Seq(S) /\ 2 \in 1..(Len(t) + 1)
      BY <1>2, <3>1
    <3>2. /\ From(t, 2) \in Seq(S) /\ Len(From(t, 2)) = Len(t) + 1 - 2
          /\ \A i \in 1..(Len(t) + 1 - 2) : From(t, 2)[i] = t[2 + i - 1]
      BY ONLY <3>3, FromMeans
    <3> QED BY <3>1, <3>2
  <2>2. \A i \in 1..m : From(t, 2)[i] = u[i]
    <3> SUFFICES ASSUME NEW i \in 1..m
                 PROVE  From(t, 2)[i] = u[i]
      OBVIOUS
    <3>1. 2 + i - 1 \in 1..(m + 1) /\ k + (2 + i - 1) - 1 = k + 1 + i - 1
      BY <1>1
    <3> QED BY <1>2, <1>3, <2>1, <3>1
  <2> QED BY <1>1, <1>3, <2>1, <2>2, SameSeq
<1>5. <<s[k]>> \o u = t
  <2> DEFINE one == <<s[k]>>
             st == one \o u
  <2>1. one \in Seq(S) /\ Len(one) = 1 /\ one[1] = s[k]
    BY <1>1
  <2>6. st = one \o u
    OBVIOUS
  <2> HIDE DEF one, st
  <2>2. /\ st \in Seq(S) /\ Len(st) = 1 + m
        /\ \A i \in 1..1 : st[i] = one[i]
        /\ \A i \in 1..m : st[1 + i] = u[i]
    <3>1. u \in Seq(S) /\ one \in Seq(S) /\ IsJoin(st, one, u)
      BY <1>3, <2>1, <2>6 DEF IsJoin
    <3>2. /\ \A i \in 1..Len(one) : st[i] = one[i]
          /\ \A i \in 1..Len(u) : st[Len(one) + i] = u[i]
      BY ONLY <3>1, Joins
    <3>3. st \in Seq(S) /\ Len(st) = Len(one) + Len(u)
      BY <3>1, <2>6, ConcatProperties
    <3> QED BY <1>3, <2>1, <3>2, <3>3
  <2>3. \A i \in 1..(m + 1) : st[i] = t[i]
    <3> SUFFICES ASSUME NEW i \in 1..(m + 1)
                 PROVE  st[i] = t[i]
      OBVIOUS
    <3>1. CASE i = 1
      <4>1. k + i - 1 = k /\ i \in 1..1
        BY <1>1, <3>1
      <4> QED BY <1>2, <2>1, <2>2, <3>1, <4>1
    <3>2. CASE i # 1
      <4> DEFINE j == i - 1
      <4>1. j \in 1..m /\ 1 + j = i /\ k + 1 + j - 1 = k + i - 1
        BY <1>1, <3>2
      <4> HIDE DEF j
      <4>2. st[i] = u[j] /\ u[j] = s[k + i - 1]
        BY <1>3, <2>2, <4>1
      <4> QED BY <1>2, <4>2
    <3> QED BY <3>1, <3>2
  <2>4. 1 + m = m + 1 /\ m + 1 \in Nat
    BY <1>1
  <2>5. st = t
    BY <1>2, <2>2, <2>3, <2>4, SameSeq
  <2> QED BY <2>5 DEF st, one
<1>6. t[1] = s[k]
  <2>1. 1 \in 1..(m + 1) /\ k + 1 - 1 = k
    BY <1>1
  <2> QED BY <1>2, <2>1
<1> QED BY <1>4, <1>5, <1>6 DEF t, u

\* After its last element nothing is left.
LEMMA FromEnds ==
  ASSUME NEW S, NEW s \in Seq(S)
  PROVE  From(s, Len(s) + 1) = << >> /\ From(s, 1) = s
<1>1. Len(s) \in Nat
  BY LenProperties
<1>2. From(s, Len(s) + 1) = << >>
  BY <1>1, SubSeqEmpty DEF From
<1> QED BY <1>2, Entire DEF From

-----------------------------------------------------------------------------
(* What unpack comes by is the list from each of its elements on.          *)
LEMMA Dropped ==
  ASSUME NEW val, Good(val), IsList(val)
  PROVE  \A k \in 0..val.len : LET rest == rests(val)[k]
                               IN /\ Good(rest) /\ IsList(rest) /\ rest.len = val.len - k
                                  /\ Boxes(rest) = From(Boxes(val), k + 1)
<1> DEFINE n == val.len
           s == Boxes(val)
           rest == rests(val)
           Up(f, m) == f = [k \in 0..m |-> IF k = 0 THEN val ELSE slice_drop(Int_(1), f[k - 1])]
           T == { m \in 0..n : \E f : Up(f, m) }
           Is(f) == f = [k \in 0..slice_len(val).val |-> IF k = 0 THEN val ELSE slice_drop(Int_(1), f[k - 1])]
           Fine(w, k) == Good(w) /\ IsList(w) /\ w.len = n - k /\ Boxes(w) = From(s, k + 1)
           U == { k \in 0..n : Fine(rest[k], k) }
<1>1. n \in Nat /\ s \in Seq(Boxed) /\ Len(s) = n /\ slice_len(val).val = n
  BY BoxesOf
<1>2. 0 \in T
  <2> DEFINE f == [k \in 0..0 |-> val]
  <2>1. f = [k \in 0..0 |-> IF k = 0 THEN val ELSE slice_drop(Int_(1), f[k - 1])]
    OBVIOUS
  <2>2. Up(f, 0)
    BY <2>1
  <2>3. 0 \in 0..n
    BY <1>1
  <2> QED BY <2>2, <2>3
<1>3. ASSUME NEW m \in 1..n, m - 1 \in T
      PROVE  m \in T
  <2>1. PICK f : Up(f, m - 1)
    BY <1>3
  <2> DEFINE g == [k \in 0..m |-> IF k = m THEN slice_drop(Int_(1), f[m - 1]) ELSE f[k]]
  <2>2. \A k \in 0..(m - 1) : f[k] = IF k = 0 THEN val ELSE slice_drop(Int_(1), f[k - 1])
    BY <2>1
  <2>3. ASSUME NEW k \in 0..m
        PROVE  g[k] = IF k = 0 THEN val ELSE slice_drop(Int_(1), g[k - 1])
    <3>1. CASE k = m
      <4>1. k # 0 /\ m - 1 \in 0..m /\ m - 1 # m
        BY <3>1
      <4> QED BY <3>1, <4>1
    <3>2. CASE k # m
      <4>1. k \in 0..(m - 1) /\ (k # 0 => k - 1 \in 0..m /\ k - 1 # m)
        BY <3>2
      <4> QED BY <2>2, <3>2, <4>1
    <3> QED BY <3>1, <3>2
  <2>4. g = [k \in 0..m |-> g[k]]
    OBVIOUS
  <2> HIDE DEF g
  <2>5. Up(g, m)
    BY <2>3, <2>4
  <2>6. m \in 0..n
    BY <1>1
  <2> QED BY <2>5, <2>6
<1>4. n \in T
  <2>1. n \in 0..n
    BY <1>1
  <2> HIDE DEF T, n
  <2> QED BY <1>1, <1>2, <1>3, <2>1, UpTo
<1>5. \E f : Is(f)
  BY <1>1, <1>4
<1>6. Is(rest)
  BY <1>5, Zenon DEF rests
<1> HIDE DEF rest
<1>7. rest[0] = val /\ \A k \in 1..n : rest[k] = slice_drop(Int_(1), rest[k - 1])
  <2>1. 0 \in 0..slice_len(val).val /\ \A k \in 1..n : k \in 0..slice_len(val).val /\ k # 0
    BY <1>1
  <2> QED BY <1>6, <2>1
<1>8. 0 \in U
  <2>1. 0 \in 0..n /\ n - 0 = n /\ 0 + 1 = 1
    BY <1>1
  <2>2. From(s, 1) = s
    BY <1>1, FromEnds
  <2> QED BY <1>7, <2>1, <2>2
<1>9. ASSUME NEW k \in 1..n, k - 1 \in U
      PROVE  k \in U
  <2> DEFINE v == rest[k - 1]
             w == rest[k]
  <2>1. Good(v) /\ IsList(v) /\ v.len = n - (k - 1) /\ Boxes(v) = From(s, k - 1 + 1)
    BY <1>9
  <2>2. w = slice_drop(Int_(1), v)
    BY <1>7
  <2>3. k - 1 + 1 = k /\ n - (k - 1) \in Nat /\ 1 \in 0..(n - (k - 1)) /\ n - (k - 1) - 1 = n - k
        /\ k \in 0..n /\ k \in 1..Len(s)
    BY <1>1
  <2> HIDE DEF v, w, s
  <2>4. Good(w) /\ IsList(w) /\ w.len = v.len - 1 /\ Boxes(w) = SubSeq(Boxes(v), 1 + 1, v.len)
    BY <2>1, <2>2, <2>3, Drops
  <2>5. w.len = n - k
    BY <2>1, <2>3, <2>4
  <2>6. Len(Boxes(v)) = v.len
    BY <2>1, BoxesOf
  <2>7. Boxes(w) = From(From(s, k), 2)
    BY <2>1, <2>3, <2>4, <2>6 DEF From
  <2>8. Boxes(w) = From(s, k + 1)
    BY <1>1, <2>3, <2>7, FromNext
  <2> QED BY <2>3, <2>4, <2>5, <2>8 DEF w
<1>10. 0..n \subseteq U
  <2> HIDE DEF U, n
  <2> QED BY <1>1, <1>8, <1>9, UpTo
<1> QED BY <1>10 DEF rest

\* unpack gives the elements of a list.
LEMMA Unpacked ==
  ASSUME NEW val, Good(val), IsList(val)
  PROVE  unpack(val) = Boxes(val)
<1> DEFINE n == val.len
           s == Boxes(val)
           list == unpacked(val)
           g == [k \in 0..n |-> From(s, k + 1)]
           Made(f, k) == IF slice_len(rests(val)[k]).val = 0 THEN Nil
                         ELSE <<slice_index(Int_(0), rests(val)[k])>> \o f[k + 1]
           Is(f) == f = [k \in 0..slice_len(val).val |->
                           IF slice_len(rests(val)[k]).val = 0 THEN Nil
                           ELSE <<slice_index(Int_(0), rests(val)[k])>> \o f[k + 1]]
           T == { m \in 0..n : list[n - m] = From(s, n - m + 1) }
<1>1. n \in Nat /\ s \in Seq(Boxed) /\ Len(s) = n /\ slice_len(val).val = n
  BY BoxesOf
<1>2. ASSUME NEW k \in 0..n, NEW f, k < n => f[k + 1] = From(s, k + 1 + 1)
      PROVE  Made(f, k) = From(s, k + 1)
  <2> DEFINE rest == rests(val)[k]
             first == slice_index(Int_(0), rest)
  <2>1. Good(rest) /\ IsList(rest) /\ rest.len = n - k /\ Boxes(rest) = From(s, k + 1)
    BY Dropped
  <2>2. Made(f, k) = IF slice_len(rest).val = 0 THEN Nil ELSE <<first>> \o f[k + 1]
    OBVIOUS
  <2> HIDE DEF rest, Made, n, s
  <2>3. slice_len(rest).val = n - k
    BY <2>1, BoxesOf
  <2>4. CASE k = n
    <3>1. n - k = 0
      BY <1>1, <2>4
    <3>2. From(s, Len(s) + 1) = << >>
      BY <1>1, FromEnds
    <3> QED BY <1>1, <2>2, <2>3, <2>4, <3>1, <3>2 DEF Nil
  <2>5. CASE k # n
    <3>1. k < n /\ n - k # 0 /\ 0 \in 0..(n - k - 1) /\ k + 1 \in 1..Len(s)
      BY <1>1, <2>5
    <3>2. 0 \in 0..(rest.len - 1)
      BY <2>1, <3>1
    <3>3. first = Boxes(rest)[0 + 1]
      BY <2>1, <3>2, Read
    <3>4. /\ <<s[k + 1]>> \o From(s, k + 1 + 1) = From(s, k + 1)
          /\ From(s, k + 1)[1] = s[k + 1]
      BY <1>1, <3>1, FromNext
    <3> HIDE DEF first
    <3>5. first = s[k + 1]
      BY <2>1, <3>3, <3>4
    <3>6. Made(f, k) = <<first>> \o f[k + 1]
      BY <2>2, <2>3, <3>1
    <3> QED BY <1>2, <3>1, <3>4, <3>5, <3>6
  <2> QED BY <2>4, <2>5
<1>3. Is(g)
  <2>1. ASSUME NEW k \in 0..n
        PROVE  Made(g, k) = g[k]
    <3>1. k < n => g[k + 1] = From(s, k + 1 + 1)
      <4> HIDE DEF s, n
      <4> QED BY <1>1
    <3> HIDE DEF Made
    <3> QED BY <1>2, <3>1
  <2>2. g = [k \in 0..n |-> g[k]]
    OBVIOUS
  <2> HIDE DEF g
  <2>3. [k \in 0..n |-> g[k]] = [k \in 0..n |-> Made(g, k)]
    BY <2>1
  <2> QED BY <1>1, <2>2, <2>3
<1>4. Is(list)
  BY <1>3, Zenon DEF unpacked
<1> HIDE DEF list
<1>5. \A k \in 0..n : list[k] = Made(list, k)
  BY <1>1, <1>4
<1> HIDE DEF Is, Made, g
<1>6. 0 \in T
  <2>1. n \in 0..n /\ n - 0 = n /\ 0 \in 0..n /\ ~(n < n)
    BY <1>1
  <2>2. list[n] = From(s, n + 1)
    <3> HIDE DEF n, s
    <3> QED BY <1>2, <1>5, <2>1
  <2> QED BY <2>1, <2>2
<1>7. ASSUME NEW m \in 1..n, m - 1 \in T
      PROVE  m \in T
  <2> DEFINE k == n - m
  <2>1. k \in 0..n /\ k + 1 = n - (m - 1) /\ m \in 0..n
    BY <1>1
  <2>2. list[n - (m - 1)] = From(s, n - (m - 1) + 1)
    BY <1>7
  <2> HIDE DEF k
  <2>3. list[k + 1] = From(s, k + 1 + 1)
    BY <2>1, <2>2
  <2>4. list[k] = From(s, k + 1)
    <3> HIDE DEF n, s
    <3> QED BY <1>2, <1>5, <2>1, <2>3
  <2> QED BY <2>1, <2>4 DEF k
<1>8. n \in T
  <2>1. n \in 0..n
    BY <1>1
  <2> HIDE DEF T, n
  <2> QED BY <1>1, <1>6, <1>7, <2>1, UpTo
<1>9. list[0] = From(s, 1)
  <2>1. n - n = 0 /\ 0 + 1 = 1
    BY <1>1
  <2> QED BY <1>8, <2>1
<1>10. From(s, 1) = s
  BY <1>1, FromEnds
<1> QED BY <1>9, <1>10 DEF unpack, list

\* The list of the elements of a slice, consed again, has them.
LEMMA Folded ==
  ASSUME NEW val, Good(val), IsList(val), NEW fresh \in [1..(IntSize - 1) -> Bytes],
         \A j \in 1..val.len : Boxes(val)[j].val_type # "INT"
  PROVE  Boxes(from_list(Boxes(val), fresh)) = Boxes(val)
<1> DEFINE n == val.len
           s == Boxes(val)
           E == Elements(val)
           list == folded(s, fresh)
           Down(f, m) == f = [k \in (n - m)..n |->
                                IF k = n THEN slice_empty ELSE slice_cons(s[k + 1], f[k + 1], fresh)]
           T == { m \in 0..n : \E f : Down(f, m) }
           Is(f) == f = [k \in 0..Len(s) |->
                           IF k = Len(s) THEN slice_empty ELSE slice_cons(s[k + 1], f[k + 1], fresh)]
           Fine(w, k) == Good(w) /\ IsList(w) /\ Elements(w) = From(E, k + 1)
           U == { m \in 0..n : Fine(list[n - m], n - m) }
<1>1. /\ n \in Nat /\ s \in Seq(Boxed) /\ Len(s) = n /\ n \in 0..MaxLen
      /\ E \in Seq(Elt) /\ Len(E) = n
  BY BoxesOf, ElementsSeq
<1>2. 0 \in T
  <2> DEFINE f == [k \in n..n |-> slice_empty]
  <2>1. n - 0 = n /\ 0 \in 0..n
    BY <1>1
  <2>2. f = [k \in n..n |-> IF k = n THEN slice_empty ELSE slice_cons(s[k + 1], f[k + 1], fresh)]
    BY <1>1
  <2>3. Down(f, 0)
    BY <2>1, <2>2
  <2> QED BY <2>1, <2>3
<1>3. ASSUME NEW m \in 1..n, m - 1 \in T
      PROVE  m \in T
  <2>1. PICK f : Down(f, m - 1)
    BY <1>3
  <2> DEFINE b == n - m
             first == slice_cons(s[b + 1], f[b + 1], fresh)
             g == [k \in b..n |-> IF k = b THEN first ELSE f[k]]
  <2>2. b \in 0..(n - 1) /\ n - (m - 1) = b + 1 /\ m \in 0..n
    BY <1>1
  <2>3. \A k \in (b + 1)..n : f[k] = IF k = n THEN slice_empty ELSE slice_cons(s[k + 1], f[k + 1], fresh)
    BY <2>1, <2>2
  <2> HIDE DEF b
  <2>4. \A k \in b..n : g[k] = IF k = b THEN first ELSE f[k]
    OBVIOUS
  <2>5. g = [k \in b..n |-> g[k]]
    OBVIOUS
  <2> HIDE DEF g
  <2>6. ASSUME NEW k \in b..n
        PROVE  g[k] = IF k = n THEN slice_empty ELSE slice_cons(s[k + 1], g[k + 1], fresh)
    <3>1. CASE k = b
      <4>1. k # n /\ b + 1 \in b..n /\ b + 1 # b
        BY <1>1, <2>2, <3>1
      <4>2. g[b + 1] = f[b + 1]
        BY <2>4, <4>1
      <4>3. g[b] = first
        BY <2>4, <3>1
      <4> QED BY <3>1, <4>1, <4>2, <4>3
    <3>2. CASE k # b
      <4>4. n \in Nat /\ b \in Nat /\ k \in b..n
        BY <1>1, <2>2
      <4> HIDE DEF n
      <4>1. k \in (b + 1)..n /\ (k # n => k + 1 \in b..n /\ k + 1 # b)
        BY <3>2, <4>4
      <4>2. k # n => g[k + 1] = f[k + 1]
        BY <2>4, <4>1
      <4>3. g[k] = f[k]
        BY <2>4, <3>2
      <4> QED BY <2>3, <4>1, <4>2, <4>3
    <3> QED BY <3>1, <3>2
  <2>7. [k \in b..n |-> g[k]]
          = [k \in b..n |-> IF k = n THEN slice_empty ELSE slice_cons(s[k + 1], g[k + 1], fresh)]
    BY <2>6
  <2>8. Down(g, m)
    BY <2>5, <2>7 DEF b
  <2> QED BY <2>2, <2>8
<1>4. n \in T
  <2>1. n \in 0..n
    BY <1>1
  <2> HIDE DEF T, n
  <2> QED BY <1>1, <1>2, <1>3, <2>1, UpTo
<1>5. \E f : Is(f)
  <2>1. PICK f : Down(f, n)
    BY <1>4
  <2>2. n - n = 0
    BY <1>1
  <2>3. Is(f)
    BY <1>1, <2>1, <2>2
  <2> QED BY <2>3
<1>6. Is(list)
  BY <1>5, Zenon DEF folded
<1> HIDE DEF list
<1>7. \A k \in 0..n : list[k] = IF k = n THEN slice_empty ELSE slice_cons(s[k + 1], list[k + 1], fresh)
  BY <1>1, <1>6
<1> HIDE DEF Is, T, Down
<1>8. 0 \in U
  <2> DEFINE none == slice_empty
  <2>1. none.type = "ARRAY" /\ none.len = 0 /\ IsResult(none)
    BY EmptyResult DEF slice_empty, Array
  <2> HIDE DEF none
  <2>2. Good(none) /\ IsList(none)
    BY <2>1 DEF IsResult, IsFault, IsList
  <2>3. Elements(none) \in Seq(Elt) /\ Len(Elements(none)) = 0
    BY <2>1, <2>2, ElementsSeq
  <2>4. Elements(none) = << >>
    BY <2>3, EmptySeq
  <2>5. From(E, Len(E) + 1) = << >>
    BY <1>1, FromEnds
  <2>6. n - 0 = n /\ 0 \in 0..n /\ n \in 0..n
    BY <1>1
  <2>7. list[n] = none
    BY <1>7, <2>6 DEF none
  <2>8. Fine(list[n], n)
    BY <1>1, <2>2, <2>4, <2>5, <2>7
  <2> QED BY <2>6, <2>8
<1>9. ASSUME NEW m \in 1..n, m - 1 \in U
      PROVE  m \in U
  <2> DEFINE k == n - m
             v == list[k + 1]
             w == list[k]
             push == s[k + 1]
             type == get_slice_info(val).array.val_type
  <2>1. k \in 0..(n - 1) /\ k \in 0..n /\ k # n /\ k + 1 = n - (m - 1) /\ m \in 0..n /\ k + 1 \in 1..n
    BY <1>1
  <2>2. Good(v) /\ IsList(v) /\ Elements(v) = From(E, k + 1 + 1)
    <3>1. Fine(list[n - (m - 1)], n - (m - 1))
      BY <1>9
    <3> HIDE DEF k
    <3> QED BY <2>1, <3>1
  <2>3. w = slice_cons(push, v, fresh)
    <3> HIDE DEF k
    <3> QED BY <1>7, <2>1
  <2>4. Good(push) /\ push.type = "BOX" /\ Element(push) = E[k + 1]
    <3> HIDE DEF k
    <3> QED BY <2>1, Read
  <2>5. push.val_type # "INT"
    <3> HIDE DEF k
    <3> QED BY <2>1
  <2>6. \A i \in 1..n : E[i].type = type
    BY <1>1, Lists
  <2>7. type \in ArrayTypes
    BY InfoIsGood
  <2> HIDE DEF k, v, w, push, type, E, n, s
  <2>8. push.val_type = E[k + 1].type
    BY <2>4 DEF Element
  <2>9. push.val_type = type /\ push.val_type # "UNIT"
    BY <2>1, <2>6, <2>7, <2>8 DEF ArrayTypes
  <2>10. /\ Len(Elements(v)) = n - (k + 1)
         /\ \A i \in 1..(n - (k + 1)) : Elements(v)[i] = E[k + 1 + 1 + i - 1]
    <3> DEFINE j == k + 1 + 1
    <3>1. j \in 1..(Len(E) + 1) /\ Len(E) + 1 - j = n - (k + 1)
      BY <1>1, <2>1
    <3> HIDE DEF j
    <3>2. /\ From(E, j) \in Seq(Elt) /\ Len(From(E, j)) = Len(E) + 1 - j
          /\ \A i \in 1..(Len(E) + 1 - j) : From(E, j)[i] = E[j + i - 1]
      BY <1>1, <3>1, FromMeans
    <3> QED BY <2>2, <3>1, <3>2 DEF j
  <2>11. v.len + 1 <= MaxLen /\ v.len = n - (k + 1)
    <3>1. Len(Elements(v)) = v.len
      BY <2>2, ElementsSeq
    <3> QED BY <1>1, <2>1, <2>10, <3>1, BoundsTyped
  <2>12. Elements(v) # << >> => Elements(v)[1].type = type
    <3> SUFFICES ASSUME Elements(v) # << >>
                 PROVE  Elements(v)[1].type = type
      OBVIOUS
    <3>1. Elements(v) \in Seq(Elt)
      BY <2>2, ElementsSeq
    <3>2. Len(Elements(v)) # 0
      BY <3>1, EmptySeq
    <3>3. 1 \in 1..(n - (k + 1)) /\ k + 1 + 1 + 1 - 1 \in 1..n
      BY <1>1, <2>1, <2>10, <3>2
    <3>4. Elements(v)[1] = E[k + 1 + 1 + 1 - 1]
      BY <2>10, <3>3
    <3> QED BY <2>6, <3>3, <3>4
  <2>13. Addable(push, v) /\ ~Smudges(push, v)
    BY <2>2, <2>4, <2>5, <2>9, <2>12 DEF Addable, Smudges
  <2>18. ~Heavy(Append(Elements(v), Element(push)))
    <3>1. ~IsList(push) /\ val_type_size(push.val_type) = 1 /\ v.len \in Nat
      BY <2>2, <2>4, <2>5, InfoIsGood DEF IsList, val_type_size
    <3>2. TooLarge(push, v) <=> (1 + v.len) * 1 >= Word
      BY <2>2, <3>1 DEF TooLarge, Count, ElementType
    <3>3. Heavy(Append(Elements(v), Element(push))) <=> TooLarge(push, v)
      BY <2>2, <2>4, <2>9, <2>13, MoreIsHeavy
    <3> DEFINE bytes == (1 + v.len) * 1
               b == Word
    <3>4. bytes = v.len + 1 /\ b \in Nat /\ MaxLen < b /\ MaxLen \in Nat
      BY <3>1, BoundsTyped, ShortLengths
    <3> HIDE DEF bytes, b
    <3>5. ~(bytes >= b)
      BY <2>11, <3>1, <3>4
    <3> QED BY <3>2, <3>3, <3>5 DEF bytes, b
  <2>14. IsList(w) /\ Good(w) /\ Elements(w) = <<Element(push)>> \o Elements(v)
    BY <2>2, <2>3, <2>4, <2>9, <2>11, <2>13, <2>18, ConsMeans
  <2>16. <<E[k + 1]>> \o From(E, k + 1 + 1) = From(E, k + 1)
    BY <1>1, <2>1, FromNext
  <2>17. Fine(w, k)
    BY <2>2, <2>4, <2>14, <2>16
  <2> QED BY <2>1, <2>17 DEF k, w
<1>10. n \in U
  <2>1. n \in 0..n
    BY <1>1
  <2> HIDE DEF U, n
  <2> QED BY <1>1, <1>8, <1>9, <2>1, UpTo
<1>11. Elements(list[0]) = From(E, 1)
  <2>1. n - n = 0 /\ 0 + 1 = 1
    BY <1>1
  <2> QED BY <1>10, <2>1
<1>12. From(E, 1) = E
  BY <1>1, FromEnds
<1>13. Elements(from_list(s, fresh)) = E
  BY <1>11, <1>12 DEF from_list, list
<1> QED BY <1>13 DEF Boxes

-----------------------------------------------------------------------------
(* What is left out of a list by the functions of std.                     *)
LEMMA WhileMeans ==
  ASSUME NEW val, Good(val), IsList(val), NEW p
  PROVE  LET s == Boxes(val)
             n == PrefixLength(s, p)
             m == Len(s) - SuffixLength(s, p)
         IN /\ Boxes(drop_while(p, val)) = SubSeq(s, n + 1, Len(s))
            /\ Boxes(take_while(p, val)) = IF n = 0 THEN s ELSE SubSeq(s, 1, n)
            /\ Boxes(drop_while_back(p, val)) = IF m = 0 THEN s ELSE SubSeq(s, 1, m)
<1> DEFINE s == Boxes(val)
           n == PrefixLength(s, p)
           m == val.len - SuffixLength(s, p)
<1>1. Len(s) = val.len
  BY BoxesOf
<1>2. n \in 0..val.len /\ f_while(p, val) = Int_(n)
  BY CountsWhile DEF f_while
<1>3. m \in 0..val.len /\ drop_while_back(p, val) = slice_take(Int_(m), val)
  BY CountsBack DEF drop_while_back
<1> HIDE DEF n, m
<1>4. Boxes(drop_while(p, val)) = SubSeq(s, n + 1, val.len)
  BY <1>2, Drops DEF drop_while
<1>5. Boxes(take_while(p, val)) = IF n = 0 THEN s ELSE SubSeq(s, 1, n)
  BY <1>2, Takes DEF take_while
<1>6. Boxes(drop_while_back(p, val)) = IF m = 0 THEN s ELSE SubSeq(s, 1, m)
  BY <1>3, Takes
<1> QED BY <1>1, <1>4, <1>5, <1>6 DEF n, m

LEMMA LastIsGood ==
  ASSUME IInv, NEW i \in {Len(stack)} \ {0}
  PROVE  Good(stack[i])
<1>1. PICK S : stack \in Seq(S) /\ \A val \in S : Good(val)
  BY DEF IInv, AllGood
<1>2. i \in 1..Len(stack)
  BY <1>1, LenProperties
<1> QED BY <1>1, <1>2, ElementOfSeq

(* The functions of the module slice of std that walk over a slice leave   *)
(* out what they are named for, whatever the slice and the predicate are.  *)
THEOREM WalksWhole == Spec => []WhileFunctions
<1>1. IInv => WhileFunctions
  <2> SUFFICES ASSUME IInv, NEW i \in {Len(stack)} \ {0}, IsList(stack[i])
               PROVE  /\ unpack(stack[i]) = Boxes(stack[i])
                      /\ \A p \in Predicates :
                           LET s == Boxes(stack[i])
                               n == PrefixLength(s, p)
                               m == Len(s) - SuffixLength(s, p)
                           IN /\ Boxes(drop_while(p, stack[i])) = SubSeq(s, n + 1, Len(s))
                              /\ Boxes(take_while(p, stack[i])) = IF n = 0 THEN s ELSE SubSeq(s, 1, n)
                              /\ Boxes(drop_while_back(p, stack[i])) = IF m = 0 THEN s ELSE SubSeq(s, 1, m)
    BY DEF WhileFunctions
  <2>1. Good(stack[i])
    BY LastIsGood
  <2> QED BY <2>1, Unpacked, WhileMeans
<1> QED BY <1>1, InitGood, NextGood, PTL DEF Spec

(* A slice that is made of the list of the elements of another has them,   *)
(* if they are of one byte, whatever was in the memory it is made in.      *)
THEOREM ListsKeep == Spec => []ListOfSlice
<1>1. IInv => ListOfSlice
  <2> DEFINE fresh == [k \in 1..(IntSize - 1) |-> 0]
  <2> SUFFICES ASSUME IInv, NEW i \in {Len(stack)} \ {0}, IsList(stack[i]),
                      \A j \in DOMAIN unpack(stack[i]) : unpack(stack[i])[j].val_type # "INT"
               PROVE  Boxes(from_list(unpack(stack[i]), fresh)) = unpack(stack[i])
    BY DEF ListOfSlice
  <2> DEFINE val == stack[i]
  <2>1. Good(val)
    BY LastIsGood
  <2>2. fresh \in [1..(IntSize - 1) -> Bytes]
    <3>1. 0 \in Bytes
      BY SizesAssumption DEF Bytes
    <3> QED BY <3>1
  <2> HIDE DEF val, fresh
  <2>3. unpack(val) = Boxes(val)
    BY <2>1, Unpacked DEF val
  <2>4. DOMAIN Boxes(val) = 1..val.len
    BY <2>1, BoxesOf DEF val
  <2>5. \A j \in 1..val.len : Boxes(val)[j].val_type # "INT"
    BY <2>3, <2>4 DEF val
  <2>6. Boxes(from_list(Boxes(val), fresh)) = Boxes(val)
    BY <2>1, <2>2, <2>5, Folded DEF val
  <2> QED BY <2>3, <2>6 DEF val
<1> QED BY <1>1, InitGood, NextGood, PTL DEF Spec
=============================================================================
