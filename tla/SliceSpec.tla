----------------------------- MODULE SliceSpec -----------------------------
(***************************************************************************)
(* What the slices of std promise: a slice is a finite sequence of         *)
(* elements of one type, and the functions are those of sequences.  Where  *)
(* the bytes are, and whether a value is an array or a part of one, cannot *)
(* be told; but a list can be too large to be made, and what a program     *)
(* does that makes one is undefined.                                       *)
(*                                                                         *)
(* A value is [kind, of]: a box of an element [type, val], or a sequence   *)
(* of elements.                                                            *)
(***************************************************************************)
EXTENDS Integers, Sequences

CONSTANTS Pool,     \* the constants
          Ints,     \* the values of an integer
          Width,    \* the bytes of an element, by its type
          Room      \* a list has fewer bytes than this

VARIABLES values, state

svars == <<values, state>>

Lone(type, val) == [kind |-> "box", of |-> [type |-> type, val |-> val]]
List(elements) == [kind |-> "list", of |-> elements]
IsA(kind, val) == val.kind = kind
IsInt(val) == IsA("box", val) /\ val.of.type = "INT"
Size(val) == Len(val.of)

Arg(n) == values[Len(values) + 1 - n]
Rest(n) == SubSeq(values, 1, Len(values) - n)
Gives(n, val) == values' = Append(Rest(n), val) /\ state' = "running"
Stops(n, why) == values' = Rest(n) /\ state' = why
Breaks == values' = values /\ state' = "undefined"
Args(n) == state = "running" /\ Len(values) >= n

SInit == values = <<>> /\ state = "running"

SConst == Args(0) /\ \E val \in Pool \cup {List(<<>>)} : Gives(0, val)

\* Nothing is dropped by 0, and everything by a number below it.
SDrop ==
  /\ Args(2)
  /\ LET n == Arg(1).of.val
         s == Arg(2).of
     IN \/ IsInt(Arg(1)) /\ n = 0 /\ Gives(2, Arg(2))
        \/ IsInt(Arg(1)) /\ n # 0 /\ IsA("list", Arg(2))
             /\ Gives(2, List(IF n < 0 THEN <<>> ELSE SubSeq(s, n + 1, Len(s))))
        \/ ~IsInt(Arg(1)) /\ Stops(2, "error")
        \/ IsInt(Arg(1)) /\ n # 0 /\ IsA("box", Arg(2)) /\ Stops(2, "error")
\* Everything is taken by 0, and by a number below it.
STake ==
  /\ Args(2)
  /\ LET n == Arg(1).of.val
         s == Arg(2).of
     IN \/ IsInt(Arg(1)) /\ n <= 0 /\ (n = 0 \/ IsA("list", Arg(2))) /\ Gives(2, Arg(2))
        \/ IsInt(Arg(1)) /\ n > 0 /\ IsA("list", Arg(2))
             /\ Gives(2, List(SubSeq(s, 1, IF n < Len(s) THEN n ELSE Len(s))))
        \/ ~IsInt(Arg(1)) /\ Stops(2, "error")
        \/ IsInt(Arg(1)) /\ n # 0 /\ IsA("box", Arg(2)) /\ Stops(2, "error")
SIndex ==
  /\ Args(2)
  /\ LET InRange == IsInt(Arg(1)) /\ IsA("list", Arg(2)) /\ Arg(1).of.val \in 0..(Size(Arg(2)) - 1)
     IN \/ InRange /\ Gives(2, [kind |-> "box", of |-> Arg(2).of[Arg(1).of.val + 1]])
        \/ ~InRange /\ Stops(2, "error")
SLength ==
  /\ Args(1)
  /\ \/ IsA("list", Arg(1)) /\ Gives(1, Lone("INT", Size(Arg(1))))
     \/ IsA("box", Arg(1)) /\ Stops(1, "error")

\* Lists of different types have no list they are parts of.
Alike(s, t) == s # <<>> /\ t # <<>> => s[1].type = t[1].type
\* A list that is too large.
Large(s) == s # <<>> /\ Len(s) * Width[s[1].type] >= Room
Joined(l, r) == IsA("list", l) /\ IsA("list", r) /\ Alike(l.of, r.of)
SJoin ==
  /\ Args(2)
  /\ \/ Joined(Arg(1), Arg(2)) /\ ~Large(Arg(1).of \o Arg(2).of) /\ Gives(2, List(Arg(1).of \o Arg(2).of))
     \/ Joined(Arg(1), Arg(2)) /\ Large(Arg(1).of \o Arg(2).of) /\ Breaks
     \/ ~Joined(Arg(1), Arg(2)) /\ Stops(2, "error")

\* x is put before or behind the elements of s; there are no lists of units.
Addable(x, s) == IsA("box", x) /\ IsA("list", s) /\ Alike(<<x.of>>, s.of)
Adds(x, s, gives) ==
  \/ Addable(x, s) /\ x.of.type # "UNIT" /\ ~Large(Append(s.of, x.of)) /\ gives
  \/ Addable(x, s) /\ x.of.type # "UNIT" /\ Large(Append(s.of, x.of)) /\ Breaks
  \/ Addable(x, s) /\ x.of.type = "UNIT" /\ Stops(2, "panic")
  \/ ~Addable(x, s) /\ Stops(2, "error")
SPush == Args(2) /\ Adds(Arg(2), Arg(1), Gives(2, List(Append(Arg(1).of, Arg(2).of))))
\* Of an integer before other integers only the length of the list is promised.
Smudged(s) == s # <<>> /\ s[1].type = "INT"
GivesNumbers(n, size) ==
  LET result == values'[Len(values) - n + 1]
  IN Gives(n, result) /\ IsA("list", result) /\ result.of \in [1..size -> [type : {"INT"}, val : Ints]]
SCons ==
  /\ Args(2)
  /\ Adds(Arg(1), Arg(2),
       IF Smudged(Arg(2).of) THEN GivesNumbers(2, Size(Arg(2)) + 1)
       ELSE Gives(2, List(<<Arg(1).of>> \o Arg(2).of)))

\* Two empty lists may be equal or not.
SEqual ==
  /\ Args(2)
  /\ LET l == Arg(1)
         r == Arg(2)
         Both == IsA("list", l) /\ IsA("list", r)
     IN \/ Both /\ l.of # <<>> /\ Gives(2, Lone("BOOL", IF l = r THEN 1 ELSE 0))
        \/ Both /\ l.of = <<>> /\ r.of # <<>> /\ Gives(2, Lone("BOOL", 0))
        \/ Both /\ l.of = <<>> /\ r.of = <<>> /\ \E b \in 0..1 : Gives(2, Lone("BOOL", b))
        \/ ~Both /\ Stops(2, "error")

SNext == SConst \/ SDrop \/ STake \/ SIndex \/ SLength \/ SJoin \/ SPush \/ SCons \/ SEqual
SSpec == SInit /\ [][SNext]_svars
=============================================================================
