------------------------------ MODULE MCSlices ------------------------------
(***************************************************************************)
(* Slices with integers of three bits.                                     *)
(***************************************************************************)
EXTENDS StdSlices

CONSTANTS Numbers, Strings

Characters == {0, 1}
MCConstants ==
  { Box("INT", i) : i \in Numbers } \cup { Box("CHAR", c) : c \in Characters }
    \cup {Box("UNIT", 0)} \cup { Array("CHAR", Len(s), s) : s \in Strings }
MCNumbers == {-1, 0, 1, 2}
MCStrings == {<<>>, <<0>>, <<1, 0>>}
MCPredicates == { {}, {Box("CHAR", 1)}, {Box("CHAR", c) : c \in Characters}, {Box("INT", 1), Box("INT", 0)} }
=============================================================================
