---------------------------- MODULE Reachability ----------------------------
(***************************************************************************)
(* Reachability over an explicit edge function: the vocabulary shared by   *)
(* the collector that runs (MarkSweep), by what it promises (HeapSpec) and *)
(* by the proofs.                                                          *)
(*                                                                         *)
(* Reach is the least set that holds the roots and is closed under the     *)
(* edges.  It is written as an intersection instead of a recursion, so     *)
(* that the proof system can use it for any set of nodes.                  *)
(***************************************************************************)

\* C is closed: an edge that starts in C ends in C.
Closed(edge, C) == \A n \in C : edge[n] \subseteq C

\* The nodes that belong to every closed set containing the roots.
Reach(edge, roots) ==
  { n \in DOMAIN edge :
      \A C \in SUBSET DOMAIN edge : (roots \subseteq C /\ Closed(edge, C)) => n \in C }
=============================================================================
