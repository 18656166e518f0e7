------------------------------ MODULE HeapSpec ------------------------------
(***************************************************************************)
(* What the garbage collector promises to the interpreter: an object is    *)
(* discarded only by a collection (or when the machine ends), and a        *)
(* collection discards exactly the objects the program can no longer       *)
(* reach.  There are no marks, no worklist and no allocation list here;    *)
(* MarkSweep is shown to implement this specification.                     *)
(***************************************************************************)
EXTENDS Reachability

CONSTANTS
  Cell,     \* addresses of collected objects
  Pool      \* objects of the constant pool, never collected

VARIABLES
  alive,    \* the collected objects that exist
  edge,     \* the references each existing object holds
  root,     \* the references the machine holds besides the pool
  running   \* FALSE once the machine has ended

heapVars == <<alive, edge, root, running>>

Node == Cell \cup Pool
\* An instruction can name a pool object at any time, so the pool is a root.
Live == Reach(edge, root \cup Pool)

Init ==
  /\ alive = {}
  /\ edge = [n \in Node |-> {}]
  /\ root \in SUBSET Pool
  /\ running = TRUE

\* The program moves references it can reach and rewrites one object.
Mutate ==
  /\ running
  /\ root' \subseteq Live
  /\ \A n \in Node : edge'[n] # edge[n] => n \in Live /\ edge'[n] \subseteq Live
  /\ DOMAIN edge' = Node
  /\ UNCHANGED <<alive, running>>

\* The program obtains an object it did not have.
Allocate ==
  /\ running
  /\ \E n \in Cell \ alive :
       /\ alive' = alive \cup {n}
       /\ root' \subseteq Live \cup {n}
       /\ edge'[n] \subseteq Live
       /\ edge' = [edge EXCEPT ![n] = edge'[n]]
  /\ UNCHANGED running

\* A collection discards every object out of reach, and nothing else.
Collect ==
  /\ running
  /\ alive' = alive \cap Live
  /\ edge' = [n \in Node |-> IF n \in alive' \cup Pool THEN edge[n] ELSE {}]
  /\ UNCHANGED <<root, running>>

\* The machine ends and discards everything.
Finish ==
  /\ running
  /\ alive' = {}
  /\ edge' = [n \in Node |-> {}]
  /\ root' = {}
  /\ running' = FALSE

Next == Mutate \/ Allocate \/ Collect \/ Finish

Spec == Init /\ [][Next]_heapVars
=============================================================================
