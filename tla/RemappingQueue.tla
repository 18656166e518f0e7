--------------------------- MODULE RemappingQueue ---------------------------
(***************************************************************************)
(* codegen/remapping.c: the queue of references that were compiled before  *)
(* what they refer to.  It is a ring buffer that doubles when it is full.  *)
(*                                                                         *)
(* A queue is [slots, start, len]: the allocated slots, numbered from 1;   *)
(* the distance of the first work from the first slot; the number of works *)
(* in the queue.                                                           *)
(***************************************************************************)
EXTENDS Integers, Sequences

\* What a slot holds that nothing was written to.
Uninitialised == [uninitialised |-> TRUE]
EmptyQueue == [slots |-> <<>>, start |-> 0, len |-> 0]

cap(queue) == Len(queue.slots)
\* A distance from the first slot, of a place in the queue.
wrap(queue, distance) == IF distance >= cap(queue) THEN distance - cap(queue) ELSE distance

\* The works up to the end of the slots are copied first, then those before start.
new_cap(queue) == IF cap(queue) = 0 THEN 2 ELSE cap(queue) * 2
pre_wrap_count(queue) == cap(queue) - queue.start
grown(queue) ==
  [slots |-> [i \in 1..new_cap(queue) |->
                CASE i <= pre_wrap_count(queue) -> queue.slots[queue.start + i]
                  [] i > pre_wrap_count(queue) /\ i <= queue.len -> queue.slots[i - pre_wrap_count(queue)]
                  [] OTHER -> Uninitialised],
   start |-> 0, len |-> queue.len]

\* Mutant: a full queue is not noticed, and its first work is overwritten.
must_grow_Late(queue) == cap(queue) = 0 \/ queue.len > cap(queue)
must_grow(queue) == queue.len = cap(queue)

\* Behind the last work.
put(queue, work) ==
  [queue EXCEPT !.slots[wrap(queue, queue.start + queue.len) + 1] = work, !.len = @ + 1]
enqueue(queue, work) == put(IF must_grow(queue) THEN grown(queue) ELSE queue, work)

\* The queue has a work when these are used.
first(queue) == queue.slots[queue.start + 1]
dequeue(queue) == [queue EXCEPT !.start = wrap(queue, @ + 1), !.len = @ - 1]

-----------------------------------------------------------------------------
\* The works in the queue, first the one that has waited longest.
Waiting(queue) ==
  [i \in 1..queue.len |-> queue.slots[wrap(queue, queue.start + i - 1) + 1]]
=============================================================================
