------------------------ MODULE RemappingQueueProofs ------------------------
(***************************************************************************)
(* The ring buffer of remapping.c is a first-in first-out queue, however   *)
(* many works it holds and wherever in the slots they begin: what waits is *)
(* a sequence, to which enqueue appends and from which dequeue takes the   *)
(* head.                                                                   *)
(***************************************************************************)
EXTENDS RemappingQueue, SequenceTheorems, TLAPS

\* The queues there can be of works of W.
Shaped(W) == [slots : Seq(W \union {Uninitialised}), start : Nat, len : Nat]
InSlots(queue) ==
  /\ queue.len <= cap(queue)
  /\ queue.start < cap(queue) \/ (queue.start = 0 /\ cap(queue) = 0)
Queues(W) == { queue \in Shaped(W) : InSlots(queue) /\ Waiting(queue) \in Seq(W) }

-----------------------------------------------------------------------------
(* The empty queue, with no slots at all, is one of them.                  *)
LEMMA EmptyIsQueue ==
  ASSUME NEW W
  PROVE  EmptyQueue \in Queues(W) /\ Waiting(EmptyQueue) = << >>
<1>1. << >> \in Seq(W \union {Uninitialised}) /\ << >> \in Seq(W) /\ Len(<< >>) = 0
  BY EmptySeq
<1>2. Waiting(EmptyQueue) = [i \in 1..0 |-> EmptyQueue.slots[wrap(EmptyQueue, EmptyQueue.start + i - 1) + 1]]
  BY DEF Waiting, EmptyQueue
<1>3. Waiting(EmptyQueue) = << >>
  BY <1>2
<1> QED BY <1>1, <1>3 DEF Queues, Shaped, InSlots, EmptyQueue, cap

(* What waits is as long as the queue says, and lies in the slots.         *)
LEMMA WaitingTyped ==
  ASSUME NEW W, NEW queue \in Queues(W)
  PROVE  /\ Waiting(queue) \in Seq(W) /\ Len(Waiting(queue)) = queue.len /\ queue.len \in Nat
         /\ \A i \in 1..queue.len :
              Waiting(queue)[i] = queue.slots[wrap(queue, queue.start + i - 1) + 1]
<1>1. queue.len \in Nat /\ Waiting(queue) \in Seq(W)
  BY DEF Queues, Shaped
<1>2. DOMAIN Waiting(queue) = 1..queue.len
  BY DEF Waiting
<1>3. Len(Waiting(queue)) = queue.len
  BY <1>1, <1>2, LenProperties
<1> QED BY <1>1, <1>3 DEF Waiting

-----------------------------------------------------------------------------
(* Growing moves the works, of which there are as many as slots, to the    *)
(* front in their order, and leaves a free slot.                           *)
LEMMA GrownKeeps ==
  ASSUME NEW W, NEW queue \in Queues(W), must_grow(queue)
  PROVE  /\ grown(queue) \in Queues(W) /\ Waiting(grown(queue)) = Waiting(queue)
         /\ grown(queue).len < cap(grown(queue))
<1> DEFINE c == cap(queue)
           new == new_cap(queue)
           slot(i) == CASE i <= pre_wrap_count(queue) -> queue.slots[queue.start + i]
                        [] i > pre_wrap_count(queue) /\ i <= queue.len -> queue.slots[i - pre_wrap_count(queue)]
                        [] OTHER -> Uninitialised
<1>1. /\ queue \in Shaped(W) /\ InSlots(queue) /\ queue.slots \in Seq(W \union {Uninitialised})
      /\ queue.start \in Nat /\ queue.len \in Nat /\ c \in Nat /\ queue.len = c
      /\ queue.start < c \/ (queue.start = 0 /\ c = 0)
      /\ DOMAIN queue.slots = 1..c /\ \A i \in 1..c : queue.slots[i] \in W \union {Uninitialised}
  BY LenProperties DEF Queues, Shaped, InSlots, cap, must_grow
<1>2. new \in Nat /\ c < new
  BY <1>1 DEF new_cap
<1>3. pre_wrap_count(queue) = c - queue.start /\ pre_wrap_count(queue) \in 0..c
  BY <1>1 DEF pre_wrap_count
<1>4. \A i \in 1..new : slot(i) \in W \union {Uninitialised}
  <2> SUFFICES ASSUME NEW i \in 1..new
               PROVE  slot(i) \in W \union {Uninitialised}
    OBVIOUS
  <2>1. CASE i <= pre_wrap_count(queue)
    <3>1. queue.start + i \in 1..c
      BY <1>1, <1>2, <1>3, <2>1
    <3>2. slot(i) = queue.slots[queue.start + i]
      BY <1>1, <1>3, <2>1
    <3> QED BY <1>1, <3>1, <3>2
  <2>2. CASE i > pre_wrap_count(queue) /\ i <= queue.len
    <3>1. i - pre_wrap_count(queue) \in 1..c
      BY <1>1, <1>2, <1>3, <2>2
    <3>2. slot(i) = queue.slots[i - pre_wrap_count(queue)]
      BY <1>1, <1>2, <1>3, <2>2
    <3> QED BY <1>1, <3>1, <3>2
  <2>3. CASE i > pre_wrap_count(queue) /\ i > queue.len
    <3>1. slot(i) = Uninitialised
      BY <1>1, <1>2, <1>3, <2>3
    <3> QED BY <3>1
  <2> QED BY <1>1, <1>2, <1>3, <2>1, <2>2, <2>3
<1>5. grown(queue) = [slots |-> [i \in 1..new |-> slot(i)], start |-> 0, len |-> queue.len]
  BY DEF grown
<1>6. \A i \in 1..queue.len : slot(i) = queue.slots[wrap(queue, queue.start + i - 1) + 1]
  <2> SUFFICES ASSUME NEW i \in 1..queue.len
               PROVE  slot(i) = queue.slots[wrap(queue, queue.start + i - 1) + 1]
    OBVIOUS
  <2>1. CASE i <= pre_wrap_count(queue)
    <3>1. wrap(queue, queue.start + i - 1) + 1 = queue.start + i
      BY <1>1, <1>3, <2>1 DEF wrap
    <3>2. slot(i) = queue.slots[queue.start + i]
      BY <1>1, <1>3, <2>1
    <3> QED BY <3>1, <3>2
  <2>2. CASE i > pre_wrap_count(queue)
    <3>1. wrap(queue, queue.start + i - 1) + 1 = i - pre_wrap_count(queue)
      BY <1>1, <1>3, <2>2 DEF wrap
    <3>2. slot(i) = queue.slots[i - pre_wrap_count(queue)]
      BY <1>1, <1>3, <2>2
    <3> QED BY <3>1, <3>2
  <2> QED BY <1>1, <1>3, <2>1, <2>2
<1> HIDE DEF slot, new
<1>7. [i \in 1..new |-> slot(i)] \in Seq(W \union {Uninitialised}) /\ Len([i \in 1..new |-> slot(i)]) = new
  BY <1>2, <1>4, IsASeq
<1>8. /\ grown(queue) \in Shaped(W) /\ cap(grown(queue)) = new
      /\ grown(queue).start = 0 /\ grown(queue).len = queue.len
      /\ \A i \in 1..new : grown(queue).slots[i] = slot(i)
  <2> DEFINE slots == [i \in 1..new |-> slot(i)]
  <2>1. \A i \in 1..new : slots[i] = slot(i)
    OBVIOUS
  <2>2. slots \in Seq(W \union {Uninitialised}) /\ Len(slots) = new
        /\ grown(queue) = [slots |-> slots, start |-> 0, len |-> queue.len]
    BY <1>5, <1>7
  <2> HIDE DEF slots, c
  <2>3. /\ grown(queue).slots = slots /\ grown(queue).start = 0 /\ grown(queue).len = queue.len
        /\ grown(queue) \in Shaped(W)
    BY <1>1, <2>2 DEF Shaped
  <2> QED BY <2>1, <2>2, <2>3 DEF cap
<1>9. InSlots(grown(queue)) /\ grown(queue).len < cap(grown(queue))
  BY <1>1, <1>2, <1>8 DEF InSlots
<1>10. Waiting(grown(queue)) = Waiting(queue)
  <2>1. \A i \in 1..queue.len : wrap(grown(queue), 0 + i - 1) + 1 = i /\ i \in 1..new
    BY <1>1, <1>2, <1>8 DEF wrap
  <2>2. \A i \in 1..queue.len :
          grown(queue).slots[wrap(grown(queue), 0 + i - 1) + 1]
            = queue.slots[wrap(queue, queue.start + i - 1) + 1]
    BY <1>6, <1>8, <2>1
  <2>3. Waiting(grown(queue))
          = [i \in 1..queue.len |-> grown(queue).slots[wrap(grown(queue), 0 + i - 1) + 1]]
    BY <1>8 DEF Waiting
  <2> QED BY <2>2, <2>3 DEF Waiting
<1> QED BY <1>8, <1>9, <1>10 DEF Queues

LEMMA IsRecord ==
  ASSUME NEW W, NEW queue \in Shaped(W)
  PROVE  queue = [slots |-> queue.slots, start |-> queue.start, len |-> queue.len]
BY DEF Shaped

(* With a free slot, a work is put behind those that wait.                 *)
LEMMA PutAppends ==
  ASSUME NEW W, NEW queue \in Queues(W), NEW work \in W, queue.len < cap(queue)
  PROVE  put(queue, work) \in Queues(W) /\ Waiting(put(queue, work)) = Append(Waiting(queue), work)
<1> DEFINE free == wrap(queue, queue.start + queue.len) + 1
           place(i) == wrap(queue, queue.start + i - 1) + 1
           slots == [queue.slots EXCEPT ![free] = work]
<1>1. /\ queue \in Shaped(W) /\ InSlots(queue) /\ queue.slots \in Seq(W \union {Uninitialised})
      /\ queue.start \in Nat /\ queue.len \in Nat /\ cap(queue) = Len(queue.slots)
      /\ cap(queue) \in Nat /\ cap(queue) # 0 /\ queue.start < cap(queue)
  BY LenProperties DEF Queues, Shaped, InSlots, cap
<1>2. free \in 1..Len(queue.slots)
  BY <1>1 DEF wrap
<1>3. \A i \in 1..queue.len : place(i) \in 1..Len(queue.slots) /\ place(i) # free
  BY <1>1 DEF wrap
<1> HIDE DEF free
<1>4. /\ slots \in Seq(W \union {Uninitialised}) /\ Len(slots) = Len(queue.slots)
      /\ slots[free] = work /\ \A i \in 1..queue.len : slots[place(i)] = queue.slots[place(i)]
  BY <1>1, <1>2, <1>3, ExceptSeq
<1> HIDE DEF slots
<1>5. put(queue, work) = [slots |-> slots, start |-> queue.start, len |-> queue.len + 1]
  <2>1. put(queue, work)
          = [[slots |-> queue.slots, start |-> queue.start, len |-> queue.len] EXCEPT
               !.slots = [queue.slots EXCEPT ![free] = work], !.len = queue.len + 1]
    BY <1>1, IsRecord DEF put, free
  <2> QED BY <2>1 DEF slots
<1>6. /\ put(queue, work) \in Shaped(W) /\ cap(put(queue, work)) = cap(queue)
      /\ InSlots(put(queue, work))
  BY <1>1, <1>4, <1>5 DEF Shaped, InSlots, cap
<1>7. \A distance : wrap(put(queue, work), distance) = wrap(queue, distance)
  BY <1>6 DEF wrap
<1>8. Waiting(put(queue, work)) = [i \in 1..(queue.len + 1) |-> slots[place(i)]]
  BY <1>5, <1>7 DEF Waiting
<1>9. place(queue.len + 1) = free
  BY <1>1 DEF free
<1>10. /\ Waiting(queue) \in Seq(W) /\ Len(Waiting(queue)) = queue.len
       /\ \A i \in 1..queue.len : Waiting(queue)[i] = queue.slots[place(i)]
  BY WaitingTyped
<1>11. /\ Append(Waiting(queue), work) \in Seq(W)
       /\ Append(Waiting(queue), work)
            = [i \in 1..(queue.len + 1) |-> IF i <= queue.len THEN Waiting(queue)[i] ELSE work]
  <2> HIDE DEF place
  <2> DEFINE longer == Append(Waiting(queue), work)
  <2>1. /\ longer \in Seq(W) /\ Len(longer) = queue.len + 1
        /\ \A i \in 1..queue.len : longer[i] = Waiting(queue)[i]
        /\ longer[queue.len + 1] = work
    BY <1>1, <1>10, AppendProperties
  <2> HIDE DEF longer
  <2>2. longer = [i \in 1..(queue.len + 1) |-> longer[i]]
    BY <2>1, LenProperties
  <2>3. \A i \in 1..(queue.len + 1) : longer[i] = IF i <= queue.len THEN Waiting(queue)[i] ELSE work
    BY <1>1, <2>1
  <2>4. longer = [i \in 1..(queue.len + 1) |-> IF i <= queue.len THEN Waiting(queue)[i] ELSE work]
    BY <2>2, <2>3
  <2> QED BY <2>1, <2>4 DEF longer
<1>12. \A i \in 1..(queue.len + 1) :
         slots[place(i)] = IF i <= queue.len THEN Waiting(queue)[i] ELSE work
  <2> SUFFICES ASSUME NEW i \in 1..(queue.len + 1)
               PROVE  slots[place(i)] = IF i <= queue.len THEN Waiting(queue)[i] ELSE work
    OBVIOUS
  <2> HIDE DEF place
  <2>1. CASE i \in 1..queue.len
    BY <1>1, <1>4, <1>10, <2>1
  <2>2. CASE i = queue.len + 1
    BY <1>1, <1>4, <1>9, <2>2
  <2> QED BY <1>1, <2>1, <2>2
<1> HIDE DEF place
<1>13. Waiting(put(queue, work)) = Append(Waiting(queue), work)
  BY <1>8, <1>11, <1>12
<1> QED BY <1>6, <1>11, <1>13 DEF Queues

-----------------------------------------------------------------------------
(* enqueue_remapping_work: a work is put behind those that wait, none of   *)
(* which is lost or moved past another, whether the slots are full or not. *)
THEOREM EnqueueAppends ==
  ASSUME NEW W, NEW queue \in Queues(W), NEW work \in W
  PROVE  /\ enqueue(queue, work) \in Queues(W)
         /\ Waiting(enqueue(queue, work)) = Append(Waiting(queue), work)
<1>1. CASE must_grow(queue)
  <2>1. enqueue(queue, work) = put(grown(queue), work)
    BY <1>1 DEF enqueue
  <2>2. /\ grown(queue) \in Queues(W) /\ Waiting(grown(queue)) = Waiting(queue)
        /\ grown(queue).len < cap(grown(queue))
    BY <1>1, GrownKeeps
  <2> QED BY <2>1, <2>2, PutAppends
<1>2. CASE ~must_grow(queue)
  <2>1. enqueue(queue, work) = put(queue, work)
    BY <1>2 DEF enqueue
  <2>2. queue.len < cap(queue)
    BY <1>2, LenProperties DEF Queues, Shaped, InSlots, must_grow, cap
  <2> QED BY <2>1, <2>2, PutAppends
<1> QED BY <1>1, <1>2

(* dequeue_remapping_work: what is taken is the work that has waited       *)
(* longest, and the others wait as before.                                 *)
THEOREM DequeueTakesFirst ==
  ASSUME NEW W, NEW queue \in Queues(W), queue.len # 0
  PROVE  /\ first(queue) = Head(Waiting(queue))
         /\ dequeue(queue) \in Queues(W) /\ Waiting(dequeue(queue)) = Tail(Waiting(queue))
<1> DEFINE place(q, i) == wrap(q, q.start + i - 1) + 1
<1>1. /\ queue \in Shaped(W) /\ InSlots(queue) /\ queue.slots \in Seq(W \union {Uninitialised})
      /\ queue.start \in Nat /\ queue.len \in Nat /\ cap(queue) \in Nat /\ queue.len <= cap(queue)
      /\ cap(queue) # 0 /\ queue.start < cap(queue)
  BY LenProperties DEF Queues, Shaped, InSlots, cap
<1>2. /\ Waiting(queue) \in Seq(W) /\ Len(Waiting(queue)) = queue.len
      /\ \A i \in 1..queue.len : Waiting(queue)[i] = queue.slots[place(queue, i)]
  BY WaitingTyped
<1>3. first(queue) = Head(Waiting(queue))
  <2>1. place(queue, 1) = queue.start + 1
    BY <1>1 DEF wrap
  <2>2. Head(Waiting(queue)) = Waiting(queue)[1] /\ 1 \in 1..queue.len
    BY <1>1, <1>2
  <2> QED BY <1>2, <2>1, <2>2 DEF first
<1>4. /\ dequeue(queue) = [slots |-> queue.slots, start |-> wrap(queue, queue.start + 1), len |-> queue.len - 1]
      /\ wrap(queue, queue.start + 1) \in 0..(cap(queue) - 1)
  <2>1. dequeue(queue)
          = [[slots |-> queue.slots, start |-> queue.start, len |-> queue.len] EXCEPT
               !.start = wrap(queue, queue.start + 1), !.len = queue.len - 1]
    BY <1>1, IsRecord DEF dequeue
  <2>2. wrap(queue, queue.start + 1) \in 0..(cap(queue) - 1)
    BY <1>1 DEF wrap
  <2> QED BY <2>1, <2>2
<1>5. dequeue(queue) \in Shaped(W) /\ cap(dequeue(queue)) = cap(queue) /\ InSlots(dequeue(queue))
  BY <1>1, <1>4 DEF Shaped, InSlots, cap
<1>6. \A i \in 1..(queue.len - 1) : place(dequeue(queue), i) = place(queue, i + 1)
  <2>1. dequeue(queue).start = wrap(queue, queue.start + 1)
    BY <1>4
  <2>2. \A distance : wrap(dequeue(queue), distance) = wrap(queue, distance)
    BY <1>5 DEF wrap
  <2>3. \A i \in 1..(queue.len - 1) :
          wrap(queue, wrap(queue, queue.start + 1) + i - 1) = wrap(queue, queue.start + i + 1 - 1)
    <3> SUFFICES ASSUME NEW i \in 1..(queue.len - 1)
                 PROVE  wrap(queue, wrap(queue, queue.start + 1) + i - 1)
                          = wrap(queue, queue.start + i + 1 - 1)
      OBVIOUS
    <3>1. CASE queue.start + 1 >= cap(queue)
      <4>1. wrap(queue, queue.start + 1) = queue.start + 1 - cap(queue)
        BY <1>1, <3>1 DEF wrap
      <4>2. wrap(queue, queue.start + i + 1 - 1) = queue.start + i + 1 - 1 - cap(queue)
        BY <1>1, <3>1 DEF wrap
      <4>3. wrap(queue, queue.start + 1 - cap(queue) + i - 1) = queue.start + 1 - cap(queue) + i - 1
        BY <1>1, <3>1 DEF wrap
      <4> QED BY <1>1, <4>1, <4>2, <4>3
    <3>2. CASE queue.start + 1 < cap(queue)
      <4>1. wrap(queue, queue.start + 1) = queue.start + 1
        BY <1>1, <3>2 DEF wrap
      <4>2. queue.start + 1 + i - 1 = queue.start + i + 1 - 1
        BY <1>1
      <4> QED BY <4>1, <4>2
    <3> QED BY <1>1, <3>1, <3>2
  <2>4. \A i \in 1..(queue.len - 1) : place(dequeue(queue), i) = place(queue, i + 1)
    <3> SUFFICES ASSUME NEW i \in 1..(queue.len - 1)
                 PROVE  place(dequeue(queue), i) = place(queue, i + 1)
      OBVIOUS
    <3>1. place(dequeue(queue), i) = wrap(queue, wrap(queue, queue.start + 1) + i - 1) + 1
      BY <2>1, <2>2
    <3>2. queue.start + (i + 1) - 1 = queue.start + i + 1 - 1
      BY <1>1
    <3> QED BY <2>3, <3>1, <3>2
  <2> QED BY <2>4
<1> HIDE DEF place
<1>7. Waiting(dequeue(queue)) = [i \in 1..(queue.len - 1) |-> queue.slots[place(dequeue(queue), i)]]
  BY <1>4 DEF Waiting, place
<1>8. /\ Tail(Waiting(queue)) \in Seq(W)
      /\ Tail(Waiting(queue)) = [i \in 1..(queue.len - 1) |-> Waiting(queue)[i + 1]]
  <2> DEFINE others == Tail(Waiting(queue))
  <2>1. Waiting(queue) # << >>
    BY <1>1, <1>2, LenProperties, EmptySeq
  <2>2. /\ others \in Seq(W) /\ Len(others) = queue.len - 1
        /\ \A i \in 1..(queue.len - 1) : others[i] = Waiting(queue)[i + 1]
    BY <1>2, <2>1, HeadTailProperties
  <2> HIDE DEF others
  <2>3. others = [i \in 1..(queue.len - 1) |-> others[i]]
    BY <2>2, LenProperties
  <2>4. others = [i \in 1..(queue.len - 1) |-> Waiting(queue)[i + 1]]
    BY <2>2, <2>3
  <2> QED BY <2>2, <2>4 DEF others
<1>9. \A i \in 1..(queue.len - 1) : queue.slots[place(dequeue(queue), i)] = Waiting(queue)[i + 1]
  <2> SUFFICES ASSUME NEW i \in 1..(queue.len - 1)
               PROVE  queue.slots[place(dequeue(queue), i)] = Waiting(queue)[i + 1]
    OBVIOUS
  <2>1. i + 1 \in 1..queue.len
    BY <1>1
  <2> QED BY <1>2, <1>6, <2>1
<1>10. Waiting(dequeue(queue)) = Tail(Waiting(queue))
  BY <1>7, <1>8, <1>9
<1> QED BY <1>3, <1>5, <1>8, <1>10 DEF Queues
=============================================================================
