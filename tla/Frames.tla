------------------------------- MODULE Frames -------------------------------
(***************************************************************************)
(* The stacks of the machine while it executes code that obeys its         *)
(* layouts: a frame for each function that has not returned, with the      *)
(* words and the bindings that the layouts promise.  The vm has no frames: *)
(* what is on its stack is known only to the code.                         *)
(*                                                                         *)
(* hp is a heap, st a stack, bs the bindings; c, L and A are as in Layouts. *)
(***************************************************************************)
EXTENDS Layouts

Words == [tag : BOOLEAN, n : Int]
IsRef(hp, w) == w.tag /\ w.n \in DOMAIN hp
Filled(object, hp) == \A k \in DOMAIN object.fields : object.fields[k] \in DOMAIN hp

\* w is what k says, in a function that began when there were blow bindings.
Known(hp, w, k, blow) ==
  /\ IsReference(k) => IsRef(hp, w)
  /\ k.kind = "whnf" => hp[w.n].whnf
  /\ k.kind = "thunk" => hp[w.n].type = "thunk"
  /\ k.kind = "self" => /\ hp[w.n].type \in {"closure", "thunk"} /\ hp[w.n].n = k.n
                        /\ Filled(hp[w.n], hp)
  /\ k.kind = "variant" => hp[w.n].type = "object" /\ hp[w.n].n = k.n
  /\ k.kind = "new" => w.n = Len(hp)
  /\ k.kind = "address" => w = Raw(k.n)
  /\ k.kind = "depth" => w = Raw(blow + k.n)

-----------------------------------------------------------------------------
(***************************************************************************)
(* The heap.                                                               *)
(***************************************************************************)
IsObject(object) == object = Object(object.type, object.n, object.fields, object.link, object.whnf)
Shaped(object, hp, c, A) ==
  /\ IsObject(object)
  /\ object.link \in {0} \cup DOMAIN hp
  /\ object.fields \in Seq(Nat)
  /\ object.type \in {"closure", "thunk"} =>
       /\ object.n \in DOMAIN c.closures
       /\ Len(object.fields) = c.closures[object.n].capture_count
  /\ object.type = "thunk" => c.closures[object.n].arity = 0
  /\ object.type = "application" => object.link # 0 /\ hp[object.link].type = "closure"
  /\ object.type = "cons" => Len(object.fields) = 2
  /\ object.type = "object" => object.n \in DOMAIN A /\ Len(object.fields) = A[object.n]

\* The captures of the last object may not be written yet: they are null.
GoodHeap(hp, mode, c, A) ==
  /\ IsList(hp) /\ DOMAIN c.constants \subseteq DOMAIN hp
  /\ FALSE_BOX \in DOMAIN hp /\ hp[TRUE_BOX].n = 1 /\ hp[FALSE_BOX].n = 0
  /\ \A i \in DOMAIN hp :
       /\ Shaped(hp[i], hp, c, A)
       /\ Filled(hp[i], hp) \/ (IsMade(mode) /\ i = Len(hp))
       /\ \A k \in DOMAIN hp[i].fields : hp[i].fields[k] \in {0} \cup DOMAIN hp
  /\ IsMade(mode) => hp[Len(hp)].type = mode.kind /\ hp[Len(hp)].n = mode.n

\* The heap afterwards: what is known of the objects stays true.
Grows(hp, later) ==
  /\ Len(hp) <= Len(later)
  /\ \A i \in DOMAIN hp :
       /\ i \in DOMAIN later
       /\ later[i].type = hp[i].type /\ later[i].n = hp[i].n
       /\ hp[i].whnf => later[i].whnf
       /\ Filled(hp[i], hp) => Filled(later[i], later)

-----------------------------------------------------------------------------
(***************************************************************************)
(* Frames.  The words of a frame begin above base, its bindings above      *)
(* blow; low is the top of the frame below.  Between low and base are, for *)
(* a continuation, the arguments it will give and their number.            *)
(***************************************************************************)
Arguments(hp, st, low, base) ==
  /\ base \in Nat /\ base > low
  /\ st[base] = Raw(base - low - 1)
  /\ \A j \in (low + 1)..(base - 1) : IsRef(hp, st[j])
Underneath(hp, st, low, base, l) ==
  /\ low \in Nat
  /\ IF l.mode = APPLYING THEN Arguments(hp, st, low, base) ELSE base = low

AreWords(hp, st, base, blow, kinds, n) == \A i \in 1..n : Known(hp, st[base + i], kinds[i], blow)
AreBindings(hp, bs, blow, kinds) == \A i \in DOMAIN kinds : Known(hp, Val(bs[blow + i]), kinds[i], 0)

\* A frame waits at f.at for a value: in its place is the address.
Suspended(L, hp, st, bs, f) ==
  /\ f.at \in DOMAIN L
  /\ LET l == L[f.at]
     IN  /\ Waits(l)
         /\ Underneath(hp, st, f.low, f.base, l)
         /\ f.top = f.base + Len(l.words) /\ f.btop = f.blow + Len(l.binds) /\ f.blow \in Nat
         /\ AreWords(hp, st, f.base, f.blow, l.words, Len(l.words) - 1)
         /\ AreBindings(hp, bs, f.blow, l.binds)
         /\ st[f.top] = Raw(f.at)
TopOf(fr, i) == IF i = 0 THEN 0 ELSE fr[i].top
BindingsOf(fr, i) == IF i = 0 THEN 0 ELSE fr[i].btop

\* The frames 1..m, one on the other, below low and blow.
Stacked(L, hp, st, bs, fr, m, low, blow) ==
  /\ m \in Nat
  /\ low = TopOf(fr, m) /\ blow = BindingsOf(fr, m)
  /\ \A i \in 1..m :
       /\ Suspended(L, hp, st, bs, fr[i])
       /\ fr[i].low = TopOf(fr, i - 1) /\ fr[i].blow = BindingsOf(fr, i - 1)
       /\ fr[i].top <= low /\ fr[i].btop <= blow
       /\ L[fr[i].at].place = (IF i = 1 THEN "main" ELSE "function")
  /\ \A i, j \in 1..m : i < j => fr[i].top <= fr[j].low /\ fr[i].btop <= fr[j].blow

\* The frame that is executed, as l says.
Current(hp, st, bs, r1, low, base, blow, l) ==
  /\ Underneath(hp, st, low, base, l)
  /\ blow \in Nat
  /\ Len(st) = base + Len(l.words)
  /\ AreWords(hp, st, base, blow, l.words, Len(l.words))
  /\ IF l.mode = FAILING THEN Len(bs) >= blow + Len(l.binds) ELSE Len(bs) = blow + Len(l.binds)
  /\ AreBindings(hp, bs, blow, l.binds)
  /\ l.reg # NOTHING => Known(hp, r1, l.reg, 0)
  /\ l.mode.kind = "tested" =>
       /\ Len(l.words) >= 2
       /\ LET test == st[Len(st)]
              tested == hp[st[Len(st) - 1].n]
          IN  hp[test.n].n = 1 => tested.type = "object" /\ tested.n = l.mode.n

IsPlace(l, m) == l.place = (IF m = 0 THEN "main" ELSE "function")
Typed(hp, st, bs, r1, ex) ==
  /\ st \in Seq(Words) /\ \A n \in DOMAIN st : st[n].tag => st[n].n \in DOMAIN hp
  /\ bs \in Seq(Nat) /\ \A n \in DOMAIN bs : bs[n] \in DOMAIN hp
  /\ r1 \in Words /\ (r1.tag => r1.n \in DOMAIN hp)
  /\ ex \in Words /\ IsRef(hp, ex)

\* The machine is as the layout of address a says, on top of the frames 1..m.
InFrame(c, L, A, hp, st, bs, r1, ex, a, fr, m, low, base, blow) ==
  /\ a \in DOMAIN L
  /\ Typed(hp, st, bs, r1, ex)
  /\ GoodHeap(hp, L[a].mode, c, A)
  /\ Stacked(L, hp, st, bs, fr, m, low, blow)
  /\ Current(hp, st, bs, r1, low, base, blow, L[a])
  /\ IsPlace(L[a], m)
Kept(c, L, A, hp, st, bs, r1, ex, a) ==
  \E fr, m, low, base, blow : InFrame(c, L, A, hp, st, bs, r1, ex, a, fr, m, low, base, blow)
\* About to return, the machine is as it will be.
KeepsTo(c, L, A, hp, st, bs, r1, ex, a) ==
  /\ a \in DOMAIN L
  /\ IF L[a].mode = RETURNING
     THEN /\ st \in Seq(Words) /\ Len(st) >= 1 /\ ~st[Len(st)].tag
          /\ L[st[Len(st)].n].mode # RETURNING
          /\ Kept(c, L, A, hp, Drop(st, 1), bs, r1, ex, st[Len(st)].n)
     ELSE Kept(c, L, A, hp, st, bs, r1, ex, a)
=============================================================================
