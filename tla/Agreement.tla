----------------------------- MODULE Agreement -----------------------------
(***************************************************************************)
(* The results of the machine and what the programs mean: what an object   *)
(* of the heap says about the value it stands for.                         *)
(***************************************************************************)
EXTENDS Execution

\* The value of a thunk, once it has been written.
Followed(i) == IF heap[i].type = "thunk" /\ heap[i].link # 0 THEN heap[i].link ELSE i

\* The object has its final form.
Settled(i) ==
  CASE heap[i].type = "thunk" -> FALSE
    [] heap[i].type = "application" -> ~Saturated(i)
    [] OTHER -> TRUE

\* What is evaluated of object i is what the value v says, as deep as v goes.
RECURSIVE Represents(_, _)
Represents(i, v) ==
  LET o == heap[Followed(i)]
  IN  v.kind # "cut" /\ Settled(Followed(i)) =>
        /\ v.kind = o.type
        /\ o.type \in BoxTypes => v.n = o.n
        /\ o.type = "object" => source.variant[v.name] = o.n
        /\ o.type \in {"cons", "object", "application"} =>
             /\ Len(o.fields) = Len(v.fields)
             /\ \A n \in DOMAIN v.fields : Represents(o.fields[n], v.fields[n])

\* The machine computes what the program means: it ends with the value of the
\* program in weak head normal form, everything in it that was evaluated being
\* as it should be, and stops with an error only when the program is in error.
Agrees ==
  /\ status = "ok" =>
       /\ Settled(Word(0).n)
       /\ Represents(Word(0).n, source.meaning)
  /\ status = "error" => source.meaning.kind = "error"
=============================================================================
