------------------------------ MODULE Streams ------------------------------
(***************************************************************************)
(* The files and streams of the C library as call_extern_function uses them.*)
(* A world holds the streams that were ever opened, what the files contain, *)
(* and the calls that were made, in order.  Texts are sequences of numbers, *)
(* a number being a line; paths are numbers.  What is written to a stream   *)
(* becomes the contents of its file when it is closed (outputs are shorter  *)
(* than a buffer); no program of the runs has two streams on one file open. *)
(* The standard streams are files, so that fseek and ftell work on them.    *)
(***************************************************************************)
EXTENDS Integers, SequencesExt

\* The modes of fopen, as the library numbers them: "rb", "wb", "ab", "rb+".
RB == 0
WB == 1
AB == 2
RB_PLUS == 3

Stream(path, mode, text) ==
  [path |-> path, mode |-> mode, text |-> text, pos |-> 0, open |-> TRUE, error |-> FALSE]

\* stdin, stdout and stderr are the first streams; their paths are nobody's.
STDIN == 1
STDOUT == 2
STDERR == 3
\* With files, a function from paths to texts; paths at which no file can be made;
\* and what can be read from stdin.
World(files, unwritable, input) ==
  [streams |-> << Stream(-1, RB, input), Stream(-2, AB, <<>>), Stream(-3, AB, <<>>) >>,
   files |-> files, unwritable |-> unwritable, events |-> <<>>]

\* Something the outside sees: a call on a stream or a path, with a text.
Shown(w, call, on, text) == [w EXCEPT !.events = Append(@, [call |-> call, on |-> on, text |-> text])]

CanOpen(w, path, mode) ==
  IF mode \in {WB, AB} THEN path \notin w.unwritable ELSE path \in DOMAIN w.files
TextAtOpening(w, path, mode) == IF mode = WB \/ path \notin DOMAIN w.files THEN <<>> ELSE w.files[path]
\* The new stream is the last one; without one the streams are as before.
fopen(w, path, mode) ==
  LET called == Shown(w, "fopen", path, <<mode>>)
      text == TextAtOpening(w, path, mode)
  IN  IF ~CanOpen(w, path, mode) THEN called
      ELSE [called EXCEPT !.streams = Append(@, Stream(path, mode, text)),
                          !.files = (path :> text) @@ @]

fclose(w, n) ==
  [Shown(w, "fclose", n, <<>>) EXCEPT !.streams[n].open = FALSE,
                                     !.files = (w.streams[n].path :> w.streams[n].text) @@ @]

Overwritten(text, pos, by) ==
  SubSeq(text, 1, pos) \o by \o SubSeq(text, pos + Len(by) + 1, Len(text))
fprintf(w, n, text) ==
  LET s == w.streams[n]
      pos == IF s.mode = AB THEN Len(s.text) ELSE s.pos
      called == Shown(w, "fprintf", n, text)
  IN  IF s.mode = RB THEN [called EXCEPT !.streams[n].error = TRUE]
      ELSE [called EXCEPT !.streams[n].text = Overwritten(@, pos, text),
                          !.streams[n].pos = pos + Len(text)]

WriteOnly(w, n) == w.streams[n].mode \in {WB, AB}
\* What getline leaves at the end and after an error: a length of -1, and no text.
NO_LINE == <<-1>>
Line(w, n) ==
  LET s == w.streams[n]
  IN  IF WriteOnly(w, n) \/ s.pos = Len(s.text) THEN NO_LINE ELSE <<s.text[s.pos + 1]>>
getline(w, n) ==
  LET called == Shown(w, "getline", n, <<>>)
  IN  IF WriteOnly(w, n) THEN [called EXCEPT !.streams[n].error = TRUE]
      ELSE [called EXCEPT !.streams[n].pos = Min({@ + 1, Len(w.streams[n].text)})]

\* fseek, ftell, rewind and fread: everything from the beginning.
Contents(w, n) == IF WriteOnly(w, n) THEN <<>> ELSE w.streams[n].text
fread_all(w, n) ==
  [Shown(w, "fread", n, <<>>) EXCEPT !.streams[n].error = WriteOnly(w, n),
                                    !.streams[n].pos = Len(Contents(w, n))]

ferror(w, n) == w.streams[n].error
clearerr(w, n) == [w EXCEPT !.streams[n].error = FALSE]
=============================================================================
