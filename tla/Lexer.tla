------------------------------- MODULE Lexer -------------------------------
(***************************************************************************)
(* lexer.c: the tokens of a source.                                        *)
(*                                                                         *)
(* A source is a sequence of characters, numbered from 1, with EOF_CHAR    *)
(* behind its last one.  The state of the lexer is                         *)
(*   [src, token_start, current, line]                                     *)
(* where current is the next character; it is never to pass EOF_CHAR.  A   *)
(* token is [type, text, line]; its type is the TOKEN_ constant without    *)
(* the prefix.                                                             *)
(***************************************************************************)
EXTENDS Integers, Sequences, TLC

CONSTANTS Letters, Digits     \* the characters of identifiers and of numbers

\* Two characters that are not written as themselves: EOF_CHAR, and a backtick, "tick".
EOF_CHAR == "EOF"

\* is_alpha and is_digit
IdentChars == Letters \cup {"_"}
\* is_custom_op_start
OpChars == {"=", ">", "<", "@", "&", "$", "+", "-", "/", "*", "^", "%", "|", ":", "#"}

Keywords ==
     <<"i", "f">> :> "IF" @@ <<"i", "n">> :> "IN" @@ <<"t", "h", "e", "n">> :> "THEN"
  @@ <<"t", "r", "u", "e">> :> "TRUE" @@ <<"t", "y", "p", "e">> :> "TYPE"
  @@ <<"e", "l", "s", "e">> :> "ELSE" @@ <<"c", "a", "s", "e">> :> "CASE"
  @@ <<"l", "e", "t">> :> "LET" @@ <<"f", "u", "n">> :> "FUN"
  @@ <<"f", "a", "l", "s", "e">> :> "FALSE" @@ <<"a", "n", "d">> :> "AND"
  @@ <<"o", "r">> :> "OR" @@ <<"o", "f">> :> "OF" @@ <<"n", "o", "t">> :> "NOT"
  @@ <<"m", "o", "d">> :> "MOD" @@ <<"u", "s", "e">> :> "USE"
  @@ <<"w", "i", "t", "h">> :> "WITH" @@ <<"_">> :> "UNDERSCORE"

\* Characters that are tokens whatever follows them.
Punctuation ==
     ")" :> "R_PAREN" @@ "[" :> "L_BRACKET" @@ "]" :> "R_BRACKET" @@ "{" :> "L_BRACE"
  @@ "}" :> "R_BRACE" @@ "tick" :> "BACKTICK"
\* Characters that are tokens unless a character of OpChars follows, and pairs.
Operators ==
     ";" :> "SEMICOLON" @@ "|" :> "PIPE" @@ "=" :> "EQ" @@ ">" :> "GREATER" @@ "<" :> "LESS"
  @@ "." :> "DOT" @@ "+" :> "ADD" @@ "-" :> "SUB" @@ "*" :> "MUL" @@ "/" :> "DIV"
  @@ "$" :> "FORCE" @@ "@" :> "ATTR" @@ ":" :> "COLON"
Pairs ==
     <<"=", "=">> :> "EQUAL" @@ <<"=", ">">> :> "WIDE_ARROW" @@ <<">", "=">> :> "GREATER_EQ"
  @@ <<"<", "=">> :> "LESS_EQ" @@ <<".", ".">> :> "TWO_DOT" @@ <<"-", ">">> :> "ARROW"
  @@ <<":", ":">> :> "DOUBLE_COLON"

-----------------------------------------------------------------------------
init_lexer(src) == [src |-> src, token_start |-> 1, current |-> 1, line |-> 1]

peek(l) == IF l.current <= Len(l.src) THEN l.src[l.current] ELSE EOF_CHAR
peek_next(l) == IF l.current < Len(l.src) THEN l.src[l.current + 1] ELSE EOF_CHAR
at_end(l) == peek(l) = EOF_CHAR
consume_char(l) == [l EXCEPT !.current = @ + 1]
Overrun(l) == l.current > Len(l.src) + 1

\* Consumes the characters up to the first one that is not in chars, and up to the
\* end of the line.
Stops(l, i, chars) == i > Len(l.src) \/ l.src[i] \notin chars
consume_all(l, chars) ==
  [l EXCEPT !.current =
     CHOOSE i \in l.current..(Len(l.src) + 1) :
       Stops(l, i, chars) /\ \A j \in l.current..(i - 1) : ~Stops(l, j, chars)]
\* Mutant: the character that ends the line is consumed too.
consume_line_Past(l) == consume_char([l EXCEPT !.current =
     CHOOSE i \in l.current..(Len(l.src) + 1) :
       (i > Len(l.src) \/ l.src[i] = "\n") /\ \A j \in l.current..(i - 1) : l.src[j] # "\n"])
consume_line(l) ==
  [l EXCEPT !.current =
     CHOOSE i \in l.current..(Len(l.src) + 1) :
       /\ i > Len(l.src) \/ l.src[i] = "\n"
       /\ \A j \in l.current..(i - 1) : l.src[j] # "\n"]

RECURSIVE skip_whitespace(_)
skip_whitespace(l) ==
  CASE peek(l) \in {" ", "\r", "\t"} -> skip_whitespace(consume_char(l))
    [] peek(l) = "\n" -> skip_whitespace([consume_char(l) EXCEPT !.line = @ + 1])
    [] peek(l) = "-" /\ peek_next(l) = "-" -> skip_whitespace(consume_line(l))
    [] OTHER -> l

text(l) == SubSeq(l.src, l.token_start, l.current - 1)
Lexed(l, type) == [token |-> [type |-> type, text |-> text(l), line |-> l.line], lexer |-> l]
\* The text of an error token is a message, not a part of the source.
make_error(l) == [token |-> [type |-> "ERROR", text |-> <<>>, line |-> l.line], lexer |-> l]

identifier_type(name) == IF name \in DOMAIN Keywords THEN Keywords[name] ELSE "IDENT"
ident(l) == LET end == consume_all(l, IdentChars \cup Digits) IN Lexed(end, identifier_type(text(end)))

try_custom_op(l, type) ==
  LET end == consume_all(l, OpChars) IN Lexed(end, IF end = l THEN type ELSE "CUSTOM_OP")

\* Consumes the character behind a backslash with it.
consume_escaped(l) == consume_char(IF peek(l) = "\\" THEN consume_char(l) ELSE l)
char_token(l) ==
  LET quote == consume_escaped(l)
  IN IF peek(quote) = "'" THEN Lexed(consume_char(quote), "CHAR") ELSE make_error(quote)

\* Mutant: the newlines of a string are not counted.
string_line_Same(l) == l.line
string_line(l) == IF peek(l) = "\n" THEN l.line + 1 ELSE l.line
RECURSIVE string_token(_)
string_token(l) ==
  CASE Overrun(l) -> make_error(l)
    [] ~Overrun(l) /\ at_end(l) -> make_error(l)
    [] peek(l) = "\"" -> Lexed(consume_char(l), "STRING")
    [] OTHER -> string_token([consume_escaped(l) EXCEPT !.line = string_line(l)])

token_at(start) ==
  LET c == peek(start)
      l == consume_char(start)
  IN CASE at_end(start) -> Lexed(start, "EOF")
       [] c \in IdentChars -> ident(l)
       [] c \in Digits -> Lexed(consume_all(l, Digits \cup {"_"}), "NUM")
       [] c = "(" -> IF peek(l) = ")" THEN Lexed(consume_char(l), "UNIT") ELSE Lexed(l, "L_PAREN")
       [] c \in DOMAIN Punctuation -> Lexed(l, Punctuation[c])
       [] c \in DOMAIN Operators ->
            IF <<c, peek(l)>> \in DOMAIN Pairs
            THEN try_custom_op(consume_char(l), Pairs[<<c, peek(l)>>])
            ELSE try_custom_op(l, Operators[c])
       [] c = "'" -> char_token(l)
       [] c = "\"" -> string_token(l)
       [] OTHER -> Lexed(l, "ERROR")
begin_token(l) == [l EXCEPT !.token_start = l.current]
next_token(lexer) == token_at(begin_token(skip_whitespace(lexer)))
=============================================================================
