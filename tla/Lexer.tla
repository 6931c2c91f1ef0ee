------------------------------- MODULE Lexer -------------------------------
(***************************************************************************)
(* lexer.c: from characters to tokens.  A source is a sequence of          *)
(* one-character strings.  A token is its kind, its decoded text and, for  *)
(* a template, its parts; kind "fatal" stands for the call of fatal() and  *)
(* ends the scan.  Positions and lines, which only messages use, are left  *)
(* out; the character classes hold the members the instances need.         *)
(***************************************************************************)
EXTENDS Integers, Sequences

IdentLetters == {"a", "b", "e", "f", "i", "n", "s", "x", "_"}
Digits  == {"0", "1", "7"}
HexDigits == Digits \cup {"a", "b", "e", "f"}
IdentChars == IdentLetters \cup Digits

(* The character at p, or the terminating NUL (peek, cur, eof). *)
Peek(s, p) == IF p \in 1..Len(s) THEN s[p] ELSE "NUL"
Eof(s, p)  == p > Len(s)

(* The first position from p on whose character is not in S. *)
Run(s, p, S) ==
  CHOOSE q \in p..(Len(s) + 1) :
    /\ \A r \in p..(q - 1) : s[r] \in S
    /\ Peek(s, q) \notin S

(* kw_lookup and the table of keywords, of which two stand for all. *)
Keywords == [fn |-> <<"f", "n">>, if |-> <<"i", "f">>]
kw_lookup(w) ==
  IF \E k \in DOMAIN Keywords : Keywords[k] = w
  THEN CHOOSE k \in DOMAIN Keywords : Keywords[k] = w
  ELSE "ident"

(***************************************************************************)
(* Blanks and comments.  An unterminated block comment runs to the end.    *)
(***************************************************************************)
LineEnd(s, p) ==
  CHOOSE q \in p..(Len(s) + 1) :
    /\ Peek(s, q) \in {"\n", "NUL"}
    /\ \A r \in p..(q - 1) : s[r] # "\n"

BlockEnd(s, p) ==
  LET ends == {q \in p..Len(s) : s[q] = "*" /\ Peek(s, q + 1) = "/"}
  IN IF ends = {} THEN Len(s) + 1
     ELSE (CHOOSE q \in ends : \A r \in ends : q <= r) + 2

RECURSIVE skip_trivia(_, _)
skip_trivia(s, p) ==
  CASE Peek(s, p) = " " -> skip_trivia(s, p + 1)
    [] Peek(s, p) = "/" /\ Peek(s, p + 1) = "/" -> skip_trivia(s, LineEnd(s, p))
    [] Peek(s, p) = "#" /\ Peek(s, p + 1) # "[" -> skip_trivia(s, LineEnd(s, p))
    [] Peek(s, p) = "/" /\ Peek(s, p + 1) = "*" -> skip_trivia(s, BlockEnd(s, p + 2))
    [] OTHER -> p

(***************************************************************************)
(* Numbers: the kind and the position behind them.  An exponent without a  *)
(* digit is given back.                                                    *)
(***************************************************************************)
DigitRun(s, p) == Run(s, p, Digits \cup {"_"})

lex_number(s, p) ==
  IF Peek(s, p) = "0" /\ Peek(s, p + 1) = "x"
  THEN [kind |-> "int", next |-> Run(s, p + 2, HexDigits)]
  ELSE IF Peek(s, p) = "0" /\ Peek(s, p + 1) = "b"
  THEN [kind |-> "int", next |-> Run(s, p + 2, {"0", "1"})]
  ELSE
    LET whole == DigitRun(s, p)
        frac  == IF Peek(s, whole) = "." /\ Peek(s, whole + 1) \in Digits
                 THEN DigitRun(s, whole + 1) ELSE whole
        sign  == IF Peek(s, frac + 1) \in {"+", "-"} THEN frac + 2 ELSE frac + 1
        exp   == IF Peek(s, frac) = "e" /\ Peek(s, sign) \in Digits
                 THEN Run(s, sign, Digits) ELSE frac
    IN [kind |-> IF exp > whole THEN "float" ELSE "int", next |-> exp]

(***************************************************************************)
(* Strings.  QuoteEnd is the closing quote of a string nested in an        *)
(* interpolation, BraceEnd the brace that closes the interpolation, as     *)
(* lex_next looks for them to find the end of the literal.                 *)
(***************************************************************************)
RECURSIVE QuoteEnd(_, _, _)
QuoteEnd(s, p, q) ==
  IF Eof(s, p) \/ s[p] = q THEN p
  ELSE QuoteEnd(s, IF s[p] = "\\" THEN p + 2 ELSE p + 1, q)

RECURSIVE BraceEnd(_, _, _)
BraceEnd(s, p, depth) ==
  IF Eof(s, p) THEN p
  ELSE CASE s[p] \in {"\"", "'"} -> BraceEnd(s, QuoteEnd(s, p + 1, s[p]) + 1, depth)
         [] s[p] = "{" -> BraceEnd(s, p + 1, depth + 1)
         [] s[p] = "}" -> IF depth = 1 THEN p ELSE BraceEnd(s, p + 1, depth - 1)
         [] OTHER -> BraceEnd(s, p + 1, depth)

StartsVar(s, p) == Peek(s, p) = "$" /\ Peek(s, p + 1) \in IdentLetters
StartsExpr(s, p) == Peek(s, p) = "{" /\ Peek(s, p + 1) = "$"

(* lex_next, the loop over a double-quoted literal. *)
RECURSIVE ScanString(_, _, _)
ScanString(s, p, interp) ==
  IF Eof(s, p) \/ s[p] = "\"" THEN [quote |-> p, interp |-> interp]
  ELSE CASE s[p] = "\\" -> ScanString(s, p + 2, interp)
         [] StartsExpr(s, p) -> ScanString(s, BraceEnd(s, p + 1, 1) + 1, TRUE)
         [] OTHER -> ScanString(s, p + 1, interp \/ StartsVar(s, p))

(* The character an escape stands for; any other keeps its backslash. *)
Escapes == [c \in {"n", "0", "\\", "\"", "'", "$"} |->
              CASE c = "n" -> "\n" [] c = "0" -> "NUL" [] OTHER -> c]

(* What strlen leaves of a decoded string. *)
CString(b) == SubSeq(b, 1, Run(b, 1, {b[i] : i \in DOMAIN b} \ {"NUL"}) - 1)

RECURSIVE unescape(_)
unescape(b) ==
  IF b = <<>> THEN <<>>
  ELSE IF b[1] = "\\" /\ Len(b) > 1
  THEN (IF b[2] \in DOMAIN Escapes THEN <<Escapes[b[2]]>> ELSE <<"\\", b[2]>>)
       \o unescape(SubSeq(b, 3, Len(b)))
  ELSE <<b[1]>> \o unescape(Tail(b))

(* The same search once more, by lex_template_parts and within the body alone. *)
RECURSIVE PartQuote(_, _, _)
PartQuote(b, j, q) ==
  IF j > Len(b) \/ b[j] = q THEN j
  ELSE PartQuote(b, IF b[j] = "\\" /\ j < Len(b) THEN j + 2 ELSE j + 1, q)

RECURSIVE SlipPartEnd(_, _, _)
SlipPartEnd(b, j, depth) ==
  IF j > Len(b) THEN j
  ELSE CASE b[j] = "{" -> SlipPartEnd(b, j + 1, depth + 1)
         [] b[j] = "}" -> IF depth = 1 THEN j ELSE SlipPartEnd(b, j + 1, depth - 1)
         [] OTHER -> SlipPartEnd(b, j + 1, depth)

RECURSIVE PartEnd(_, _, _)
PartEnd(b, j, depth) ==
  IF j > Len(b) THEN j
  ELSE CASE b[j] = "{" -> PartEnd(b, j + 1, depth + 1)
         [] b[j] = "}" -> IF depth = 1 THEN j ELSE PartEnd(b, j + 1, depth - 1)
         [] b[j] \in {"\"", "'"} -> PartEnd(b, PartQuote(b, j + 1, b[j]) + 1, depth)
         [] OTHER -> PartEnd(b, j + 1, depth)

(***************************************************************************)
(* The parts of a template: chunks of text, variables and expressions.     *)
(* The parser lexes the source of an expression again.                     *)
(***************************************************************************)
RECURSIVE Parts(_, _, _)
Parts(b, i, chunk) ==
  IF i > Len(b) THEN <<[text |-> CString(chunk)]>>
  ELSE CASE b[i] = "\\" /\ i < Len(b) ->
              Parts(b, i + 2, chunk \o (IF b[i + 1] \in DOMAIN Escapes \ {"'"}
                                        THEN <<Escapes[b[i + 1]]>>
                                        ELSE <<"\\", b[i + 1]>>))
         [] StartsVar(b, i) ->
              LET j == Run(b, i + 1, IdentChars)
              IN <<[text |-> CString(chunk)], [var |-> SubSeq(b, i + 1, j - 1)]>> \o Parts(b, j, <<>>)
         [] StartsExpr(b, i) ->
              LET j == PartEnd(b, i + 1, 1)
              IN <<[text |-> CString(chunk)], [expr |-> SubSeq(b, i + 1, j - 1)]>>
                 \o Parts(b, j + 1, <<>>)
         [] OTHER -> Parts(b, i + 1, Append(chunk, b[i]))

lex_template_parts(b) == Parts(b, 1, <<>>)

DoubleQuoted(s, p) ==
  LET end  == ScanString(s, p + 1, FALSE)
      body == SubSeq(s, p + 1, end.quote - 1)
  IN IF Eof(s, end.quote) THEN [kind |-> "fatal", text |-> <<>>, next |-> Len(s) + 1]
     ELSE IF end.interp
     THEN [kind |-> "tpl", text |-> body, next |-> end.quote + 1,
           parts |-> lex_template_parts(body)]
     ELSE [kind |-> "str", text |-> CString(unescape(body)), next |-> end.quote + 1]

(* Single quotes: only \' and \\ are escapes. *)
RECURSIVE UnescapeSingle(_)
UnescapeSingle(b) ==
  IF b = <<>> THEN <<>>
  ELSE IF b[1] = "\\" /\ Len(b) > 1 /\ b[2] \in {"'", "\\"}
  THEN <<b[2]>> \o UnescapeSingle(SubSeq(b, 3, Len(b)))
  ELSE <<b[1]>> \o UnescapeSingle(Tail(b))

SingleQuoted(s, p) ==
  LET quote == QuoteEnd(s, p + 1, "'")
  IN IF Eof(s, quote) THEN [kind |-> "fatal", text |-> <<>>, next |-> Len(s) + 1]
     ELSE [kind |-> "str", text |-> UnescapeSingle(SubSeq(s, p + 1, quote - 1)),
           next |-> quote + 1]

(***************************************************************************)
(* Operators and punctuation: the number of characters the switch of       *)
(* lex_next consumes at p.  Two dots that no third follows are one T_DOT.  *)
(***************************************************************************)
Singles == {"(", ")", "[", "]", "{", "}", ",", ";", "@", "\\", "^", "~", "\n"}

OperatorLength(s, p) ==
  LET c == s[p]
      d == Peek(s, p + 1)
      e == Peek(s, p + 2)
  IN CASE c \in Singles -> 1
       [] c = "#" -> IF d = "[" THEN 2 ELSE 1
       [] c \in {":", "&", "|"} -> IF d = c THEN 2 ELSE 1
       [] c = "+" -> IF d \in {"+", "="} THEN 2 ELSE 1
       [] c = "-" -> IF d \in {">", "-", "="} THEN 2 ELSE 1
       [] c = "*" -> IF d \in {"*", "="} THEN 2 ELSE 1
       [] c \in {"/", "%"} -> IF d = "=" THEN 2 ELSE 1
       [] c = "=" -> IF d = "=" THEN (IF e = "=" THEN 3 ELSE 2)
                     ELSE IF d = ">" THEN 2 ELSE 1
       [] c = "!" -> IF d = "=" THEN (IF e = "=" THEN 3 ELSE 2) ELSE 1
       [] c = "<" -> IF d = "=" THEN (IF e = ">" THEN 3 ELSE 2)
                     ELSE IF d = "<" THEN (IF e = "=" THEN 3 ELSE 2)
                     ELSE IF d = ">" THEN 2 ELSE 1
       [] c = ">" -> IF d = ">" THEN (IF e = "=" THEN 3 ELSE 2)
                     ELSE IF d = "=" THEN 2 ELSE 1
       [] c = "." -> IF d = "=" THEN 2
                     ELSE IF d = "." THEN (IF e = "." THEN 3 ELSE 2) ELSE 1
       [] c = "?" -> IF d = "?" THEN (IF e \in {"=", ":"} THEN 3 ELSE 2) ELSE 1
       [] OTHER -> 0

(* lex_next: one token at p, where trivia has been skipped. *)
lex_next(s, p) ==
  LET c == s[p]
  IN CASE c \in IdentLetters ->
            LET q == Run(s, p, IdentChars)
            IN [kind |-> kw_lookup(SubSeq(s, p, q - 1)), text |-> SubSeq(s, p, q - 1), next |-> q]
       [] c \in Digits \/ (c = "." /\ Peek(s, p + 1) \in Digits) ->
            LET n == lex_number(s, p)
            IN [kind |-> n.kind, text |-> SubSeq(s, p, n.next - 1), next |-> n.next]
       [] c = "\"" -> DoubleQuoted(s, p)
       [] c = "'" -> SingleQuoted(s, p)
       [] c = "$" ->
            IF StartsVar(s, p)
            THEN LET q == Run(s, p + 1, IdentChars)
                 IN [kind |-> "var", text |-> SubSeq(s, p + 1, q - 1), next |-> q]
            ELSE [kind |-> "fatal", text |-> <<>>, next |-> Len(s) + 1]
       [] OTHER ->
            LET n == OperatorLength(s, p)
            IN IF n = 0 THEN [kind |-> "fatal", text |-> <<>>, next |-> Len(s) + 1]
               ELSE [kind |-> "op", text |-> SubSeq(s, p, p + n - 1), next |-> p + n]

(* The loop of lex_all over lex_next. *)
RECURSIVE TokensFrom(_, _)
TokensFrom(s, p) ==
  LET q == skip_trivia(s, p)
  IN IF Eof(s, q) THEN <<>>
     ELSE LET t == lex_next(s, q) IN <<t>> \o TokensFrom(s, t.next)

Tokens(s) == TokensFrom(s, 1)
=============================================================================
