------------------------------ MODULE FrontEnd -----------------------------
(***************************************************************************)
(* An author writes a program and the front end reads it.  The author      *)
(* follows the precedence table at the head of parser.c, puts in only the  *)
(* parentheses that table asks for, and knows which tree is meant.         *)
(***************************************************************************)
EXTENDS Lexer, Parser, SequencesExt

CONSTANTS MaxGrowth,      \* how often an expression or a statement is built upon
          MaxChars,       \* the characters of a literal or of a run of operators
          Careful         \* whether the author avoids what a typed declaration hides

ASSUME GrowthAssumption == MaxGrowth \in Nat /\ MaxChars \in Nat /\ Careful \in BOOLEAN

VARIABLES mode,           \* what is being written: "expr", "stmt", "string" or "operators"; "blank" before that
          work            \* the tokens with their tree and precedence, or the characters

frontVars == <<mode, work>>

(* The documented precedence, low to high. *)
PAssign == 1
PTern   == 2
PBin(l) == l + 2
PPow    == 14
PUnary  == 15
PPost   == 16

Node(text, tree, prec) == [text |-> text, tree |-> tree, prec |-> prec, size |-> 0]

(* e where at least precedence p is needed. *)
Sub(e, p) == IF e.prec >= p THEN e.text ELSE <<"(">> \o e.text \o <<")">>

Binary(l, op, lvl, r) ==
  Node(Sub(l, PBin(lvl)) \o <<op>> \o Sub(r, PBin(lvl) + 1), <<"bin", op>> \o l.tree \o r.tree,
       PBin(lvl))
Power(l, r) ==
  Node(Sub(l, PUnary) \o <<"**">> \o Sub(r, PPow), <<"bin", "**">> \o l.tree \o r.tree, PPow)
Unary(op, tree, e) == Node(<<op>> \o Sub(e, PUnary), tree \o e.tree, PUnary)
Coalesce(l, r) ==
  Node(Sub(l, PBin(1)) \o <<"??">> \o Sub(r, PTern), <<"bin", "??">> \o l.tree \o r.tree, PTern)
Assign(l, op, r) ==
  Node(l.text \o <<op>> \o Sub(r, IF op = "??=" THEN PTern ELSE PAssign),
       <<"assign", op>> \o l.tree \o <<"-">> \o r.tree, PAssign)

(* A variable before a ':' and the start of a type may read as a declaration: a careful
   author puts a branch that ends in one in parentheses. *)
Ternary(c, t, e) ==
  LET hidden == Last(t.text) \in VarNames /\ Head(Sub(e, PTern)) \in StartsType
      then   == IF Careful /\ hidden THEN <<"(">> \o t.text \o <<")">> ELSE Sub(t, PAssign)
  IN Node(Sub(c, PBin(1)) \o <<"?">> \o then \o <<":">> \o Sub(e, PTern),
          <<"tern">> \o c.tree \o t.tree \o e.tree, PTern)

VarA == Node(<<"$a">>, <<"var", "$a">>, 17)
VarB == Node(<<"$b">>, <<"var", "$b">>, 17)
One  == Node(<<"1">>, <<"int", "1">>, 17)
Sum  == Binary(VarB, "+", 10, One)
Call == Node(<<"f", "(", "$b", ",", "1", ")">>, <<"call", "name", "f", "var", "$b", "int", "1", "end">>, 17)
Atoms == {VarA, One, Call,
  Node(<<"[", "1", ",", "'s'", "=>", "$a", ",", "]">>,
       <<"array", "int", "1", "end", "str", "'s'", "var", "$a", "end">>, 17),
  Node(<<"fn", "(", "int", "$b", ")", "use", "(", "&", "$k", ")", "{", "return", "$b", ";", "}">>,
       <<"closure", "param", "$b", "byval", "const", "one", "int", "-", "end", "useref", "$k", "end",
         "-", "return", "var", "$b", "end">>, 17),
  Node(<<"match", "(", "$a", ")", "{", "1", ",", "2", "=>", "$b", ",", "else", "=>", "null", "}">>,
       <<"match", "var", "$a", "arm", "int", "1", "int", "2", "var", "$b", "default", "null", "null",
         "end">>, 17)}
Places == {VarA, Node(<<"$a", "[", "]">>, <<"index", "var", "$a", "-">>, PPost)}

(* One operator of each binary level. *)
LevelOp == << "||", "&&", "|", "^", "&", "===", "<=", ".", ">>", "-", "*" >>

(* What can be built around e in one step. *)
Around(e) ==
  UNION {
    UNION {{Binary(e, LevelOp[l], l, Sum), Binary(Sum, LevelOp[l], l, e)} : l \in DOMAIN LevelOp},
    {Power(e, One), Power(One, e), Coalesce(e, Sum), Coalesce(One, e)},
    {Unary("-", <<"un", "-">>, e), Unary("!", <<"un", "!">>, e), Unary("*", <<"deref">>, e)},
    {Ternary(e, One, VarB), Ternary(One, e, Call), Ternary(VarB, One, e)},
    {Assign(p, "=", e) : p \in Places}, {Assign(VarB, "??=", e), Assign(VarB, ".=", e)},
    {Node(Sub(e, PPost) \o <<"[">> \o Sum.text \o <<"]">>, <<"index">> \o e.tree \o Sum.tree, PPost),
     Node(Sub(e, PPost) \o <<"[", "1", "...", "]">>, <<"slice">> \o e.tree \o <<"int", "1", "-">>, PPost),
     Node(Sub(e, PPost) \o <<"->", "m">>, <<"field", "m">> \o e.tree, PPost),
     Node(Sub(e, PPost) \o <<"->", "m", "(">> \o e.text \o <<")">>,
          <<"method", "m">> \o e.tree \o e.tree \o <<"end">>, PPost),
     Node(Sub(e, PPost) \o <<"as", "Map", "<", "int", ",", "[", "C", "]", ">">>,
          <<"cast">> \o e.tree \o <<"Map", "int", "array", "class", "C">>, PPost),
     Node(<<"new", "C", "(">> \o e.text \o <<")">>, <<"new", "C">> \o e.tree \o <<"end">>, 17),
     Node(<<"(">> \o e.text \o <<",", "1", ")">>, <<"tuple">> \o e.tree \o <<"int", "1", "end">>, 17)} }

(***************************************************************************)
(* Statements.  loose says that a break stands in no loop of the text: the *)
(* program has to be rejected until a loop is put around it.               *)
(***************************************************************************)
Stmt(text, tree, loose) == [text |-> text, tree |-> tree, loose |-> loose, size |-> 0]

Simple == {
  Stmt(<<"echo", "1", ",", "$a", ";">>, <<"echo", "int", "1", "var", "$a", "end">>, FALSE),
  Stmt(<<"$a", "++", "\n">>, <<"expr", "assign", "=", "var", "$a", "-", "bin", "+", "var", "$a", "int", "1">>,
       FALSE),
  Stmt(<<"let", "mut", "$a", ":", "int", "=", "1", "\n">>, <<"let", "$a", "int", "int", "1">>, FALSE),
  Stmt(<<"$a", ":", "fn", "(", "int", ")", "->", "C", "=", "$b", ";">>,
       <<"expr", "assign", "=", "var", "$a", "fntype", "int", "end", "class", "C", "var", "$b">>, FALSE),
  Stmt(<<"return", "\n">>, <<"return", "-">>, FALSE),
  Stmt(<<"break", ";">>, <<"break">>, TRUE),
  Stmt(<<"throw", "$a", ";">>, <<"throw", "var", "$a">>, FALSE)}
Mark == Stmt(<<"$b", "=", "2", ";">>, <<"expr", "assign", "=", "var", "$b", "-", "int", "2">>, FALSE)

Braced(s) == <<"{", "\n">> \o s.text \o <<"}">>

Enclosed(s) == {
  Stmt(s.text \o Mark.text, s.tree \o Mark.tree, s.loose),
  Stmt(<<"if", "(", "$a", ")">> \o Braced(Mark) \o <<"elseif", "(", "$b", ")">> \o Braced(s)
         \o <<"\n", "else">> \o Braced(Mark),
       <<"if", "var", "$a">> \o Mark.tree \o <<"end", "if", "var", "$b">> \o s.tree \o <<"end">> \o Mark.tree
         \o <<"end", "end">>, s.loose),
  Stmt(<<"while", "(", "$a", ")", "\n">> \o Braced(s), <<"while", "var", "$a">> \o s.tree \o <<"end">>, FALSE),
  Stmt(<<"do">> \o Braced(s) \o <<"while", "(", "$a", ")", ";">>,
       <<"do">> \o s.tree \o <<"end", "var", "$a">>, FALSE),
  Stmt(<<"for", "(", "$a", "=", "1", ";", "$a", "<", "2", ";", "$a", "++", ")">> \o Braced(s),
       <<"for", "expr", "assign", "=", "var", "$a", "-", "int", "1", "end", "bin", "<", "var", "$a", "int", "2",
         "expr", "assign", "=", "var", "$a", "-", "bin", "+", "var", "$a", "int", "1", "end">>
         \o s.tree \o <<"end">>, FALSE),
  Stmt(<<"foreach", "(", "$a", "as", "$k", "=>", "$b", ")">> \o Braced(s),
       <<"foreach", "var", "$a", "$k", "$b">> \o s.tree \o <<"end">>, FALSE),
  Stmt(<<"switch", "(", "$a", ")", "{", "\n", "case", "1", ":", "\n">> \o s.text
         \o <<"default", ":">> \o Mark.text \o <<"}">>,
       <<"switch", "var", "$a", "case", "int", "1">> \o s.tree \o <<"end", "default">> \o Mark.tree
         \o <<"end", "end">>, FALSE),
  Stmt(<<"try">> \o Braced(s) \o <<"catch", "(", "C", "$a", ")">> \o Braced(Mark) \o <<"finally">> \o Braced(s),
       <<"try">> \o s.tree \o <<"end", "catch", "$a", "class", "C">> \o Mark.tree \o <<"end", "end">> \o s.tree
         \o <<"end">>, s.loose),
  Stmt(<<"unsafe">> \o Braced(s), <<"unsafe">> \o s.tree \o <<"end">>, s.loose) }

(* Declarations around a statement end the program. *)
Declared(s) == {
  Stmt(<<"fn", "f", "(", "mut", "int", "$a", ",", "array", "&", "$b", "=", "1", ")", ":", "int">> \o Braced(s),
       <<"fn", "f", "param", "$a", "byval", "mut", "one", "int", "-", "param", "$b", "byref", "mut", "one", "array",
         "mixed", "int", "1", "end", "int">> \o s.tree \o <<"end">>, s.loose),
  Stmt(<<"class", "C", "extends", "D", "{", "\n", "private", "int", "$a", "=", "1", ";", "static", "fn", "m",
         "(", ")">> \o Braced(s) \o <<"}", "\n", "enum", "D", "{", "m", "=", "1", ",", "f", "}">> \o Mark.text,
       <<"class", "C", "D", "end", "private", "fielddecl", "$a", "int", "int", "1", "public", "smethod", "m", "end",
         "-">> \o s.tree \o <<"end", "end", "enum", "D", "-", "m", "int", "1", "f", "-", "end">> \o Mark.tree,
       s.loose) }

(***************************************************************************)
(* Characters: the content of a literal, or a run of operator characters.  *)
(***************************************************************************)
LiteralChars  == {"a", "\"", "'", "\\", "$", "{", "}"}
OperatorChars == {"<", ">", "=", "?", "*", ".", ":", "!"}

FrontInit == mode = "blank" /\ work = <<>>

Begin ==
  /\ mode = "blank"
  /\ \/ mode' = "expr" /\ work' \in Atoms
     \/ mode' = "stmt" /\ work' \in Simple
     \/ mode' \in {"string", "operators"} /\ UNCHANGED work

WriteExpr ==
  /\ mode = "expr" /\ work.size < MaxGrowth
  /\ \E e \in Around(work) : work' = [e EXCEPT !.size = work.size + 1]
  /\ UNCHANGED mode

WriteStmt ==
  /\ mode = "stmt" /\ work.size < MaxGrowth
  /\ \E s \in Enclosed(work) \cup Declared(work) :
       work' = [s EXCEPT !.size = IF s \in Declared(work) THEN MaxGrowth ELSE work.size + 1]
  /\ UNCHANGED mode

WriteChar ==
  /\ mode \in {"string", "operators"} /\ Len(work) < MaxChars
  /\ \E c \in (IF mode = "string" THEN LiteralChars ELSE OperatorChars) : work' = Append(work, c)
  /\ UNCHANGED mode

\* What is written is handed to the front end, and the author starts afresh.
HandIn == mode # "blank" /\ mode' = "blank" /\ work' = <<>>

FrontNext == Begin \/ WriteExpr \/ WriteStmt \/ WriteChar \/ HandIn

FrontSpec == FrontInit /\ [][FrontNext]_frontVars

Program == IF mode = "expr" THEN <<"echo">> \o work.text \o <<";">> ELSE work.text
Meant   == IF mode = "expr" THEN <<"echo">> \o work.tree \o <<"end">> ELSE work.tree

(***************************************************************************)
(* What must hold of a written program is stated of the step that hands it *)
(* in, and every program can be handed in.                                 *)
(***************************************************************************)
TreeIsMeant ==
  mode \in {"expr", "stmt"} =>
    parse_program(Program) = IF mode = "stmt" /\ work.loose THEN <<"fatal">> ELSE Meant

(* Precedence, associativity and the nesting of statements: a program written with the
   parentheses the table of parser.c asks for is read as the tree its author meant, and one
   with a break outside every loop is rejected (parse_binop_level, parse_ternary, parse_assign,
   parse_stmt). *)
ReadAsMeant == [][HandIn => TreeIsMeant]_frontVars

MayBreakAfter(i) ==
  LET open == OpenAt(Program, i)
  IN \/ open # <<>> /\ open[Len(open)] = "p"
     \/ Program[i] \in Infix \cup {"=", ".=", "!"}
     \/ Program[i + 1] \in Infix

SameTreeBroken ==
  mode = "expr" =>
    \A i \in 2..(Len(Program) - 2) :
      MayBreakAfter(i) => parse_program(InsertAt(Program, i + 1, "\n")) = Meant

(* lex_all promises that a newline inside ( ) or [ ], behind an operator, or before a token
   that continues the expression changes nothing; the shift and null assignments, which its
   table omits, are left out. *)
NewlinesHarmless == [][HandIn => SameTreeBroken]_frontVars

(* A text whose quotes, backslashes and dollars are escaped comes out of the scanner as
   itself, between double and between single quotes (lex_next, unescape). *)
Escaped(S) == FlattenSeq([i \in DOMAIN work |-> IF work[i] \in S THEN <<"\\", work[i]>> ELSE <<work[i]>>])

EscapedMeansItself ==
  mode = "string" =>
    /\ Tokens(<<"\"">> \o Escaped({"\"", "\\", "$"}) \o <<"\"">>)
         = << [kind |-> "str", text |-> work, next |-> Len(Escaped({"\"", "\\", "$"})) + 3] >>
    /\ Tokens(<<"'">> \o Escaped({"'", "\\"}) \o <<"'">>)
         = << [kind |-> "str", text |-> work, next |-> Len(Escaped({"'", "\\"})) + 3] >>

(* The interpolated expressions that the search for the closing quote steps over. *)
RECURSIVE SteppedOver(_, _)
SteppedOver(s, p) ==
  CASE Peek(s, p) \in {"\"", "NUL"} -> <<>>
    [] Peek(s, p) = "\\" -> SteppedOver(s, p + 2)
    [] StartsExpr(s, p) -> LET q == BraceEnd(s, p + 1, 1)
                           IN <<SubSeq(s, p + 1, q - 1)>> \o SteppedOver(s, q + 1)
    [] OTHER -> SteppedOver(s, p + 1)

(* The two scans of a template agree: the expressions that lex_template_parts cuts out are
   the ones lex_next stepped over when it looked for the end of the literal. *)
ScansAgree ==
  mode = "string" =>
    LET s == <<"\"">> \o work \o <<"\"">>
        t == Tokens(s)[1]
    IN t.kind = "tpl" =>
         LET exprs == SelectSeq(t.parts, LAMBDA part : "expr" \in DOMAIN part)
         IN [i \in DOMAIN exprs |-> exprs[i].expr] = SteppedOver(s, 2)

(* Operators are cut by longest match over the spellings of the token table. *)
Spellings == {<<"<">>, <<">">>, <<"=">>, <<"?">>, <<"*">>, <<".">>, <<":">>, <<"!">>,
              <<"<", "=">>, <<"<", "<">>, <<"<", ">">>, <<"<", "=", ">">>, <<"<", "<", "=">>,
              <<">", "=">>, <<">", ">">>, <<">", ">", "=">>, <<"=", "=">>, <<"=", ">">>, <<"=", "=", "=">>,
              <<"?", "?">>, <<"?", "?", "=">>, <<"?", "?", ":">>, <<"*", "*">>, <<"*", "=">>,
              <<".", ".">>, <<".", ".", ".">>, <<".", "=">>, <<":", ":">>, <<"!", "=">>, <<"!", "=", "=">>}

LongestMatch ==
  mode = "operators" /\ work # <<>> =>
    LET t == Tokens(work)[1]
    IN /\ t.text \in Spellings /\ IsPrefix(t.text, work)
       /\ \A w \in Spellings : IsPrefix(w, work) => Len(w) <= Len(t.text)
\* The scanner: literals come out as written, both scans of a template see the same
\* expressions, and operators are cut by longest match (lex_next, lex_template_parts).
ScannerRight == [][HandIn => EscapedMeansItself /\ ScansAgree /\ LongestMatch]_frontVars
=============================================================================
