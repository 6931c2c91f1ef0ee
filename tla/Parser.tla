------------------------------- MODULE Parser ------------------------------
(***************************************************************************)
(* parser.c: from tokens to syntax trees by recursive descent.  A token is *)
(* its spelling; a tree is written in prefix form as a sequence of         *)
(* strings, lists closed by "end" and absent children "-".  The parser p   *)
(* has the tokens and loop_depth; every parse_* takes p and a position and *)
(* returns the tree and the position behind it.  fatal() ends the program: *)
(* it is position 0, at which no token matches and every loop stops.       *)
(***************************************************************************)
EXTENDS Integers, Sequences

VarNames    == {"$a", "$b", "$k"}
Ints    == {"1", "2"}
Literal == [t \in Ints \cup {"1.5", "'s'", "true", "false", "null"} |->
             CASE t \in Ints -> "int" [] t = "1.5" -> "float" [] t = "'s'" -> "str"
               [] t = "null" -> "null" [] OTHER -> "bool"]
Prims   == {"int", "float", "bool", "string", "void", "mixed"}
Idents  == Prims \cup {"f", "C", "D", "m", "__construct", "Vec", "Map", "Result", "callable",
                       "array", "is", "_", "pub"}

Arg(a, i) == [a |-> a, i |-> i]
Nil == <<"-">>
Fatal == Arg(<<>>, 0)

(* ts_peek, ts_peek2, ts_peek3 stay on the last token, which is T_EOF. *)
Look(p, i) == IF i = 0 THEN "fatal" ELSE p.toks[IF i <= Len(p.toks) THEN i ELSE Len(p.toks)]
Adv(p, i)  == IF i < Len(p.toks) THEN i + 1 ELSE i
ts_check(p, i, S) == Look(p, i) \in S
ts_match(p, i, S) == IF ts_check(p, i, S) THEN Adv(p, i) ELSE i
ts_expect(p, i, S) == IF ts_check(p, i, S) THEN Adv(p, i) ELSE 0
Stop == {"EOF", "fatal"}

RECURSIVE Skip(_, _, _)
Skip(p, i, S) == IF ts_check(p, i, S) THEN Skip(p, Adv(p, i), S) ELSE i
skip_nl(p, i) == Skip(p, i, {"\n"})
expect_nl_or_semi(p, i) ==
  LET j == skip_nl(p, i)
  IN IF ts_check(p, j, {";"}) THEN skip_nl(p, Adv(p, j)) ELSE j

RECURSIVE parse_type(_, _), TypeList(_, _, _), parse_expr(_, _), parse_assign(_, _),
          parse_ternary(_, _), parse_binop_level(_, _, _), BinopRest(_, _, _), parse_pow(_, _),
          parse_unary(_, _), parse_postfix(_, _), PostfixRest(_, _), parse_primary(_, _),
          ExprList(_, _, _, _), parse_stmt(_, _), StmtList(_, _, _), CaseBody(_, _, _), Elements(_, _, _, _),
          Arms(_, _, _), Patterns(_, _, _), Params(_, _, _, _), UseVars(_, _, _), EchoArgs(_, _, _), If(_, _), Cases(_, _, _),
          Catches(_, _, _), SimpleList(_, _, _, _), Names(_, _, _), Members(_, _, _),
          EnumCases(_, _, _), ProgramRest(_, _, _)

(***************************************************************************)
(* Types.  `mut` is a keyword, so eat_ident(p, "mut") never finds it.      *)
(***************************************************************************)
TypeList(p, i, acc) ==
  IF ts_check(p, i, {")"} \cup Stop) THEN Arg(acc, i)
  ELSE LET t == parse_type(p, i)
       IN IF ts_check(p, t.i, {","}) THEN TypeList(p, Adv(p, t.i), acc \o t.a)
          ELSE Arg(acc \o t.a, t.i)

FnType(p, i) ==
  LET ps  == TypeList(p, i, <<>>)
      cl  == ts_expect(p, ps.i, {")"})
      ret == IF ts_check(p, cl, {"->"}) THEN parse_type(p, Adv(p, cl)) ELSE Arg(<<"void">>, cl)
  IN Arg(<<"fntype">> \o ps.a \o <<"end">> \o ret.a, ret.i)

Generic(p, i, name) ==
  IF ~ ts_check(p, i, {"<"})
  THEN Arg(<<name, "mixed">> \o (CASE name = "Map" -> <<"mixed">> [] name = "Result" -> <<"string">>
                                   [] OTHER -> <<>>), i)
  ELSE LET e == parse_type(p, Adv(p, i))
           v == CASE name = "Map" -> parse_type(p, ts_expect(p, e.i, {","}))
                  [] name = "Result" -> IF ts_check(p, e.i, {","})
                                        THEN parse_type(p, Adv(p, e.i))
                                        ELSE Arg(<<"string">>, e.i)
                  [] OTHER -> Arg(<<>>, e.i)
       IN Arg(<<name>> \o e.a \o v.a, ts_expect(p, v.i, {">"}))

parse_type(p, i) ==
  LET n == Look(p, i)
      j == Adv(p, i)
  IN CASE n \in {"&", "own", "*"} ->
            LET t == parse_type(p, j)
            IN Arg(<<CASE n = "&" -> "ref" [] n = "own" -> "own" [] n = "*" -> "ptr">> \o t.a, t.i)
       [] n = "[" -> LET t == parse_type(p, j)
                     IN Arg(<<"array">> \o t.a, ts_expect(p, t.i, {"]"}))
       [] n \notin Idents \cup {"fn"} -> Fatal
       [] n = "array" -> Arg(<<"array", "mixed">>, j)
       [] n \in Prims -> Arg(<<n>>, j)
       [] n = "callable" /\ ~ ts_check(p, j, {"("}) -> Arg(<<"callable">>, j)
       [] n \in {"fn", "callable"} /\ ts_check(p, j, {"("}) -> FnType(p, Adv(p, j))
       [] n \in {"Vec", "Map", "Result"} -> Generic(p, j, n)
       [] OTHER -> Arg(<<"class", n>>, j)

OptType(p, i) ==
  IF ts_check(p, i, {":"}) THEN parse_type(p, Adv(p, i)) ELSE Arg(Nil, i)

(***************************************************************************)
(* Assignment, ternary and the levels of binary operators.                 *)
(***************************************************************************)
StartsType == Idents \cup {"&", "*", "[", "fn", "own"}
AssignOps  == {"=", "+=", "-=", "*=", "/=", "%=", ".=", "**=", "<<=", ">>=", "??="}

parse_expr(p, i) == parse_assign(p, i)

TypedDecl(p, i) ==
  LET ann == parse_type(p, i + 2)
      val == IF ts_check(p, ann.i, {"="}) THEN parse_assign(p, Adv(p, ann.i))
             ELSE Arg(Nil, ann.i)
  IN Arg(<<"assign", "=", "var", Look(p, i)>> \o ann.a \o val.a, val.i)

parse_assign(p, i) ==
  IF Look(p, i) \in VarNames /\ Look(p, i + 1) = ":" /\ Look(p, i + 2) \in StartsType
  THEN TypedDecl(p, i)
  ELSE
    LET l == parse_ternary(p, i)
        o == Look(p, l.i)
        j == Adv(p, l.i)
    IN CASE o \in AssignOps ->
              LET r == IF o = "??=" THEN parse_ternary(p, j) ELSE parse_assign(p, j)
              IN Arg(<<"assign", o>> \o l.a \o Nil \o r.a, r.i)
         [] o \in {"++", "--"} ->
              Arg(<<"assign", "=">> \o l.a \o Nil \o <<"bin", IF o = "++" THEN "+" ELSE "-">>
                  \o l.a \o <<"int", "1">>, j)
         [] OTHER -> l

parse_ternary(p, i) ==
  LET c == parse_binop_level(p, i, 1)
  IN CASE ts_check(p, c.i, {"??"}) ->
            LET e == parse_ternary(p, Adv(p, c.i))
            IN Arg(<<"bin", "??">> \o c.a \o e.a, e.i)
       [] ts_check(p, c.i, {"?"}) ->
            LET t == parse_assign(p, Adv(p, c.i))
                e == parse_ternary(p, ts_expect(p, t.i, {":"}))
            IN Arg(<<"tern">> \o c.a \o t.a \o e.a, e.i)
       [] OTHER -> c

levels == << {"||"}, {"&&"}, {"|"}, {"^"}, {"&"},
             {"==", "!=", "<>", "!==", "===", "<=>"}, {"<", ">", "<=", ">="}, {"."},
             {"<<", ">>"}, {"+", "-"}, {"*", "/", "%"} >>

parse_binop_level(p, i, lvl) ==
  IF lvl > Len(levels) THEN parse_pow(p, i)
  ELSE BinopRest(p, parse_binop_level(p, i, lvl + 1), lvl)

SlipBinopRest(p, l, lvl) ==
  IF Look(p, l.i) \notin levels[lvl] THEN l
  ELSE LET r == parse_binop_level(p, Adv(p, l.i), lvl)
       IN Arg(<<"bin", Look(p, l.i)>> \o l.a \o r.a, r.i)

BinopRest(p, l, lvl) ==
  IF Look(p, l.i) \notin levels[lvl] THEN l
  ELSE LET r == parse_binop_level(p, Adv(p, l.i), lvl + 1)
       IN BinopRest(p, Arg(<<"bin", Look(p, l.i)>> \o l.a \o r.a, r.i), lvl)

parse_pow(p, i) ==
  LET b == parse_unary(p, i)
  IN IF ~ ts_check(p, b.i, {"**"}) THEN b
     ELSE LET e == parse_pow(p, Adv(p, b.i)) IN Arg(<<"bin", "**">> \o b.a \o e.a, e.i)

(* A '&' that does not stand before a variable or another '&' is no borrow. *)
parse_unary(p, i) ==
  LET o == Look(p, i)
  IN IF \/ o \in {"!", "-", "+", "~", "*"}
        \/ o = "&" /\ Look(p, i + 1) \in VarNames \cup {"&"}
     THEN LET e == parse_unary(p, Adv(p, i))
          IN Arg((CASE o = "&" -> <<"borrow">> [] o = "*" -> <<"deref">> [] OTHER -> <<"un", o>>)
                 \o e.a, e.i)
     ELSE parse_postfix(p, i)

(***************************************************************************)
(* Postfix forms and primaries.                                            *)
(***************************************************************************)
ExprList(p, i, close, acc) ==
  IF ts_check(p, i, {close} \cup Stop) THEN Arg(acc, i)
  ELSE LET e == parse_expr(p, i)
       IN IF ts_check(p, e.i, {","}) THEN ExprList(p, Adv(p, e.i), close, acc \o e.a)
          ELSE Arg(acc \o e.a, e.i)

parse_call_args(p, i) ==
  LET as == ExprList(p, ts_expect(p, i, {"("}), ")", <<>>)
  IN Arg(as.a \o <<"end">>, ts_expect(p, as.i, {")"}))

parse_postfix(p, i) == PostfixRest(p, parse_primary(p, i))

IndexOrSlice(p, e) ==
  LET j   == Adv(p, e.i)
      ix  == IF ts_check(p, j, {"]"}) THEN Arg(Nil, j) ELSE parse_expr(p, j)
      k   == Adv(p, ix.i)
      hi  == IF ts_check(p, k, {"]"}) THEN Arg(Nil, k) ELSE parse_expr(p, k)
  IN IF ix.a # Nil /\ ts_check(p, ix.i, {"..."})
     THEN Arg(<<"slice">> \o e.a \o ix.a \o hi.a, ts_expect(p, hi.i, {"]"}))
     ELSE Arg(<<"index">> \o e.a \o ix.a, ts_expect(p, ix.i, {"]"}))

(* '->' and '::' take a member name, and a call when '(' follows it. *)
Member(p, e, op) ==
  LET n == Adv(p, e.i)
      j == ts_expect(p, n, Idents)
      c == parse_call_args(p, j)
  IN CASE j = 0 -> Fatal
       [] ts_check(p, j, {"("}) ->
            IF op = "::" /\ e.a[1] \notin {"var", "name"} THEN Fatal
            ELSE Arg(<<IF op = "::" THEN "static" ELSE "method", Look(p, n)>> \o e.a \o c.a, c.i)
       [] OTHER -> Arg(<<IF op = "::" THEN "sfield" ELSE "field", Look(p, n)>> \o e.a, j)

PostfixRest(p, e) ==
  LET o == Look(p, e.i)
      j == Adv(p, e.i)
  IN CASE o = "[" -> PostfixRest(p, IndexOrSlice(p, e))
       [] o \in {"->", "::"} -> PostfixRest(p, Member(p, e, o))
       [] o = "(" -> LET c == parse_call_args(p, e.i)
                     IN PostfixRest(p, Arg(<<"call">> \o e.a \o c.a, c.i))
       [] (o = "as" /\ Look(p, j) \notin VarNames) \/ o = "is" ->
            LET t == parse_type(p, j)
            IN PostfixRest(p, Arg(<<IF o = "is" THEN "is" ELSE "cast">> \o e.a \o t.a, t.i))
       [] OTHER -> e

(* Array literals: plain elements and keyed entries are kept in two lists; an empty slot is
   a hole, used by destructuring. *)
Elements(p, i, els, ents) ==
  LET j == skip_nl(p, i)
      k == parse_ternary(p, j)
      v == parse_ternary(p, Adv(p, k.i))
      keyed == ts_check(p, k.i, {"=>"})
      n == skip_nl(p, IF keyed THEN v.i ELSE k.i)
      els2  == IF keyed THEN els ELSE els \o k.a
      ents2 == IF keyed THEN ents \o k.a \o v.a ELSE ents
  IN CASE ts_check(p, j, {"]"} \cup Stop) -> Arg(els \o <<"end">> \o ents, j)
       [] ts_check(p, j, {","}) -> Elements(p, Adv(p, j), els \o <<"hole">>, ents)
       [] ts_check(p, n, {","}) -> Elements(p, Adv(p, n), els2, ents2)
       [] OTHER -> Arg(els2 \o <<"end">> \o ents2, n)

parse_primary_lbracket(p, i) ==
  LET es == Elements(p, Adv(p, i), <<>>, <<>>)
  IN Arg(<<"array">> \o es.a \o <<"end">>, skip_nl(p, ts_expect(p, es.i, {"]"})))

(* Parameters.  Only those of named functions (own) may be owned, variadic or have a
   default; `&$x` makes the parameter of a closure writeable, not that of a function. *)
Params(p, i, own, acc) ==
  IF ts_check(p, i, {")"} \cup Stop) THEN Arg(acc, i)
  ELSE
    LET m    == ts_match(p, i, {"mut"})
        w    == IF own THEN ts_match(p, m, {"own"}) ELSE m
        r    == ts_match(p, w, {"&"})
        d    == IF own THEN ts_match(p, r, {"..."}) ELSE r
        lead == ts_check(p, d, VarNames)
        ty   == IF lead THEN OptType(p, Adv(p, d)) ELSE parse_type(p, d)
        amp  == ~ lead /\ ts_check(p, ty.i, {"&"})
        nm   == IF lead THEN d ELSE ts_match(p, ty.i, {"&"})
        k    == IF lead THEN ty.i ELSE ts_expect(p, nm, VarNames)
        df   == IF own /\ ts_check(p, k, {"="}) THEN parse_expr(p, Adv(p, k)) ELSE Arg(Nil, k)
        one  == <<"param", Look(p, nm), IF r # w \/ amp THEN "byref" ELSE "byval",
                  IF m # i \/ amp \/ (~ own /\ r # w) THEN "mut" ELSE "const",
                  IF d # r THEN "..." ELSE "one">> \o ty.a \o df.a
    IN IF ts_check(p, df.i, {","}) THEN Params(p, Adv(p, df.i), own, acc \o one)
       ELSE Arg(acc \o one, df.i)

ParamList(p, i, own) ==
  LET ps == Params(p, ts_expect(p, i, {"("}), own, <<>>)
  IN Arg(ps.a \o <<"end">>, ts_expect(p, ps.i, {")"}))

UseVars(p, i, acc) ==
  IF ts_check(p, i, {")"} \cup Stop) THEN Arg(acc, i)
  ELSE LET v   == ts_match(p, i, {"&"})
           one == <<IF v # i THEN "useref" ELSE "use", Look(p, v)>>
           k   == ts_expect(p, v, VarNames)
       IN IF ts_check(p, k, {","}) THEN UseVars(p, Adv(p, k), acc \o one)
          ELSE Arg(acc \o one, k)

(* The statements of a body up to '}', without the brace. *)
StmtList(p, i, acc) ==
  IF ts_check(p, i, {"}"} \cup Stop) THEN Arg(acc, i)
  ELSE IF ts_check(p, i, {"\n", ";"}) THEN StmtList(p, Adv(p, i), acc)
  ELSE LET s == parse_stmt(p, i) IN StmtList(p, s.i, acc \o s.a)

parse_block_body(p, i) ==
  LET b == StmtList(p, skip_nl(p, i), <<>>)
  IN Arg(b.a \o <<"end">>, skip_nl(p, ts_expect(p, b.i, {"}"})))

Block(p, i) == parse_block_body(p, ts_expect(p, skip_nl(p, i), {"{"}))

parse_closure_after_fn(p, i) ==
  LET ps  == ParamList(p, i, FALSE)
      us  == IF ts_check(p, ps.i, {"use"})
             THEN UseVars(p, ts_expect(p, Adv(p, ps.i), {"("}), <<>>) ELSE Arg(<<>>, ps.i)
      cl  == IF us.i = ps.i THEN us.i ELSE ts_expect(p, us.i, {")"})
      ret == OptType(p, cl)
      j   == skip_nl(p, ret.i)
      b   == IF ts_check(p, j, {"{"}) THEN Block(p, j)
             ELSE LET e == parse_expr(p, ts_expect(p, j, {"=>"}))
                  IN Arg(<<"return">> \o e.a \o <<"end">>, expect_nl_or_semi(p, e.i))
  IN Arg(<<"closure">> \o ps.a \o us.a \o <<"end">> \o ret.a \o b.a, b.i)

Patterns(p, i, acc) ==
  LET e == parse_ternary(p, i)
  IN IF ts_check(p, e.i, {","}) THEN Patterns(p, Adv(p, e.i), acc \o e.a)
     ELSE Arg(acc \o e.a, e.i)

(* The arms of a match; `else` and `_` are the default. *)
Arms(p, i, acc) ==
  IF ts_check(p, i, {"}"} \cup Stop) THEN Arg(acc, i)
  ELSE IF ts_check(p, i, {"\n", ";"}) THEN Arms(p, Adv(p, i), acc)
  ELSE LET dflt == ts_check(p, i, {"else", "_"})
           ps   == IF dflt THEN Arg(<<"default">>, Adv(p, i)) ELSE Patterns(p, i, <<"arm">>)
           b    == parse_ternary(p, ts_expect(p, ps.i, {"=>"}))
           n    == skip_nl(p, ts_match(p, skip_nl(p, b.i), {","}))
       IN Arms(p, n, acc \o ps.a \o b.a)

Match(p, i) ==
  LET sub == parse_expr(p, ts_expect(p, i, {"("}))
      as  == Arms(p, skip_nl(p, ts_expect(p, skip_nl(p, ts_expect(p, sub.i, {")"})), {"{"})),
                  <<>>)
  IN Arg(<<"match">> \o sub.a \o as.a \o <<"end">>, skip_nl(p, ts_expect(p, as.i, {"}"})))

ParenOrTuple(p, i) ==
  LET e  == parse_expr(p, i)
      es == ExprList(p, Adv(p, e.i), ")", <<>>)
  IN CASE ts_check(p, i, {")"}) -> Arg(<<"tuple", "end">>, Adv(p, i))
       [] ts_check(p, e.i, {","}) ->
            Arg(<<"tuple">> \o e.a \o es.a \o <<"end">>, ts_expect(p, es.i, {")"}))
       [] OTHER -> Arg(e.a, ts_expect(p, e.i, {")"}))

parse_primary(p, i) ==
  LET t == Look(p, i)
      j == Adv(p, i)
      c == parse_call_args(p, j)
  IN CASE t \in DOMAIN Literal -> Arg(<<Literal[t], t>>, j)
       [] t \in VarNames -> IF ts_check(p, j, {"("}) THEN Arg(<<"call", "var", t>> \o c.a, c.i)
                        ELSE Arg(<<"var", t>>, j)
       [] t \in {"fn", "function"} -> parse_closure_after_fn(p, j)
       [] t = "new" -> LET n == ts_expect(p, j, Idents)
                           a == parse_call_args(p, n)
                       IN Arg(<<"new", Look(p, j)>> \o a.a, a.i)
       [] t = "match" -> Match(p, j)
       [] t = "(" -> ParenOrTuple(p, j)
       [] t = "[" -> parse_primary_lbracket(p, i)
       [] t \in Idents -> IF ts_check(p, j, {"("}) THEN Arg(<<"call", "name", t>> \o c.a, c.i)
                          ELSE Arg(<<"name", t>>, j)
       [] OTHER -> Fatal

(***************************************************************************)
(* Statements.  A keyword selects the form, anything else is an expression.*)
(***************************************************************************)
Deeper(p) == [p EXCEPT !.loop_depth = @ + 1]

parse_simple_stmt(p, i) ==
  IF ~ ts_check(p, i, {"let"})
  THEN LET e == parse_expr(p, i) IN Arg(<<"expr">> \o e.a, e.i)
  ELSE LET m   == ts_match(p, ts_match(p, Adv(p, i), {"own"}), {"mut"})
           ann == OptType(p, ts_expect(p, m, VarNames))
           val == IF ts_check(p, ann.i, {"="}) THEN parse_expr(p, Adv(p, ann.i))
                  ELSE Arg(Nil, ann.i)
       IN Arg(<<"let", Look(p, m)>> \o ann.a \o val.a, val.i)

SimpleList(p, i, close, acc) ==
  IF ts_check(p, i, close \cup Stop) THEN Arg(acc, i)
  ELSE LET s == parse_simple_stmt(p, i)
       IN IF ts_check(p, s.i, {","}) THEN SimpleList(p, Adv(p, s.i), close, acc \o s.a)
          ELSE Arg(acc \o s.a, s.i)

Ended(p, s) == Arg(s.a, expect_nl_or_semi(p, s.i))

(* '(' condition ')' behind a keyword. *)
Condition(p, i) ==
  LET e == parse_expr(p, ts_expect(p, i, {"("})) IN Arg(e.a, ts_expect(p, e.i, {")"}))

Return(p, i) ==
  IF ts_check(p, i, {"\n", ";", "}", "EOF"}) THEN Arg(<<"return">> \o Nil, i)
  ELSE LET e == parse_expr(p, i) IN Arg(<<"return">> \o e.a, e.i)

EchoArgs(p, i, acc) ==
  LET e == parse_expr(p, i)
  IN IF ts_check(p, e.i, {","}) THEN EchoArgs(p, Adv(p, e.i), acc \o e.a) ELSE Arg(acc \o e.a, e.i)

EchoList(p, i) ==
  LET es == EchoArgs(p, i, <<>>) IN Arg(<<"echo">> \o es.a \o <<"end">>, es.i)

(* elseif is parsed as an if whose keyword has just been read. *)
If(p, i) ==
  LET c == Condition(p, i)
      t == Block(p, c.i)
      j == skip_nl(p, t.i)
      k == skip_nl(p, Adv(p, j))
      e == CASE ts_check(p, j, {"elseif"}) -> LET n == If(p, Adv(p, j)) IN Arg(n.a \o <<"end">>, n.i)
             [] ts_check(p, j, {"else"}) /\ ts_check(p, k, {"if"}) ->
                  LET n == If(p, Adv(p, k)) IN Arg(n.a \o <<"end">>, n.i)
             [] ts_check(p, j, {"else"}) -> parse_block_body(p, ts_expect(p, k, {"{"}))
             [] OTHER -> Arg(<<"end">>, j)
  IN Arg(<<"if">> \o c.a \o t.a \o e.a, e.i)

While(p, i) ==
  LET c == Condition(p, i)
      b == Block(Deeper(p), c.i)
  IN Arg(<<"while">> \o c.a \o b.a, b.i)

Do(p, i) ==
  LET b == Block(Deeper(p), i)
      c == Condition(p, ts_expect(p, skip_nl(p, b.i), {"while"}))
  IN Arg(<<"do">> \o b.a \o c.a, c.i)

For(p, i) ==
  LET init == SimpleList(p, ts_expect(p, i, {"("}), {";", ")"}, <<>>)
      j    == ts_match(p, init.i, {";"})
      c    == IF ts_check(p, j, {";", ")"}) THEN Arg(Nil, j) ELSE parse_expr(p, j)
      step == SimpleList(p, ts_match(p, c.i, {";"}), {")"}, <<>>)
      b    == Block(Deeper(p), ts_expect(p, step.i, {")"}))
  IN Arg(<<"for">> \o init.a \o <<"end">> \o c.a \o step.a \o <<"end">> \o b.a, b.i)

Foreach(p, i) ==
  LET it == parse_expr(p, ts_expect(p, i, {"("}))
      v1 == ts_expect(p, it.i, {"as"})
      j  == ts_expect(p, v1, VarNames)
      v2 == Adv(p, j)
      kv == ts_check(p, j, {"=>"})
      b  == Block(Deeper(p), ts_expect(p, IF kv THEN ts_expect(p, v2, VarNames) ELSE j, {")"}))
  IN Arg(<<"foreach">> \o it.a \o (IF kv THEN <<Look(p, v1), Look(p, v2)>> ELSE <<"-", Look(p, v1)>>)
         \o b.a, b.i)

(* The statements of a case; unlike in a body, no ';' is passed over between them. *)
CaseBody(p, i, acc) ==
  IF ts_check(p, i, {"case", "default", "}"} \cup Stop) THEN Arg(acc, i)
  ELSE LET s == parse_stmt(p, i) IN CaseBody(p, skip_nl(p, s.i), acc \o s.a)

Cases(p, i, acc) ==
  IF ts_check(p, i, {"}"} \cup Stop) THEN Arg(acc, i)
  ELSE LET h == CASE ts_check(p, i, {"case"}) ->
                       LET e == parse_expr(p, Adv(p, i)) IN Arg(<<"case">> \o e.a, e.i)
                  [] ts_check(p, i, {"default"}) -> Arg(<<"default">>, Adv(p, i))
                  [] OTHER -> Fatal
           b == CaseBody(p, skip_nl(p, ts_match(p, h.i, {":", ";"})), <<>>)
       IN Cases(p, b.i, acc \o h.a \o b.a \o <<"end">>)

Switch(p, i) ==
  LET c  == Condition(p, i)
      cs == Cases(Deeper(p), skip_nl(p, ts_expect(p, skip_nl(p, c.i), {"{"})), <<>>)
  IN Arg(<<"switch">> \o c.a \o cs.a \o <<"end">>, ts_expect(p, cs.i, {"}"}))

Catches(p, i, acc) ==
  IF ~ ts_check(p, i, {"catch"}) THEN Arg(acc, i)
  ELSE LET j  == ts_expect(p, Adv(p, i), {"("})
           ty == IF ts_check(p, j, VarNames) THEN Arg(Nil, j) ELSE parse_type(p, j)
           b  == Block(p, ts_expect(p, ts_expect(p, ty.i, VarNames), {")"}))
       IN Catches(p, skip_nl(p, b.i), acc \o <<"catch", Look(p, ty.i)>> \o ty.a \o b.a)

Try(p, i) ==
  LET b  == Block(p, i)
      cs == Catches(p, skip_nl(p, b.i), <<>>)
      f  == IF ts_check(p, cs.i, {"finally"}) THEN Block(p, Adv(p, cs.i)) ELSE Arg(<<"end">>, cs.i)
  IN Arg(<<"try">> \o b.a \o cs.a \o <<"end">> \o f.a, f.i)

Names(p, i, acc) ==
  LET k == ts_expect(p, i, VarNames)
  IN IF ts_check(p, k, {","}) THEN Names(p, Adv(p, k), acc \o <<Look(p, i)>>)
     ELSE Arg(acc \o <<Look(p, i)>>, k)

parse_stmt(p, i) ==
  LET k == Look(p, i)
      j == Adv(p, i)
      With(tag, e) == Arg(<<tag>> \o e.a, e.i)
  IN CASE k = "return" -> Ended(p, Return(p, j))
       [] k = "echo" -> Ended(p, EchoList(p, j))
       [] k \in {"print", "throw"} -> Ended(p, With(k, parse_expr(p, j)))
       [] k = "if" -> If(p, j)
       [] k = "while" -> While(p, j)
       [] k = "for" -> For(p, j)
       [] k = "switch" -> Switch(p, j)
       [] k = "do" -> Ended(p, Do(p, j))
       [] k = "foreach" -> Foreach(p, j)
       [] k \in {"break", "continue"} ->
            IF p.loop_depth = 0 THEN Fatal ELSE Ended(p, Arg(<<k>>, j))
       [] k = "unsafe" -> With("unsafe", Block(p, j))
       [] k = "try" -> Try(p, j)
       [] k = "global" -> LET ns == Names(p, j, <<"global">>)
                          IN Ended(p, Arg(ns.a \o <<"end">>, ns.i))
       [] OTHER -> Ended(p, parse_simple_stmt(p, i))

(***************************************************************************)
(* Declarations.                                                           *)
(***************************************************************************)
parse_fn_after_name(p, i) ==
  LET ps  == ParamList(p, i, TRUE)
      ret == OptType(p, ps.i)
      j   == skip_nl(p, ret.i)
      b   == IF ts_check(p, j, {"{"}) THEN Block(p, j)
             ELSE Arg(<<"abstract">>, expect_nl_or_semi(p, j))
  IN Arg(ps.a \o ret.a \o b.a, b.i)

parse_field(p, i, static) ==
  LET s    == ts_match(p, i, {"static"})
      d    == ts_match(p, ts_match(p, s, {"mut"}), {"own"})
      lead == ts_check(p, d, VarNames)
      ty   == IF lead THEN OptType(p, Adv(p, d)) ELSE parse_type(p, d)
      nm   == IF lead THEN d ELSE ty.i
      k    == IF lead THEN ty.i ELSE ts_expect(p, nm, VarNames)
      df   == IF ts_check(p, k, {"="}) THEN parse_expr(p, Adv(p, k)) ELSE Arg(Nil, k)
  IN Ended(p, Arg(<<IF static \/ s # i THEN "sfielddecl" ELSE "fielddecl", Look(p, nm)>>
                  \o ty.a \o df.a, df.i))

StartsField == VarNames \cup {"mut", "own", "["} \cup Ints \cup Idents

(* A `static` in front of a variable or a type is read here and not passed on. *)
Members(p, i, acc) ==
  IF ts_check(p, i, {"}"} \cup Stop) THEN Arg(acc, i)
  ELSE IF ts_check(p, i, {"\n", ";"}) THEN Members(p, Adv(p, i), acc)
  ELSE LET v  == ts_match(p, i, {"private", "protected", "public", "pub"})
           c  == ts_match(p, v, {"const"})
           s  == ts_match(p, c, {"static"})
           fn == ts_check(p, s, {"fn", "function"})
           nm == Adv(p, s)
           f  == IF fn THEN parse_fn_after_name(p, ts_expect(p, nm, Idents))
                 ELSE IF ts_check(p, s, StartsField) THEN parse_field(p, s, c # v)
                 ELSE IF s # c \/ c # v THEN parse_field(p, s, TRUE)
                 ELSE Fatal
           vis == <<IF v = i THEN "public" ELSE Look(p, i)>>
       IN Members(p, f.i, acc \o vis \o (IF fn THEN <<IF s # c THEN "smethod" ELSE "methoddecl", Look(p, nm)>>
                                         ELSE <<>>) \o f.a)

parse_class_body(p, i) ==
  LET ms == Members(p, skip_nl(p, ts_expect(p, i, {"{"})), <<>>)
  IN Arg(ms.a \o <<"end">>, skip_nl(p, ts_expect(p, ms.i, {"}"})))

NameList(p, i) ==
  LET k == ts_expect(p, i, Idents)
      l == ts_expect(p, Adv(p, k), Idents)
  IN IF ts_check(p, k, {","}) THEN Arg(<<Look(p, i), Look(p, Adv(p, k))>>, l) ELSE Arg(<<Look(p, i)>>, k)

EnumCases(p, i, acc) ==
  IF ts_check(p, i, {"}"} \cup Stop) THEN Arg(acc, i)
  ELSE IF ts_check(p, i, {"\n", ";"}) THEN EnumCases(p, Adv(p, i), acc)
  ELSE LET k == ts_expect(p, i, Idents)
           v == IF ts_check(p, k, {"="}) THEN parse_expr(p, Adv(p, k)) ELSE Arg(Nil, k)
           n == skip_nl(p, ts_match(p, skip_nl(p, v.i), {","}))
       IN EnumCases(p, n, acc \o <<Look(p, i)>> \o v.a)

parse_decl(p, i) ==
  LET k   == Look(p, i)
      nm  == Adv(p, i)
      j   == ts_expect(p, nm, Idents)
      ext == IF k = "class" /\ ts_check(p, j, {"extends"})
             THEN Arg(<<Look(p, Adv(p, j))>>, ts_expect(p, Adv(p, j), Idents)) ELSE Arg(Nil, j)
      imp == IF \/ k = "class" /\ ts_check(p, ext.i, {"implements"})
                \/ k = "interface" /\ ts_check(p, ext.i, {"extends"})
             THEN NameList(p, Adv(p, ext.i)) ELSE Arg(<<>>, ext.i)
      bk  == OptType(p, j)
      cs  == EnumCases(p, skip_nl(p, ts_expect(p, bk.i, {"{"})), <<>>)
      cls == parse_class_body(p, imp.i)
      fn  == parse_fn_after_name(p, j)
  IN CASE j = 0 -> Fatal
       [] k \in {"fn", "function"} -> Ended(p, Arg(<<"fn", Look(p, nm)>> \o fn.a, fn.i))
       [] k = "enum" ->
            Ended(p, Arg(<<"enum", Look(p, nm)>> \o bk.a \o cs.a \o <<"end">>, ts_expect(p, cs.i, {"}"})))
       [] OTHER -> Arg(<<k, Look(p, nm)>> \o ext.a \o imp.a \o <<"end">> \o cls.a, cls.i)

(***************************************************************************)
(* lex_all: newlines that only continue an expression are dropped.         *)
(***************************************************************************)
Infix == {"+", "-", "*", "/", "%", "**", ".", "<<", ">>", "==", "!=", "<>", "!==", "===", "<=>",
          "<", ">", "<=", ">=", "&&", "||", "&", "|", "^", "?", "??", "->", "::", "=>", ":", ","}

SlipTok_continues_with(k) == k \in (Infix \ {"."}) \cup {")", "]", ";"}

tok_needs_operand(k) ==
  k \in Infix \cup {"(", "[", "=", "+=", "-=", "*=", "/=", "%=", ".=", "**=", "~", "!", "echo",
                    "print", "throw", "new", "if", "elseif", "while", "for", "foreach", "switch",
                    "try", "finally", "do", "match", "as", "use", "else"}
tok_continues_with(k) == k \in Infix \cup {")", "]", ";"}

(* The brackets open at i, innermost last: a closing one pops only its own kind. *)
RECURSIVE OpenAt(_, _)
OpenAt(raw, i) ==
  IF i = 0 THEN <<>>
  ELSE LET o == OpenAt(raw, i - 1)
           top == IF o = <<>> THEN "" ELSE o[Len(o)]
       IN CASE raw[i] \in {"(", "["} -> Append(o, "p")
            [] raw[i] = "{" -> Append(o, "b")
            [] raw[i] \in {")", "]"} /\ top = "p" -> SubSeq(o, 1, Len(o) - 1)
            [] raw[i] = "}" /\ top = "b" -> SubSeq(o, 1, Len(o) - 1)
            [] OTHER -> o

RECURSIVE Keep(_, _, _, _)
Keep(raw, i, prev, out) ==
  IF i > Len(raw) THEN out
  ELSE LET open == OpenAt(raw, i)
           rest == SelectSeq(SubSeq(raw, i, Len(raw)), LAMBDA t : t # "\n")
       IN IF /\ raw[i] = "\n"
             /\ \/ open # <<>> /\ open[Len(open)] = "p"
                \/ tok_needs_operand(prev)
                \/ tok_continues_with(rest[1])
          THEN Keep(raw, i + 1, prev, out)
          ELSE Keep(raw, i + 1, raw[i], Append(out, raw[i]))

lex_all(raw) == Keep(Append(raw, "EOF"), 1, "EOF", <<>>)

ProgramRest(p, i, acc) ==
  LET k == Look(p, i)
  IN CASE k \in Stop -> Arg(acc, i)
       [] k \in {"\n", ";"} -> ProgramRest(p, Adv(p, i), acc)
       [] k = "import" ->
            ProgramRest(p, expect_nl_or_semi(p, ts_expect(p, Adv(p, i), {"'s'"})), acc \o <<"import">>)
       [] k \in {"fn", "function", "class", "interface", "trait", "enum"} ->
            LET d == parse_decl(p, i) IN ProgramRest(p, d.i, acc \o d.a)
       [] OTHER -> LET s == parse_stmt(p, i) IN ProgramRest(p, s.i, acc \o s.a)

parser_new(toks) == [toks |-> toks, loop_depth |-> 0]

parse_program(raw) ==
  LET r == ProgramRest(parser_new(lex_all(raw)), 1, <<>>)
  IN IF r.i = 0 THEN <<"fatal">> ELSE r.a
=============================================================================
