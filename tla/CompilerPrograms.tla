--------------------------- MODULE CompilerPrograms --------------------------
(***************************************************************************)
(* The programs Compiler checks: syntax trees with fewer brackets, one     *)
(* statement about variables of two types in seven surroundings, nested    *)
(* statements around one that leaves them, and class hierarchies.          *)
(***************************************************************************)
EXTENDS CCode

CONSTANTS Wrappers, Leaves               \* kinds of statements, by the names below

absent == [k |-> "none"]
V(n)  == [k |-> "var", name |-> n, bare |-> FALSE]
F(n, args) == [k |-> "call", fn |-> [k |-> "var", name |-> n, bare |-> TRUE], args |-> args]
One == [k |-> "int", v |-> 1]
Text == [k |-> "str", v |-> "x"]
Bin(op, l, r) == [k |-> "bin", op |-> op, l |-> l, r |-> r]
Un(op, e)     == [k |-> "un", op |-> op, e |-> e]
As(op, t, v)  == [k |-> "assign", op |-> op, t |-> t, v |-> v, ann |-> None]
At(o, i)      == [k |-> "index", obj |-> o, idx |-> i]
PropOf(o, n) == [k |-> "field", obj |-> o, name |-> n, static |-> FALSE]
Send(o, n, args) == [k |-> "method", obj |-> o, name |-> n, args |-> args]
New(c, args)  == [k |-> "new", cls |-> c, args |-> args]
Arr(es)       == [k |-> "arr", keys |-> <<>>, vals |-> <<>>, elems |-> es]
Cast(t, e)    == [k |-> "cast", to |-> t, e |-> e]
X(e)          == [k |-> "expr", e |-> e]
Put(n, e)     == X(As("=", V(n), e))
Let(n, t, e)  == [k |-> "let", name |-> n, is_mut |-> TRUE, init |-> e, ann |-> t]
Return(e)     == [k |-> "return", value |-> e]
Echo(e)       == [k |-> "echo", es |-> <<e>>]
Param(n, t)   == [name |-> n, type |-> t, by_ref |-> FALSE, is_mut |-> FALSE, dflt |-> absent]
Fn(n, ps, ret, body) == [name |-> n, params |-> ps, use_vars |-> <<>>, ret |-> ret, body |-> body, cls |-> "",
                         is_static |-> FALSE]
Closure(ps, use, ret, body) == [k |-> "closure", fn |-> [Fn("", ps, ret, body) EXCEPT !.use_vars = use]]
InClass(c, f) == [f EXCEPT !.cls = c]
Try(body, catch, fin) ==
  [k |-> "try", body |-> body, fin |-> fin,
   catches |-> IF catch = <<>> THEN <<>> ELSE <<[type |-> <<"class", "Exception">>, var |-> "e", body |-> catch]>>]
IfElse(c, a, b) == [k |-> "if", c |-> c, then |-> a, els |-> b]
While(c, b)     == [k |-> "while", c |-> c, body |-> b]
DoWhile(c, b)   == [k |-> "do", c |-> c, body |-> b]
For(i, c, s, b) == [k |-> "for", init |-> i, c |-> c, step |-> s, body |-> b]
Foreach(it, v, b) == [k |-> "foreach", iter |-> it, var |-> v, kvar |-> "", body |-> b]
Case(ps, b)     == [pats |-> ps, body |-> b]
Switch(c, cs)   == [k |-> "switch", c |-> c, cases |-> cs]
File(fns, classes, ss) == [fns |-> fns, classes |-> classes, enums |-> <<>>, stmts |-> ss]

(***************************************************************************)
(* Two types and a statement.  Every type names a variable and a field.    *)
(***************************************************************************)
TypeNames == <<"i", "d", "s", "b", "a", "m", "o">>
Types == [i |-> ty_int, d |-> ty_float, s |-> ty_string, b |-> ty_bool, a |-> type_array_of(ty_mixed),
          m |-> ty_mixed, o |-> <<"class", "C">>]
Value == [i |-> One, d |-> [k |-> "float", v |-> 1], s |-> Text, b |-> [k |-> "bool"], a |-> Arr(<<One, One>>),
          m |-> F("any", <<>>), o |-> New("C", <<One>>)]
FieldDefault == [Value EXCEPT !["d"] = absent, !["b"] = absent, !["m"] = One, !["o"] = [k |-> "null"]]
ClassC(methods) ==
  [name |-> "C", extends |-> "",
   fields |-> [n \in DOMAIN TypeNames |-> [name |-> TypeNames[n], type |-> Types[TypeNames[n]],
                                           dflt |-> FieldDefault[TypeNames[n]]]],
   methods |-> <<InClass("C", Fn("__construct", <<Param("n", ty_int)>>, None,
                                 <<X(As("=", PropOf(V("this"), "i"), V("n")))>>)),
                 InClass("C", Fn("go", <<Param("n", ty_int)>>, ty_int, <<Return(V("n"))>>))>> \o methods]

BinForms    == {"+", "-", "*", "/", "%", ".", "==", "===", "<", "&&", "&", "<<", "??", "**", "<=>"}
AssignForms == {"=", "+=", "-=", "/=", "%=", ".=", "??=", "<<="}
FieldForms  == {"field=", "field+=", "field.=", "field??="}
ElemForms   == {"elem=", "elem+="}
BuiltinForms == {"max", "strpos", "implode", "str_pad", "json_encode", "sprintf", "strlen", "isset", "microtime",
                 "round"}
OneSided    == {"echo", "not", "neg", "use", "int", "string", "float", "new", "throw", "strlen", "isset",
                "microtime", "round"}
Forms == BinForms \cup BuiltinForms \cup AssignForms \cup FieldForms \cup ElemForms \cup OneSided
         \cup {"push", "read", "pass", "let", "return", "if", "while", "dowhile", "for", "foreach", "tpl", "call",
               "match", "tern", "switch", "method"}
StmtOf(f, x, y, vx, vy) ==
  LET R(e) == Put("r", e)
  IN CASE f \in BinForms -> R(Bin(f, vx, vy))
       [] f \in AssignForms -> X(As(f, V(x), vy))
       [] f \in ElemForms -> X(As(IF f = "elem=" THEN "=" ELSE "+=", At(V("a"), vx), vy))
       [] f \in FieldForms -> X(As(CASE f = "field=" -> "=" [] f = "field+=" -> "+=" [] f = "field.=" -> ".="
                                     [] OTHER -> "??=", PropOf(V("o"), x), vy))
       [] f \in BuiltinForms -> R(F(f, IF f \in OneSided THEN <<vx>> ELSE <<vx, vy>>))
       [] f = "push"    -> X(As("=", At(V(x), absent), vy))
       [] f = "read"    -> R(At(vx, vy))
       [] f = "pass"    -> R(F("take", <<vy>>))
       [] f = "let"     -> Let("z", Types[x], vy)
       [] f = "return"  -> Return(vy)
       [] f = "if"      -> IfElse(vx, <<R(vy)>>, <<>>)
       [] f = "while"   -> While(vx, <<R(vy)>>)
       [] f = "dowhile" -> DoWhile(vx, <<R(vy)>>)
       [] f = "for"     -> For(<<R(vy)>>, vx, <<>>, <<>>)
       [] f = "foreach" -> Foreach(vx, "v", <<R(V("v"))>>)
       [] f = "echo"    -> Echo(vx)
       [] f = "tpl"     -> R([k |-> "tpl", es |-> <<vx, vy>>])
       [] f = "not"     -> R(Un("!", vx))
       [] f = "neg"     -> R(Un("-", vx))
       [] f = "use"     -> Put("g", Closure(<<>>, <<[name |-> x, by_ref |-> FALSE]>>, None, <<Return(V(x))>>))
       [] f = "call"    -> R([k |-> "call", fn |-> Closure(<<Param("p", Types[x])>>, <<>>, None, <<Return(V("p"))>>),
                              args |-> <<vy>>])
       [] f = "match"   -> R([k |-> "match", subj |-> vx, arms |-> <<[pats |-> <<One, vy>>, body |-> vy]>>, dflt |-> vx])
       [] f = "tern"    -> R([k |-> "tern", c |-> V("b"), a |-> vx, b |-> vy])
       [] f = "switch"  -> Switch(vx, <<Case(<<IF x = "s" THEN Text ELSE One>>, <<R(vy)>>), Case(<<>>, <<R(vy)>>)>>)
       [] f = "throw"   -> [k |-> "throw", e |-> vx]
       [] f = "new"     -> R(New("C", <<vx>>))
       [] f = "method"  -> R(Send(vx, "go", <<vy>>))
       [] OTHER         -> R(Cast(CASE f = "int" -> ty_int [] f = "string" -> ty_string [] OTHER -> ty_float, vx))

VarsOf(f, x, y) == {x, y} \cup (IF f \in ElemForms THEN {"a"} ELSE {}) \cup (IF f \in FieldForms THEN {"o"} ELSE {})
                  \cup (IF f = "tern" THEN {"b"} ELSE {})
TypedProgram(ctx, f, x, y) ==
  LET s == StmtOf(f, x, y, V(x), V(y))
      vs == SelectSeq(TypeNames, LAMBDA v : v \in VarsOf(f, x, y))
      pre == [n \in DOMAIN vs |-> Put(vs[n], Value[vs[n]])]
      ret == IF f = "return" THEN Types[x] ELSE None
      helpers == <<Fn("any", <<>>, None, <<Return(One)>>)>>
                 \o IF f = "pass" THEN <<Fn("take", <<Param("p", Types[x])>>, Types[x], <<Return(V("p"))>>)>> ELSE <<>>
      InFn(ps, body) == File(helpers \o <<Fn("w", ps, ret, body)>>, <<ClassC(<<>>)>>, <<>>)
  IN CASE ctx = "fn"  -> InFn(<<>>, pre \o <<s>>)
       [] ctx = "top" -> File(helpers, <<ClassC(<<>>)>>, pre \o <<s>>)
       [] ctx = "try" -> InFn(<<>>, pre \o <<Try(<<s>>, <<Echo(One)>>, <<>>)>>)
       [] ctx = "closure" -> InFn(<<>>, pre \o <<Put("k", Closure(<<>>, <<>>, ret, <<s>>))>>)
       [] ctx = "ref" -> InFn(<<>>, pre \o <<Put("k", Closure(<<>>,
                           [n \in DOMAIN vs |-> [name |-> vs[n], by_ref |-> TRUE]], ret, <<s>>))>>)
       [] ctx = "param" -> InFn([n \in DOMAIN vs |-> Param(vs[n], Types[vs[n]])], <<s>>)
       [] OTHER -> File(helpers, <<ClassC(<<InClass("C", Fn("w", <<>>, ret, pre \o <<s>>))>>)>>, <<>>)

(* The same statement with a call in the place of each variable it reads.  *)
OnceProgram(f, x, y) ==
  LET Gives(n, t) == Fn(n, <<>>, Types[t], <<Return(V("p"))>>)
      pre == Put("a", Value["a"]) 
  IN File(<<[Gives("l", x) EXCEPT !.body = <<Put("p", Value[x])>> \o @],
            [Gives("r", y) EXCEPT !.body = <<Put("p", Value[y])>> \o @]>>
          \o (IF {x, y} \cap {"m"} # {} THEN <<Fn("any", <<>>, None, <<Return(One)>>)>> ELSE <<>>)
          \o <<Fn("w", <<>>, None, <<pre, StmtOf(f, x, y, F("l", <<>>), F("r", <<>>))>>)>>, <<ClassC(<<>>)>>, <<>>)

(***************************************************************************)
(* Statements around a statement.  Every function is called for its trace: *)
(* c is a condition, n and t are switched on, r may throw.                 *)
(***************************************************************************)
Calls(n) == X(F(n, <<>>))
Around(w, body) ==
  CASE w = "if"    -> IfElse(F("c", <<>>), body, <<Calls("b")>>)
    [] w = "while" -> While(F("c", <<>>), body)
    [] w = "do"    -> DoWhile(F("c", <<>>), body)
    [] w = "for"   -> For(<<Calls("a")>>, F("c", <<>>), <<Calls("b")>>, body)
    [] w = "foreach" -> Foreach(F("list", <<>>), "v", body)
    [] w = "switch" -> Switch(F("n", <<>>), <<Case(<<One, [k |-> "int", v |-> 2]>>, body),
                                              Case(<<[k |-> "int", v |-> 3]>>, <<Calls("a")>>), Case(<<>>, <<Calls("b")>>)>>)
    [] w = "text"  -> Switch(F("t", <<>>), <<Case(<<Text>>, body \o <<[k |-> "break"]>>), Case(<<>>, <<Calls("b")>>)>>)
    [] w = "try"   -> Try(body, <<Calls("h")>>, <<Calls("z")>>)
    [] w = "tryfin" -> Try(body, <<>>, <<Calls("z")>>)
    [] w = "catch" -> Try(<<Calls("r")>>, body, <<Calls("z")>>)
    [] w = "finally" -> Try(<<Calls("r")>>, <<Calls("h")>>, body)
    [] OTHER       -> [k |-> "unsafe", body |-> body]
Leaf(l) == CASE l = "call" -> Calls("r")
             [] l = "return" -> Return(F("u", <<>>))
             [] l = "throw" -> [k |-> "throw", e |-> F("t", <<>>)]
             [] l = "closure" -> Put("g", Closure(<<>>, <<>>, None, <<Return(One)>>))
             [] OTHER -> [k |-> l]
RECURSIVE Nested(_, _)
Nested(ws, l) == IF ws = <<>> THEN <<Leaf(l)>> ELSE <<Around(Head(ws), Nested(Tail(ws), l)), Calls("a")>>
Answer == [c |-> ty_bool, n |-> ty_int, t |-> ty_string, a |-> ty_int, b |-> ty_int, h |-> ty_int, z |-> ty_int,
           u |-> ty_int, r |-> ty_int, list |-> type_array_of(ty_mixed)]
Stub(n) == Fn(n, <<>>, Answer[n], <<Return(CASE n = "c" -> [k |-> "bool"] [] n = "t" -> Text
                                              [] n = "list" -> Arr(<<One>>) [] OTHER -> One)>>)
StubNames == <<"c", "n", "t", "a", "b", "h", "z", "u", "r", "list">>
CalledBy(w) == CASE w = "if" -> {"c", "b"} [] w \in {"while", "do"} -> {"c"} [] w = "for" -> {"a", "b", "c"}
                 [] w = "foreach" -> {"list"} [] w = "switch" -> {"n", "b"} [] w = "text" -> {"t", "b"}
                 [] w = "try" -> {"h", "z"} [] w = "tryfin" -> {"z"} [] w = "catch" -> {"r", "z"}
                 [] w = "finally" -> {"r", "h"} [] w = "call" -> {"r"} [] w = "return" -> {"u"}
                 [] w = "throw" -> {"t"} [] OTHER -> {}
NestedProgram(ws, l) ==
  LET called == {"a"} \cup CalledBy(l) \cup UNION {CalledBy(ws[i]) : i \in DOMAIN ws}
      stubs == SelectSeq(StubNames, LAMBDA n : n \in called)
      ret == IF l = "return" THEN ty_int ELSE None
  IN File([n \in DOMAIN stubs |-> Stub(stubs[n])] \o <<Fn("w", <<>>, ret, Nested(ws, l))>>, <<>>, <<>>)

(***************************************************************************)
(* A chain of three classes; each defines q or not, A has go, which calls  *)
(* q of its receiver, B has go2, which calls go.                           *)
(***************************************************************************)
Overrider(c, base, has) ==
  LET q == InClass(c, Fn("q", <<>>, ty_int, <<Return(One)>>))
      Sends(n, m) == InClass(c, Fn(n, <<>>, ty_int, <<Return(Send(V("this"), m, <<>>))>>))
      chain == CASE c = "A" -> <<Sends("go", "q")>> [] c = "B" -> <<Sends("go2", "go")>> [] OTHER -> <<>>
  IN [name |-> c, extends |-> base,
      fields |-> <<[name |-> "f" \o c, type |-> ty_int, dflt |-> One]>>,
      methods |-> (IF has THEN <<q>> ELSE <<>>) \o chain]
(* bases[c] is the class c extends; order is the order in the file.        *)
HierarchyProgram(order, bases, has) ==
  File(<<>>, [n \in DOMAIN order |-> Overrider(order[n], bases[order[n]], order[n] \in has)], <<>>)

(***************************************************************************)
(* Owned objects p and q: an operation is an assignment of the one to the  *)
(* other or a use, plain, under a condition or in a loop.                  *)
(***************************************************************************)
MoveOps == {<<"move", "p", "q">>, <<"move", "q", "p">>, <<"use", "p">>, <<"use", "q">>}
MoveStmt(o) == IF o[1] = "move" THEN X(As("=", V(o[2]), V(o[3]))) ELSE Echo(PropOf(V(o[2]), "i"))
Placed(place, s) == CASE place = "if" -> IfElse(F("c", <<>>), <<s>>, <<>>)
                      [] place = "while" -> While(F("c", <<>>), <<s>>)
                      [] OTHER -> s
MovesProgram(ops) ==
  File(<<Stub("c"), Fn("w", <<>>, None, <<Let("p", None, New("C", <<One>>)), Let("q", None, New("C", <<One>>))>>
                        \o [n \in DOMAIN ops |-> Placed(ops[n].place, MoveStmt(ops[n].op))])>>, <<ClassC(<<>>)>>, <<>>)
============================================================================
