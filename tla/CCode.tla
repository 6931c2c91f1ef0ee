-------------------------------- MODULE CCode --------------------------------
(***************************************************************************)
(* What a C compiler and hp_try_run make of the code that Codegen emits    *)
(* (external: gcc), and what the statements of the source mean.  Both sides*)
(* run against an oracle, a sequence of booleans: each condition, test of  *)
(* a case and step of a foreach takes the next one, and so does a call of  *)
(* a function in Risky, which throws on TRUE.  A run stops when the oracle *)
(* is empty.  The trace holds the user's functions that were called.       *)
(***************************************************************************)
EXTENDS Codegen

CONSTANTS Traced, Risky                  \* names of functions

(***************************************************************************)
(* The compiler: names are declared, with the type they are used with,     *)
(* jumps stay in their function, conditions are scalars.                   *)
(***************************************************************************)
RECURSIVE ItemsOk(_, _), LabelsIn(_)
NameOk(env, t) ==
  CASE t[1] = "v" -> t[2] \in DOMAIN env.vars /\ env.vars[t[2]] = t[3]
    [] t[1] = "self" -> t[2] # "" /\ env.self = t[2]
    [] t[1] = "closure" -> t \in env.closures
    [] OTHER -> t # <<"hp_missing_var">>
CodeOk(env, x) == x.ok /\ \A i \in DOMAIN x.txt : NameOk(env, x.txt[i])
Scalar(env, x) == CodeOk(env, x) /\ x.c \notin {chval, cvoid}
LabelsIn(items) ==
  UNION {LET i == items[n]
         IN CASE i.k = "label" -> {i.id}
              [] i.k = "if" -> LabelsIn(i.then \o i.els)
              [] i.k \in {"loop", "block"} -> LabelsIn(i.body)
              [] i.k = "switch" -> UNION {LabelsIn(i.cases[c].body) : c \in DOMAIN i.cases}
              [] OTHER -> {} : n \in DOMAIN items}
FunctionOf(env, body) == [env EXCEPT !.labels = LabelsIn(body), !.loop = FALSE, !.switch = FALSE]
TryOk(env, i) ==
  LET pairs == i.vs
      env1 == [env EXCEPT !.vars = [u \in {p[1] : p \in pairs} |-> (CHOOSE p \in pairs : p[1] = u)[2]]
                                   @@ env.file, !.self = i.self, !.ret = chval]
  IN /\ \A p \in pairs : p[1] \in DOMAIN env.vars
     /\ i.self # "" => env.self = i.self
     /\ ItemsOk(FunctionOf(env1, i.body), i.body) /\ ItemsOk(FunctionOf(env1, i.catch), i.catch)
ItemOk(env, i) ==
  CASE i.k = "decl" -> CodeOk(env, i.x) /\ i.c # cvoid /\ Fits(i.c, i.x.c)
    [] i.k = "do" -> CodeOk(env, i.x)
    [] i.k = "if" -> Scalar(env, i.x) /\ ItemsOk(env, i.then) /\ ItemsOk(env, i.els)
    [] i.k = "loop" -> (i.kind = "once" \/ Scalar(env, i.x)) /\ ItemsOk([env EXCEPT !.loop = TRUE], i.body)
    [] i.k = "switch" -> /\ Scalar(env, i.x)
                         /\ \A c \in DOMAIN i.cases :
                              /\ \A p \in DOMAIN i.cases[c].pats : i.cases[c].pats[p].ok
                              /\ ItemsOk([env EXCEPT !.switch = TRUE], i.cases[c].body)
    [] i.k = "block" -> ItemsOk(env, i.body)
    [] i.k = "goto" -> i.id \in env.labels
    [] i.k = "break" -> env.loop \/ env.switch
    [] i.k = "continue" -> env.loop
    [] i.k \in {"return", "leave"} -> CodeOk(env, i.x) /\ (i.x.c = cvoid \/ Fits(env.ret, i.x.c))
    [] i.k = "try" -> TryOk(env, i)
    [] i.k = "onact" -> ItemsOk(env, i.then)
    [] OTHER -> TRUE
(* The items of a block; a declaration is in sight of the ones after it.   *)
ItemsOk(env, items) ==
  LET Before(n) == {m \in 1 .. n - 1 : items[m].k = "decl"}
      Own(n) == [u \in {items[m].v : m \in Before(n)} |->
                   items[CHOOSE m \in Before(n) : items[m].v = u].c]
      Env(n) == IF Before(n) = {} THEN env ELSE [env EXCEPT !.vars = Own(n) @@ env.vars]
  IN \A n \in DOMAIN items :
       /\ ItemOk(Env(n), items[n])
       /\ items[n].k = "decl" => \A m \in Before(n) : items[m].v # items[n].v

Compiles(out, f) ==
  LET file == [u \in {p[1] : p \in out.globals} |-> (CHOOSE p \in out.globals : p[1] = u)[2]]
      params == [u \in {p[1] : p \in f.params} |-> (CHOOSE p \in f.params : p[1] = u)[2]]
  IN ItemsOk([vars |-> params @@ file, file |-> file, self |-> f.self, ret |-> f.ret, loop |-> FALSE,
              switch |-> FALSE, labels |-> LabelsIn(f.body), closures |-> out.closures], f.body)
(* A struct that holds another by value comes after it.                    *)
StructsOk(out) == \A i \in DOMAIN out.structs :
  out.structs[i][2] # "" => \E j \in 1 .. i - 1 : out.structs[j][1] = out.structs[i][2]
gcc_accepts(out) == StructsOk(out) /\ \A i \in DOMAIN out.fns : Compiles(out, out.fns[i])

(***************************************************************************)
(* A run: tr the trace, o the rest of the oracle, r how it goes on, act    *)
(* what a helper asks its try statement to do.                             *)
(***************************************************************************)
Start(o) == [tr |-> <<>>, o |-> o, r |-> "normal", act |-> 0, to |-> <<>>]
Ask(S) == IF S.o = <<>> THEN [S EXCEPT !.r = "stop"] ELSE [S EXCEPT !.o = Tail(@)]
Yes(S) == S.r = "normal" /\ S.o # <<>> /\ Head(S.o)
Calling(S, name) ==
  LET s1 == [S EXCEPT !.tr = Append(@, name)]
  IN IF name \in Risky THEN LET a == Ask(s1) IN IF Yes(s1) THEN [a EXCEPT !.r = "throw"] ELSE a ELSE s1
RunCalls(S, names) ==
  LET R[i \in 0 .. Len(names)] ==
        IF i = 0 THEN S ELSE IF R[i - 1].r = "normal" THEN Calling(R[i - 1], names[i]) ELSE R[i - 1]
  IN R[Len(names)]
Evaluate(S, x) == RunCalls(S, [i \in DOMAIN SelectSeq(x.txt, LAMBDA t : t[1] \in Traced) |->
                                 SelectSeq(x.txt, LAMBDA t : t[1] \in Traced)[i][1]])
Becomes(S, r) == IF S.r = "normal" THEN [S EXCEPT !.r = r] ELSE S
Ended(S, r) == IF S.r = r THEN [S EXCEPT !.r = "normal"] ELSE S

RECURSIVE RunItems(_, _, _), RunItem(_, _, _), RunLoop(_, _), RunCase(_, _, _, _), Pick(_, _, _, _)
(* After a condition is evaluated: S if it holds, otherwise r.             *)
RunLoop(S, i) ==
  LET c == Evaluate(S, i.x)
      b == Ended(RunItems(Ask(c), i.body, 0), "continue")
      d == Evaluate(b, i.x)
  IN IF c.r # "normal" THEN c ELSE IF ~ Yes(c) THEN Ask(c)
     ELSE IF b.r = "normal" THEN RunLoop(b, i) ELSE Ended(b, "break")
RunDo(S, i) ==
  LET b == Ended(RunItems(S, i.body, 0), "continue")
  IN IF b.r = "normal" THEN RunLoop(b, i) ELSE Ended(b, "break")
(* The case a value selects: its patterns in order, then the default.      *)
Pick(S, cases, c, p) ==
  LET Default == {n \in DOMAIN cases : cases[n].pats = <<>>}
  IN CASE S.r # "normal" -> [S |-> S, at |-> Len(cases) + 1]
       [] c > Len(cases) -> [S |-> S, at |-> IF Default = {} THEN c ELSE CHOOSE n \in Default : TRUE]
       [] p > Len(cases[c].pats) -> Pick(S, cases, c + 1, 1)
       [] Yes(S) -> [S |-> Ask(S), at |-> c]
       [] OTHER -> Pick(Ask(S), cases, c, p + 1)
RunCase(S, cases, c, ctx) ==
  IF c > Len(cases) \/ S.r # "normal" THEN S
  ELSE RunCase(RunItems(S, cases[c].body, ctx), cases, c + 1, ctx)
(* hp_try_run: an exception of the body goes to the catch function, one of *)
(* the catch function, or without one, waits until the finally code ran.   *)
RunTry(S, i) ==
  LET b == RunItems(S, i.body, 0)
      h == IF b.r = "throw" /\ i.handled THEN RunItems([b EXCEPT !.r = "normal"], i.catch, 0) ELSE b
  IN CASE h.r = "leave" -> [S |-> [h EXCEPT !.r = "normal"], act |-> h.act]
       [] h.r = "throw" -> [S |-> [h EXCEPT !.r = "normal"], act |-> -1]
       [] OTHER -> [S |-> h, act |-> 0]
RunItem(S, i, act) ==
  CASE i.k \in {"decl", "do"} -> Evaluate(S, i.x)
    [] i.k = "if" -> LET c == Evaluate(S, i.x)
                     IN IF c.r # "normal" THEN c ELSE RunItems(Ask(c), IF Yes(c) THEN i.then ELSE i.els, act)
    [] i.k = "loop" -> CASE i.kind = "while" -> RunLoop(S, i)
                         [] i.kind = "do" -> RunDo(S, i)
                         [] OTHER -> Ended(RunItems(S, i.body, 0), "break")
    [] i.k = "switch" -> LET p == Pick(Evaluate(S, i.x), i.cases, 1, 1)
                         IN Ended(RunCase(p.S, i.cases, p.at, 0), "break")
    [] i.k = "block" -> RunItems(S, i.body, act)
    [] i.k = "goto" -> [S EXCEPT !.r = "goto", !.to = i.id]
    [] i.k = "return" -> Becomes(Evaluate(S, i.x), "return")
    [] i.k = "leave" -> Becomes([Evaluate(S, i.x) EXCEPT !.act = i.act], "leave")
    [] i.k = "rethrow" -> IF act = -1 THEN [S EXCEPT !.r = "throw"] ELSE S
    [] i.k = "onact" -> IF act \in i.act THEN RunItems(S, i.then, act) ELSE S
    [] i.k = "pass" -> [S EXCEPT !.r = "leave", !.act = act]
    [] i.k \in {"break", "continue", "throw"} -> [S EXCEPT !.r = i.k]
    [] OTHER -> S
RunItems(S, items, act) ==
  CASE items = <<>> -> S
    [] S.r = "goto" /\ Head(items).k = "label" /\ Head(items).id = S.to -> RunItems([S EXCEPT !.r = "normal"], Tail(items), act)
    [] S.r # "normal" -> IF S.r = "goto" THEN RunItems(S, Tail(items), act) ELSE S
    [] Head(items).k = "try" -> LET t == RunTry(S, Head(items)) IN RunItems(t.S, Tail(items), t.act)
    [] OTHER -> RunItems(RunItem(S, Head(items), act), Tail(items), act)

(***************************************************************************)
(* The meaning of the source.  Calls in the order in which the text has    *)
(* them; a loop ends at break, a finally block runs however the statement  *)
(* ends and its own break, continue, return or throw wins.                 *)
(***************************************************************************)
RECURSIVE Marks(_), Meaning(_, _), Means(_, _), Repeats(_, _, _, _), FallsThrough(_, _, _)
MarksOf(es) == SE!FlattenSeq([i \in DOMAIN es |-> Marks(es[i])])
Marks(e) ==
  CASE e.k = "call" -> (IF e.fn.k = "var" /\ e.fn.name \in Traced THEN <<e.fn.name>> ELSE Marks(e.fn)) \o MarksOf(e.args)
    [] e.k = "bin"  -> MarksOf(<<e.l, e.r>>)
    [] e.k = "assign" -> MarksOf(<<e.t, e.v>>)
    [] e.k = "index" -> MarksOf(<<e.obj, e.idx>>)
    [] e.k = "un"   -> Marks(e.e)
    [] e.k = "tpl"  -> MarksOf(e.es)
    [] e.k = "arr"  -> MarksOf(e.keys \o e.vals \o e.elems)
    [] e.k = "new"  -> MarksOf(e.args)
    [] OTHER -> <<>>
Values(S, e) == RunCalls(S, Marks(e))
Repeats(S, c, body, step) ==
  LET t == Values(S, c)
      b == Ended(Meaning(Ask(t), body), "continue")
      n == Meaning(b, step)
  IN IF t.r # "normal" THEN t ELSE IF ~ Yes(t) THEN Ask(t)
     ELSE IF n.r = "normal" THEN Repeats(n, c, body, step) ELSE Ended(n, "break")
FallsThrough(S, cases, c) ==
  IF c > Len(cases) \/ S.r # "normal" THEN S ELSE FallsThrough(Meaning(S, cases[c].body), cases, c + 1)
Means(S, s) ==
  CASE s.k = "expr" -> Values(S, s.e)
    [] s.k = "let"  -> Values(S, s.init)
    [] s.k = "echo" -> RunCalls(S, MarksOf(s.es))
    [] s.k \in {"return", "throw"} -> Becomes(Values(S, IF s.k = "throw" THEN s.e ELSE s.value), s.k)
    [] s.k \in {"break", "continue"} -> [S EXCEPT !.r = s.k]
    [] s.k = "if" -> LET c == Values(S, s.c)
                     IN IF c.r # "normal" THEN c ELSE Meaning(Ask(c), IF Yes(c) THEN s.then ELSE s.els)
    [] s.k = "while" -> Repeats(S, s.c, s.body, <<>>)
    [] s.k = "do" -> LET b == Ended(Meaning(S, s.body), "continue")
                     IN IF b.r = "normal" THEN Repeats(b, s.c, s.body, <<>>) ELSE Ended(b, "break")
    [] s.k = "for" -> Repeats(Meaning(S, s.init), s.c, s.body, s.step)
    [] s.k = "foreach" -> Repeats(Values(S, s.iter), [k |-> "none"], s.body, <<>>)
    [] s.k = "switch" -> LET p == Pick(Values(S, s.c), s.cases, 1, 1)
                         IN Ended(FallsThrough(p.S, s.cases, p.at), "break")
    [] s.k \in {"block", "unsafe"} -> Meaning(S, s.body)
    [] s.k = "try" ->
         LET b == Meaning(S, s.body)
             h == IF b.r = "throw" /\ s.catches # <<>>
                  THEN Meaning([b EXCEPT !.r = "normal"], s.catches[1].body) ELSE b
             f == Meaning([h EXCEPT !.r = "normal"], s.fin)
         IN IF h.r = "stop" THEN h ELSE IF f.r = "normal" THEN [f EXCEPT !.r = h.r] ELSE f
    [] OTHER -> S
Meaning(S, ss) ==
  IF ss = <<>> \/ S.r # "normal" THEN S ELSE Meaning(Means(S, Head(ss)), Tail(ss))
============================================================================
